-------------------------- MODULE Compartidas_proof --------------------------
(***************************************************************************)
(* Proofs about Compartidas: without the values, its kernel and CPUs are   *)
(* those of PCPCpu, so what is proved of PCPCpu holds of them.             *)
(***************************************************************************)
EXTENDS Compartidas, SequenceTheorems, WellFoundedInduction, TLAPS

V == INSTANCE PCPExclusion_proof WITH
  Codigo <- CodigoVisto,
  haciaCpu <- HaciaCpuVisto,
  haciaKernel <- HaciaKernelVisto,
  hilo <- HilosVistos,
  cpu <- CpusVistas

-----------------------------------------------------------------------------
(* The texts. *)

\* A set of positions that is not empty has a first one.
LEMMA PrimeraPosicion ==
  ASSUME NEW T, T \subseteq Nat, T # {}
  PROVE  \E x \in T : \A y \in T : x <= y
<1>1. PICK x \in T : \A y \in T : ~(<<y, x>> \in OpToRel(<, Nat))
  BY NatLessThanWellFounded, WFMin
<1>2. \A y \in T : ~(<<y, x>> \in Nat \X Nat /\ y < x)
  BY <1>1, Zenon DEF OpToRel
<1>3. \A y \in T : y \in Nat /\ x \in Nat /\ ~(y < x)
  BY <1>2, Zenon
<1> QED
  BY <1>3

\* A text is read up to the first line that ends it.
LEMMA TerminaEs ==
  ASSUME TextosEnRegla, NEW p \in Programas
  PROVE  /\ Termina(p) \in QueTerminan(p)
         /\ \A j \in QueTerminan(p) : Termina(p) <= j
         /\ Termina(p) \in 1..Len(Codigo[p]) /\ Len(Codigo[p]) \in Nat
         /\ DOMAIN Codigo[p] = 1..Len(Codigo[p])
         /\ \A i \in 1..Termina(p) :
              /\ i \in 1..Len(Codigo[p])
              /\ Codigo[p][i] \in [op : Operaciones, nombre : Nombres, fallas : Nat]
<1>1. /\ Codigo[p] \in Seq([op : Operaciones, nombre : Nombres, fallas : Nat])
      /\ QueTerminan(p) # {}
  BY DEF TextosEnRegla
<1>2. /\ Len(Codigo[p]) \in Nat /\ DOMAIN Codigo[p] = 1..Len(Codigo[p])
      /\ \A i \in 1..Len(Codigo[p]) :
           Codigo[p][i] \in [op : Operaciones, nombre : Nombres, fallas : Nat]
  <2>1. PICK S : S = [op : Operaciones, nombre : Nombres, fallas : Nat]
    OBVIOUS
  <2>2. Codigo[p] \in Seq(S)
    BY <1>1, <2>1
  <2>3. /\ Len(Codigo[p]) \in Nat /\ DOMAIN Codigo[p] = 1..Len(Codigo[p])
        /\ \A i \in 1..Len(Codigo[p]) : Codigo[p][i] \in S
    BY <2>2, LenProperties, ElementOfSeq
  <2> QED
    BY <2>1, <2>3
<1>3. QueTerminan(p) \subseteq 1..Len(Codigo[p]) /\ 1..Len(Codigo[p]) \subseteq Nat
  BY <1>2 DEF QueTerminan
<1>4. \E i \in QueTerminan(p) : \A j \in QueTerminan(p) : i <= j
  BY <1>1, <1>3, PrimeraPosicion
<1>5. /\ Termina(p) \in QueTerminan(p)
      /\ \A j \in QueTerminan(p) : Termina(p) <= j
  BY <1>4 DEF Termina
<1>6. Termina(p) \in 1..Len(Codigo[p])
  BY <1>3, <1>5
<1>7. \A i \in 1..Termina(p) : i \in 1..Len(Codigo[p])
  BY <1>2, <1>6
<1> QED
  BY <1>2, <1>5, <1>6, <1>7

\* The text that is left.
LEMMA CodigoVistoEs ==
  ASSUME TextosEnRegla, NEW p \in Programas
  PROVE  /\ DOMAIN CodigoVisto[p] = 1..Termina(p)
         /\ CodigoVisto[p] \in Seq([op : Operaciones, nombre : V!Nombres, fallas : Nat])
         /\ Len(CodigoVisto[p]) = Termina(p) /\ Termina(p) \in Nat /\ Termina(p) > 0
         /\ \A i \in 1..Termina(p) : CodigoVisto[p][i] = LineaVista(Codigo[p][i])
<1>1. CodigoVisto[p] = [i \in 1..Termina(p) |-> LineaVista(Codigo[p][i])]
  BY DEF CodigoVisto
<1>2. Termina(p) \in Nat /\ Termina(p) > 0
  BY TerminaEs
<1>3. ASSUME NEW i \in 1..Termina(p)
      PROVE  CodigoVisto[p][i] \in [op : Operaciones, nombre : V!Nombres, fallas : Nat]
  <2>1. /\ CodigoVisto[p][i] = LineaVista(Codigo[p][i])
        /\ Codigo[p][i] \in [op : Operaciones, nombre : Nombres, fallas : Nat]
    BY <1>1, TerminaEs
  <2>2. /\ CodigoVisto[p][i].op \in Operaciones /\ CodigoVisto[p][i].fallas \in Nat
        /\ CodigoVisto[p][i] = [op |-> CodigoVisto[p][i].op, nombre |-> CodigoVisto[p][i].nombre,
                                fallas |-> CodigoVisto[p][i].fallas]
    BY <2>1 DEF LineaVista, Linea, Operaciones
  <2>3. i \in DOMAIN CodigoVisto[p]
    BY <1>1
  <2>4. CodigoVisto[p][i].nombre \in V!Nombres
    BY <2>3 DEF V!Nombres, V!Programas, Programas
  <2> QED
    BY <2>2, <2>4
<1>4. PICK S : S = [op : Operaciones, nombre : V!Nombres, fallas : Nat]
  OBVIOUS
<1>5. CodigoVisto[p] \in [1..Termina(p) -> S]
  BY <1>1, <1>3, <1>4
<1>6. CodigoVisto[p] \in Seq(S) /\ Len(CodigoVisto[p]) = Termina(p)
  BY <1>2, <1>5, SeqDef
<1> QED
  BY <1>1, <1>2, <1>4, <1>6

\* It is of those that the theorems of PCPCpu are about.
LEMMA ProgramasVistos ==
  ASSUME TextosEnRegla
  PROVE  V!ProgramasEnRegla
<1>1. QuienesSeVan = {}
  BY DEF TextosEnRegla
<1>2. ASSUME NEW p \in Programas
      PROVE  /\ CodigoVisto[p] \in Seq([op : Operaciones, nombre : V!Nombres, fallas : Nat])
             /\ CodigoVisto[p] # <<>>
             /\ V!Ultima(CodigoVisto[p][Len(CodigoVisto[p])])
             /\ \A i \in DOMAIN CodigoVisto[p] :
                  CodigoVisto[p][i].op = "falla" => CodigoVisto[p][i].fallas = 1
  <2>1. Termina(p) \in 1..Termina(p) /\ Termina(p) \in QueTerminan(p)
    BY CodigoVistoEs, TerminaEs
  <2>2. Ultima(LineaVista(Codigo[p][Termina(p)]))
    BY <2>1 DEF QueTerminan
  <2>3. V!Ultima(CodigoVisto[p][Len(CodigoVisto[p])])
    BY <2>1, <2>2, CodigoVistoEs DEF Ultima, V!Ultima
  <2>4. ASSUME NEW i \in DOMAIN CodigoVisto[p], CodigoVisto[p][i].op = "falla"
        PROVE  CodigoVisto[p][i].fallas = 1
    <3>1. i \in 1..Termina(p) /\ i \in 1..Len(Codigo[p]) /\ CodigoVisto[p][i] = LineaVista(Codigo[p][i])
      BY CodigoVistoEs, TerminaEs
    <3>2. i \in DOMAIN Codigo[p]
      BY <3>1, TerminaEs
    <3>3. Codigo[p][i].op = "falla" /\ CodigoVisto[p][i] = Codigo[p][i]
      BY <2>4, <3>1 DEF LineaVista, Linea
    <3> QED
      BY <3>2, <3>3 DEF TextosEnRegla
  <2>5. CodigoVisto[p] # <<>>
    BY CodigoVistoEs
  <2> QED
    BY <2>3, <2>4, <2>5, CodigoVistoEs
<1> QED
  BY <1>1, <1>2 DEF V!ProgramasEnRegla, V!Programas, Programas, V!Operaciones, Operaciones

\* and so is the assumption on them.
LEMMA ParametrosVistos == TextosEnRegla => V!ParametrosCpu
<1> SUFFICES ASSUME TextosEnRegla PROVE V!ParametrosCpu
  OBVIOUS
<1>1. ASSUME NEW p \in Programas, NEW i \in DOMAIN CodigoVisto[p]
      PROVE  CodigoVisto[p][i].op \in Operaciones
  <2>1. /\ i \in 1..Termina(p) /\ CodigoVisto[p][i] = LineaVista(Codigo[p][i])
        /\ Codigo[p][i] \in [op : Operaciones, nombre : Nombres, fallas : Nat]
    BY CodigoVistoEs, TerminaEs
  <2> QED
    BY <2>1 DEF LineaVista, Linea, Operaciones
<1> QED
  BY <1>1, ParametrosCpu DEF V!ParametrosCpu, V!Programas, Programas, V!Operaciones, Operaciones
-----------------------------------------------------------------------------
(* What is seen of threads, channels and CPUs. *)

DosPasos == {"obtener", "asignar"}
HiloEntero(h) ==
  /\ h = [paso |-> h.paso, prog |-> h.prog, msg |-> h.msg, leido |-> h.leido,
          otro |-> h.otro]
  /\ h.paso = "obtener" <=> h.msg.op = "obtenerValorVarCompartida"
  /\ h.paso = "asignar" <=> h.msg.op = "asignarValorVarCompartida"
CpuEntera(x) ==
  x = [paso |-> x.paso, pid |-> x.pid, pc |-> x.pc, i |-> x.i,
       estadoRafaga |-> x.estadoRafaga, fallas |-> x.fallas, manejador |-> x.manejador]
EsCanal(s) == \E S : s \in Seq(S)

FormaHilos == hilo = [c \in CPUs |-> hilo[c]] /\ \A c \in CPUs : HiloEntero(hilo[c])
FormaCpus == cpu = [c \in CPUs |-> cpu[c]] /\ \A c \in CPUs : CpuEntera(cpu[c])


\* What is seen of a thread that is not at a request for a variable is what it is.
LEMMA HiloVistoEs ==
  ASSUME NEW h, HiloEntero(h), h.paso \notin DosPasos
  PROVE  /\ HiloVisto(h).paso = h.paso /\ HiloVisto(h).prog = h.prog
         /\ HiloVisto(h).leido = h.leido /\ HiloVisto(h).otro = h.otro
         /\ HiloVisto(h).msg = MensajeVisto(h.msg)
         /\ HiloVisto(h).msg.nombre = h.msg.nombre
         /\ HiloVisto(h).msg.pid = h.msg.pid /\ HiloVisto(h).msg.pc = h.msg.pc
         /\ h.msg.op # "valorCompartida" => HiloVisto(h).msg.op = h.msg.op
BY DEF HiloVisto, HiloEntero, DosPasos, MensajeVisto, DeVariable, Mensaje

\* Thread c is at step p now, the others where they were.
Queda(c, p) ==
  FormaHilos' /\ hilo'[c].paso = p /\ \A x \in CPUs \ {c} : hilo'[x] = hilo[x]

\* A thread that goes on at r.
LEMMA HiloCambia ==
  ASSUME FormaHilos, NEW c \in CPUs, NEW r, HiloEntero(r), hilo' = [hilo EXCEPT ![c] = r]
  PROVE  /\ Queda(c, r.paso) /\ hilo'[c] = r
         /\ HilosVistos' = [HilosVistos EXCEPT ![c] = HiloVisto(r)]
<1>1. hilo = [d \in CPUs |-> hilo[d]] /\ \A d \in CPUs : HiloEntero(hilo[d])
  BY DEF FormaHilos
<1>2. /\ hilo' = [d \in CPUs |-> hilo'[d]] /\ hilo'[c] = r
      /\ \A d \in CPUs \ {c} : hilo'[d] = hilo[d]
  BY <1>1
<1>3. FormaHilos'
  BY <1>1, <1>2 DEF FormaHilos, HiloEntero
<1>4. PICK f : f = hilo'
  OBVIOUS
<1>5. HilosVistos' = [d \in CPUs |-> HiloVisto(f[d])]
  BY <1>4 DEF HilosVistos, HiloVisto, MensajeVisto
<1>6. HilosVistos' = [HilosVistos EXCEPT ![c] = HiloVisto(r)]
  BY <1>2, <1>4, <1>5 DEF HilosVistos
<1> QED
  BY <1>2, <1>3, <1>6 DEF Queda

\* A record of a thread with its step changed, and with one more field.
LEMMA OtroPaso ==
  ASSUME NEW h, h = [paso |-> h.paso, prog |-> h.prog, msg |-> h.msg, leido |-> h.leido,
                     otro |-> h.otro],
         NEW p
  PROVE  [h EXCEPT !.paso = p] = [paso |-> p, prog |-> h.prog, msg |-> h.msg,
                                  leido |-> h.leido, otro |-> h.otro]
<1>1. h \in [paso : {h.paso}, prog : {h.prog}, msg : {h.msg}, leido : {h.leido},
             otro : {h.otro}]
  OBVIOUS
<1> QED
  BY <1>1

\* The same of the value read.
LEMMA OtroLeido ==
  ASSUME NEW h, h = [paso |-> h.paso, prog |-> h.prog, msg |-> h.msg, leido |-> h.leido,
                     otro |-> h.otro],
         NEW l
  PROVE  [h EXCEPT !.leido = l] = [paso |-> h.paso, prog |-> h.prog, msg |-> h.msg,
                                   leido |-> l, otro |-> h.otro]
<1>1. h \in [paso : {h.paso}, prog : {h.prog}, msg : {h.msg}, leido : {h.leido},
             otro : {h.otro}]
  OBVIOUS
<1> QED
  BY <1>1

\* The same of the program taken out of a list.
LEMMA OtroOtro ==
  ASSUME NEW h, h = [paso |-> h.paso, prog |-> h.prog, msg |-> h.msg, leido |-> h.leido,
                     otro |-> h.otro],
         NEW o
  PROVE  [h EXCEPT !.otro = o] = [paso |-> h.paso, prog |-> h.prog, msg |-> h.msg,
                                  leido |-> h.leido, otro |-> o]
<1>1. h \in [paso : {h.paso}, prog : {h.prog}, msg : {h.msg}, leido : {h.leido},
             otro : {h.otro}]
  OBVIOUS
<1> QED
  BY <1>1

\* The same of the message.
LEMMA OtroMsg ==
  ASSUME NEW h, h = [paso |-> h.paso, prog |-> h.prog, msg |-> h.msg, leido |-> h.leido,
                     otro |-> h.otro],
         NEW m
  PROVE  [h EXCEPT !.msg = m] = [paso |-> h.paso, prog |-> h.prog, msg |-> m,
                                 leido |-> h.leido, otro |-> h.otro]
<1>1. h \in [paso : {h.paso}, prog : {h.prog}, msg : {h.msg}, leido : {h.leido},
             otro : {h.otro}]
  OBVIOUS
<1> QED
  BY <1>1

\* The same in the function of all the threads.
EnFuncion(H) == H = [d \in CPUs |-> H[d]]
Campos(h) == h = [paso |-> h.paso, prog |-> h.prog, msg |-> h.msg, leido |-> h.leido,
                  otro |-> h.otro]
Rec(p, b, m, l, o) == [paso |-> p, prog |-> b, msg |-> m, leido |-> l, otro |-> o]
ConHilo(H, c, h) == [H EXCEPT ![c] = h]
ConPaso(H, c, p) == [H EXCEPT ![c].paso = p]
ConLeido(H, c, l, p) == [H EXCEPT ![c].leido = l, ![c].paso = p]
ConOtro(H, c, o, p) == [H EXCEPT ![c].otro = o, ![c].paso = p]
ConMsg(H, c, m, p) == [H EXCEPT ![c].msg = m, ![c].paso = p]

\* Of the step.
LEMMA PasoDe ==
  ASSUME NEW H, NEW c \in CPUs, EnFuncion(H), Campos(H[c]), NEW p
  PROVE  ConPaso(H, c, p) =
           ConHilo(H, c, Rec(p, H[c].prog, H[c].msg, H[c].leido, H[c].otro))
<1>1. PICK h : h = H[c]
  OBVIOUS
<1>2. h = [paso |-> h.paso, prog |-> h.prog, msg |-> h.msg, leido |-> h.leido,
           otro |-> h.otro]
  BY <1>1 DEF Campos
<1>3. [H EXCEPT ![c].paso = p] = [H EXCEPT ![c] = [h EXCEPT !.paso = p]]
  BY <1>1
<1>4. [h EXCEPT !.paso = p] = [paso |-> p, prog |-> h.prog, msg |-> h.msg,
                               leido |-> h.leido, otro |-> h.otro]
  BY <1>2, OtroPaso
<1> QED
  BY <1>1, <1>3, <1>4 DEF ConPaso, ConHilo, Rec

\* Of the value read and the step.
LEMMA LeidoDe ==
  ASSUME NEW H, NEW c \in CPUs, EnFuncion(H), Campos(H[c]), NEW p, NEW l
  PROVE  ConLeido(H, c, l, p) = ConHilo(H, c, Rec(p, H[c].prog, H[c].msg, l, H[c].otro))
<1>1. PICK h : h = H[c]
  OBVIOUS
<1>2. h = [paso |-> h.paso, prog |-> h.prog, msg |-> h.msg, leido |-> h.leido,
           otro |-> h.otro]
  BY <1>1 DEF Campos
<1>3. PICK x : x = [h EXCEPT !.leido = l]
  OBVIOUS
<1>4. x = Rec(h.paso, h.prog, h.msg, l, h.otro)
  BY <1>2, <1>3, OtroLeido DEF Rec
<1>5. PICK X : X = [H EXCEPT ![c] = x]
  OBVIOUS
<1>6. [H EXCEPT ![c].leido = l, ![c].paso = p] = [X EXCEPT ![c].paso = p]
  BY <1>1, <1>3, <1>5
<1>7. EnFuncion(X) /\ X[c] = x
  BY <1>5 DEF EnFuncion
<1>8. Campos(X[c])
  BY <1>4, <1>7 DEF Campos, Rec
<1>9. ConPaso(X, c, p) = ConHilo(X, c, Rec(p, X[c].prog, X[c].msg, X[c].leido, X[c].otro))
  BY <1>7, <1>8, PasoDe
<1>10. Rec(p, X[c].prog, X[c].msg, X[c].leido, X[c].otro) = Rec(p, H[c].prog, H[c].msg, l, H[c].otro)
  BY <1>1, <1>4, <1>7 DEF Rec
<1>11. PICK y : y = Rec(p, H[c].prog, H[c].msg, l, H[c].otro)
  OBVIOUS
<1>12. [X EXCEPT ![c] = y] = [H EXCEPT ![c] = y]
  BY <1>5
<1>13. ConHilo(X, c, y) = ConHilo(H, c, y)
  BY <1>12 DEF ConHilo
<1> QED
  BY <1>6, <1>9, <1>10, <1>11, <1>13 DEF ConPaso, ConLeido

\* Of the program taken out of a list and the step.
LEMMA OtroDe ==
  ASSUME NEW H, NEW c \in CPUs, EnFuncion(H), Campos(H[c]), NEW p, NEW o
  PROVE  ConOtro(H, c, o, p) = ConHilo(H, c, Rec(p, H[c].prog, H[c].msg, H[c].leido, o))
<1>1. PICK h : h = H[c]
  OBVIOUS
<1>2. h = [paso |-> h.paso, prog |-> h.prog, msg |-> h.msg, leido |-> h.leido,
           otro |-> h.otro]
  BY <1>1 DEF Campos
<1>3. PICK x : x = [h EXCEPT !.otro = o]
  OBVIOUS
<1>4. x = Rec(h.paso, h.prog, h.msg, h.leido, o)
  BY <1>2, <1>3, OtroOtro DEF Rec
<1>5. PICK X : X = [H EXCEPT ![c] = x]
  OBVIOUS
<1>6. [H EXCEPT ![c].otro = o, ![c].paso = p] = [X EXCEPT ![c].paso = p]
  BY <1>1, <1>3, <1>5
<1>7. EnFuncion(X) /\ X[c] = x
  BY <1>5 DEF EnFuncion
<1>8. Campos(X[c])
  BY <1>4, <1>7 DEF Campos, Rec
<1>9. ConPaso(X, c, p) = ConHilo(X, c, Rec(p, X[c].prog, X[c].msg, X[c].leido, X[c].otro))
  BY <1>7, <1>8, PasoDe
<1>10. Rec(p, X[c].prog, X[c].msg, X[c].leido, X[c].otro) = Rec(p, H[c].prog, H[c].msg, H[c].leido, o)
  BY <1>1, <1>4, <1>7 DEF Rec
<1>11. PICK y : y = Rec(p, H[c].prog, H[c].msg, H[c].leido, o)
  OBVIOUS
<1>12. [X EXCEPT ![c] = y] = [H EXCEPT ![c] = y]
  BY <1>5
<1>13. ConHilo(X, c, y) = ConHilo(H, c, y)
  BY <1>12 DEF ConHilo
<1> QED
  BY <1>6, <1>9, <1>10, <1>11, <1>13 DEF ConPaso, ConOtro

\* Of the message and the step.
LEMMA MsgDe ==
  ASSUME NEW H, NEW c \in CPUs, EnFuncion(H), Campos(H[c]), NEW p, NEW m
  PROVE  ConMsg(H, c, m, p) = ConHilo(H, c, Rec(p, H[c].prog, m, H[c].leido, H[c].otro))
<1>1. PICK h : h = H[c]
  OBVIOUS
<1>2. h = [paso |-> h.paso, prog |-> h.prog, msg |-> h.msg, leido |-> h.leido,
           otro |-> h.otro]
  BY <1>1 DEF Campos
<1>3. PICK x : x = [h EXCEPT !.msg = m]
  OBVIOUS
<1>4. x = Rec(h.paso, h.prog, m, h.leido, h.otro)
  BY <1>2, <1>3, OtroMsg DEF Rec
<1>5. PICK X : X = [H EXCEPT ![c] = x]
  OBVIOUS
<1>6. [H EXCEPT ![c].msg = m, ![c].paso = p] = [X EXCEPT ![c].paso = p]
  BY <1>1, <1>3, <1>5
<1>7. EnFuncion(X) /\ X[c] = x
  BY <1>5 DEF EnFuncion
<1>8. Campos(X[c])
  BY <1>4, <1>7 DEF Campos, Rec
<1>9. ConPaso(X, c, p) = ConHilo(X, c, Rec(p, X[c].prog, X[c].msg, X[c].leido, X[c].otro))
  BY <1>7, <1>8, PasoDe
<1>10. Rec(p, X[c].prog, X[c].msg, X[c].leido, X[c].otro) = Rec(p, H[c].prog, m, H[c].leido, H[c].otro)
  BY <1>1, <1>4, <1>7 DEF Rec
<1>11. PICK y : y = Rec(p, H[c].prog, m, H[c].leido, H[c].otro)
  OBVIOUS
<1>12. [X EXCEPT ![c] = y] = [H EXCEPT ![c] = y]
  BY <1>5
<1>13. ConHilo(X, c, y) = ConHilo(H, c, y)
  BY <1>12 DEF ConHilo
<1> QED
  BY <1>6, <1>9, <1>10, <1>11, <1>13 DEF ConPaso, ConMsg

\* Going on, with a value read and a program taken out of a list or not.
LEMMA HiloPasa ==
  ASSUME FormaHilos, NEW c \in CPUs, hilo[c].paso \notin DosPasos,
         NEW p, p \notin DosPasos, NEW l, NEW o,
         hilo' = ConHilo(hilo, c, Rec(p, hilo[c].prog, hilo[c].msg, l, o))
  PROVE  /\ Queda(c, p)
         /\ HilosVistos' =
              ConHilo(HilosVistos, c, Rec(p, HilosVistos[c].prog, HilosVistos[c].msg, l, o))
<1>1. HiloEntero(hilo[c]) /\ HilosVistos[c] = HiloVisto(hilo[c])
  BY DEF FormaHilos, HilosVistos
<1>2. PICK r : r = Rec(p, hilo[c].prog, hilo[c].msg, l, o)
  OBVIOUS
<1>3. HiloEntero(r)
  BY <1>1, <1>2 DEF HiloEntero, DosPasos, Rec
<1>4. HiloVisto(r) = Rec(p, HilosVistos[c].prog, HilosVistos[c].msg, l, o)
  BY <1>1, <1>2 DEF HiloVisto, DosPasos, Rec
<1>5. hilo' = [hilo EXCEPT ![c] = r]
  BY <1>2 DEF ConHilo
<1>6. Queda(c, r.paso) /\ HilosVistos' = [HilosVistos EXCEPT ![c] = HiloVisto(r)]
  BY <1>3, <1>5, HiloCambia
<1>7. r.paso = p
  BY <1>2 DEF Rec
<1> QED
  BY <1>4, <1>6, <1>7 DEF ConHilo

\* What is seen of the threads is whole, and fits what they are.
LEMMA VistosEnteros ==
  ASSUME FormaHilos, NEW c \in CPUs
  PROVE  /\ EnFuncion(HilosVistos) /\ Campos(HilosVistos[c])
         /\ EnFuncion(hilo) /\ Campos(hilo[c])
         /\ HilosVistos[c] = HiloVisto(hilo[c])
         /\ HilosVistos[c].prog = hilo[c].prog /\ HilosVistos[c].leido = hilo[c].leido
         /\ HilosVistos[c].otro = hilo[c].otro
         /\ HilosVistos[c].msg = MensajeVisto(hilo[c].msg)
<1>1. HilosVistos[c] = HiloVisto(hilo[c]) /\ HilosVistos = [d \in CPUs |-> HilosVistos[d]]
  BY DEF HilosVistos
<1>2. hilo = [d \in CPUs |-> hilo[d]] /\ HiloEntero(hilo[c])
  BY DEF FormaHilos
<1> QED
  BY <1>1, <1>2 DEF HiloVisto, HiloEntero, EnFuncion, Campos

\* Going on at another step.
LEMMA SeguirVisto ==
  ASSUME FormaHilos, NEW c \in CPUs, hilo[c].paso \notin DosPasos,
         NEW p, p \notin DosPasos, hilo' = ConPaso(hilo, c, p)
  PROVE  HilosVistos' = ConPaso(HilosVistos, c, p) /\ Queda(c, p)
<1>1. ConPaso(hilo, c, p) = ConHilo(hilo, c, Rec(p, hilo[c].prog, hilo[c].msg, hilo[c].leido, hilo[c].otro))
  BY VistosEnteros, PasoDe
<1>2. /\ Queda(c, p)
      /\ HilosVistos' = ConHilo(HilosVistos, c,
           Rec(p, HilosVistos[c].prog, HilosVistos[c].msg, hilo[c].leido, hilo[c].otro))
  BY <1>1, HiloPasa
<1>3. ConPaso(HilosVistos, c, p) =
        ConHilo(HilosVistos, c, Rec(p, HilosVistos[c].prog, HilosVistos[c].msg, HilosVistos[c].leido, HilosVistos[c].otro))
  BY VistosEnteros, PasoDe
<1> QED
  BY <1>2, <1>3, VistosEnteros

\* Going on with a value read.
LEMMA LeerVisto ==
  ASSUME FormaHilos, NEW c \in CPUs, hilo[c].paso \notin DosPasos,
         NEW p, p \notin DosPasos, NEW l, hilo' = ConLeido(hilo, c, l, p)
  PROVE  HilosVistos' = ConLeido(HilosVistos, c, l, p) /\ Queda(c, p)
<1>1. ConLeido(hilo, c, l, p) = ConHilo(hilo, c, Rec(p, hilo[c].prog, hilo[c].msg, l, hilo[c].otro))
  BY VistosEnteros, LeidoDe
<1>2. /\ Queda(c, p)
      /\ HilosVistos' = ConHilo(HilosVistos, c,
           Rec(p, HilosVistos[c].prog, HilosVistos[c].msg, l, hilo[c].otro))
  BY <1>1, HiloPasa
<1>3. ConLeido(HilosVistos, c, l, p) =
        ConHilo(HilosVistos, c, Rec(p, HilosVistos[c].prog, HilosVistos[c].msg, l, HilosVistos[c].otro))
  BY VistosEnteros, LeidoDe
<1> QED
  BY <1>2, <1>3, VistosEnteros

\* Going on with a program taken out of a list.
LEMMA SacarVisto ==
  ASSUME FormaHilos, NEW c \in CPUs, hilo[c].paso \notin DosPasos,
         NEW p, p \notin DosPasos, NEW o, hilo' = ConOtro(hilo, c, o, p)
  PROVE  HilosVistos' = ConOtro(HilosVistos, c, o, p) /\ Queda(c, p)
<1>1. ConOtro(hilo, c, o, p) = ConHilo(hilo, c, Rec(p, hilo[c].prog, hilo[c].msg, hilo[c].leido, o))
  BY VistosEnteros, OtroDe
<1>2. /\ Queda(c, p)
      /\ HilosVistos' = ConHilo(HilosVistos, c,
           Rec(p, HilosVistos[c].prog, HilosVistos[c].msg, hilo[c].leido, o))
  BY <1>1, HiloPasa
<1>3. ConOtro(HilosVistos, c, o, p) =
        ConHilo(HilosVistos, c, Rec(p, HilosVistos[c].prog, HilosVistos[c].msg, HilosVistos[c].leido, o))
  BY VistosEnteros, OtroDe
<1> QED
  BY <1>2, <1>3, VistosEnteros

\* Going on with the locals as new.
LEMMA VolverVisto ==
  ASSUME FormaHilos, NEW c \in CPUs, NEW p, p \notin DosPasos, Volver(c, p)
  PROVE  V!Volver(c, p) /\ Queda(c, p)
<1>1. HiloEntero(hilo[c]) /\ hilo = [d \in CPUs |-> hilo[d]]
  BY DEF FormaHilos
<1> DEFINE r == Hilo(p, hilo[c].prog)
<1>2. hilo' = [hilo EXCEPT ![c] = r]
  BY <1>1 DEF Volver
<1>3. HiloEntero(r)
  BY DEF HiloEntero, Hilo, Respuesta, Mensaje, DosPasos
<1>4. HiloVisto(r) = V!Hilo(p, HilosVistos[c].prog)
  BY DEF HiloVisto, Hilo, Respuesta, Mensaje, DosPasos, MensajeVisto, DeVariable, HilosVistos,
         V!Hilo, V!Respuesta, V!Mensaje, V!SinNombre, V!Nadie, SinNombre, Nadie
<1> HIDE DEF r
<1>5. Queda(c, r.paso) /\ HilosVistos' = [HilosVistos EXCEPT ![c] = HiloVisto(r)]
  BY <1>2, <1>3, HiloCambia
<1>6. r.paso = p
  BY DEF r, Hilo
<1> QED
  BY <1>4, <1>5, <1>6 DEF V!Volver

-----------------------------------------------------------------------------
(* Channels. *)

\* What is seen of a channel has the same length, in the same order.
LEMMA CanalVistoEs ==
  ASSUME NEW S, NEW s \in Seq(S)
  PROVE  \E T : /\ CanalVisto(s) \in Seq(T)
                /\ \A m \in S : MensajeVisto(m) \in T
                /\ Len(CanalVisto(s)) = Len(s) /\ Len(s) \in Nat
                /\ \A i \in 1..Len(s) : CanalVisto(s)[i] = MensajeVisto(s[i]) /\ s[i] \in S
<1>1. Len(s) \in Nat /\ \A i \in 1..Len(s) : s[i] \in S
  BY LenProperties, ElementOfSeq
<1>2. PICK T : T = {MensajeVisto(m) : m \in S}
  OBVIOUS
<1>3. CanalVisto(s) \in [1..Len(s) -> T]
  BY <1>1, <1>2 DEF CanalVisto
<1>4. CanalVisto(s) \in Seq(T) /\ Len(CanalVisto(s)) = Len(s)
  BY <1>1, <1>3, SeqDef
<1>5. \A i \in 1..Len(s) : CanalVisto(s)[i] = MensajeVisto(s[i])
  BY DEF CanalVisto
<1>6. \A m \in S : MensajeVisto(m) \in T
  BY <1>2
<1> QED
  BY <1>1, <1>4, <1>5, <1>6

\* Of a channel with one more message.
LEMMA VistoConUno ==
  ASSUME NEW s, EsCanal(s), NEW m
  PROVE  EsCanal(Append(s, m)) /\ CanalVisto(Append(s, m)) = Append(CanalVisto(s), MensajeVisto(m))
<1>1. PICK S0 : s \in Seq(S0)
  BY DEF EsCanal
<1>2. PICK S : S = S0 \cup {m}
  OBVIOUS
<1>3. s \in Seq(S) /\ m \in S
  <2>1. S0 \subseteq S /\ m \in S
    BY <1>2
  <2> QED
    BY <1>1, <2>1, SeqMonotonic
<1>4. PICK T : /\ CanalVisto(s) \in Seq(T) /\ MensajeVisto(m) \in T
               /\ Len(CanalVisto(s)) = Len(s) /\ Len(s) \in Nat
               /\ \A i \in 1..Len(s) : CanalVisto(s)[i] = MensajeVisto(s[i])
  BY <1>3, CanalVistoEs
<1>5. PICK t : t = Append(s, m)
  OBVIOUS
<1>6. /\ t \in Seq(S) /\ Len(t) = Len(s) + 1
      /\ \A i \in 1..Len(s) : t[i] = s[i]
      /\ t[Len(s) + 1] = m
  BY <1>3, <1>5, AppendProperties
<1>7. PICK U : /\ CanalVisto(t) \in Seq(U)
               /\ Len(CanalVisto(t)) = Len(t)
               /\ \A i \in 1..Len(t) : CanalVisto(t)[i] = MensajeVisto(t[i])
  BY <1>6, CanalVistoEs
<1>8. PICK r : r = Append(CanalVisto(s), MensajeVisto(m))
  OBVIOUS
<1>9. /\ r \in Seq(T) /\ Len(r) = Len(s) + 1
      /\ \A i \in 1..Len(s) : r[i] = MensajeVisto(s[i])
      /\ r[Len(s) + 1] = MensajeVisto(m)
  BY <1>4, <1>8, AppendProperties
<1>10. \A i \in 1..Len(r) : r[i] = CanalVisto(t)[i]
  <2> SUFFICES ASSUME NEW i \in 1..Len(r) PROVE r[i] = CanalVisto(t)[i]
    OBVIOUS
  <2>1. i \in 1..Len(s) \/ i = Len(s) + 1
    BY <1>4, <1>9
  <2> QED
    BY <2>1, <1>4, <1>6, <1>7, <1>9
<1>11. r = CanalVisto(t)
  BY <1>6, <1>7, <1>9, <1>10, SeqEqual
<1> QED
  BY <1>5, <1>6, <1>8, <1>11 DEF EsCanal

\* Of one that a recv has read from.
LEMMA RestosVistos ==
  ASSUME NEW s, EsCanal(s), s # <<>>
  PROVE  /\ CanalVisto(s) # <<>> /\ Head(CanalVisto(s)) = MensajeVisto(Head(s))
         /\ Len(s) \in Nat \ {0} /\ Head(s) = s[1]
         /\ \A r \in Restos(s) :
              /\ EsCanal(r) /\ CanalVisto(r) \in Restos(CanalVisto(s))
              /\ \A i \in 1..Len(r) : \E j \in 1..Len(s) : r[i] = s[j]
<1>1. PICK S : s \in Seq(S)
  BY DEF EsCanal
<1>2. PICK T : /\ CanalVisto(s) \in Seq(T)
               /\ Len(CanalVisto(s)) = Len(s) /\ Len(s) \in Nat
               /\ \A i \in 1..Len(s) : CanalVisto(s)[i] = MensajeVisto(s[i]) /\ s[i] \in S
  BY <1>1, CanalVistoEs
<1>3. Len(s) \in Nat \ {0} /\ Head(s) = s[1]
  BY <1>1, EmptySeq, HeadTailProperties, LenProperties
<1>4. CanalVisto(s) # <<>> /\ Head(CanalVisto(s)) = CanalVisto(s)[1]
  BY <1>2, <1>3, EmptySeq, HeadTailProperties
<1>5. CanalVisto(s)[1] = MensajeVisto(s[1])
  BY <1>2, <1>3
<1>6. ASSUME NEW r \in Restos(s)
      PROVE  /\ EsCanal(r) /\ CanalVisto(r) \in Restos(CanalVisto(s))
             /\ \A i \in 1..Len(r) : \E j \in 1..Len(s) : r[i] = s[j]
  <2>1. PICK n \in 1..MaxFusion : n <= Len(s) /\ r = SubSeq(s, n + 1, Len(s))
    BY <1>6 DEF Restos
  <2>2. n \in Nat /\ n > 0
    BY <2>1, ParametrosConexion
  <2>3. \A i \in (n + 1)..Len(s) : s[i] \in S
    BY <1>2, <2>2
  <2>4. r \in Seq(S) /\ Len(r) = Len(s) - n /\ \A i \in 1..(Len(s) - n) : r[i] = s[n + i]
    BY <1>1, <1>2, <2>1, <2>2, <2>3, SubSeqProperties
  <2>5. PICK t : t = SubSeq(CanalVisto(s), n + 1, Len(s))
    OBVIOUS
  <2>6. \A i \in (n + 1)..Len(s) : CanalVisto(s)[i] \in T
    BY <1>2, <2>2, ElementOfSeq
  <2>7. t \in Seq(T) /\ Len(t) = Len(s) - n
        /\ \A i \in 1..(Len(s) - n) : t[i] = CanalVisto(s)[n + i]
    BY <1>2, <2>1, <2>2, <2>5, <2>6, SubSeqProperties
  <2>8. PICK U : /\ CanalVisto(r) \in Seq(U)
                 /\ Len(CanalVisto(r)) = Len(r)
                 /\ \A i \in 1..Len(r) : CanalVisto(r)[i] = MensajeVisto(r[i])
    BY <2>4, CanalVistoEs
  <2>9. \A i \in 1..(Len(s) - n) : n + i \in 1..Len(s)
    BY <1>2, <2>1, <2>2
  <2>10. \A i \in 1..Len(t) : t[i] = CanalVisto(r)[i]
    BY <1>2, <2>4, <2>7, <2>8, <2>9
  <2>11. t = CanalVisto(r)
    BY <2>4, <2>7, <2>8, <2>10, SeqEqual
  <2>12. t \in Restos(CanalVisto(s))
    BY <1>2, <2>1, <2>5 DEF Restos
  <2> QED
    BY <2>4, <2>9, <2>11, <2>12 DEF EsCanal
<1> QED
  BY <1>3, <1>4, <1>5, <1>6

\* The messages of a channel: with one more, and after a recv.
LEMMA EnColaCambia ==
  ASSUME NEW s, EsCanal(s)
  PROVE  /\ \A m : EnCola(Append(s, m)) = EnCola(s) \cup {m}
         /\ s # <<>> => Head(s) \in EnCola(s)
         /\ s = <<>> => EnCola(s) = {}
         /\ s # <<>> => \A r \in Restos(s) : EnCola(r) \subseteq EnCola(s)
<1>1. PICK S0 : s \in Seq(S0)
  BY DEF EsCanal
<1>2. Len(s) \in Nat
  BY <1>1, LenProperties
<1>3. ASSUME NEW m PROVE EnCola(Append(s, m)) = EnCola(s) \cup {m}
  <2>1. PICK S : S = S0 \cup {m}
    OBVIOUS
  <2>2. s \in Seq(S) /\ m \in S
    <3>1. S0 \subseteq S /\ m \in S
      BY <2>1
    <3> QED
      BY <1>1, <3>1, SeqMonotonic
  <2>3. PICK t : t = Append(s, m)
    OBVIOUS
  <2>4. /\ Len(t) = Len(s) + 1
        /\ \A i \in 1..Len(s) : t[i] = s[i]
        /\ t[Len(s) + 1] = m
    BY <2>2, <2>3, AppendProperties
  <2>5. 1..Len(t) = 1..Len(s) \cup {Len(s) + 1}
    BY <1>2, <2>4
  <2>6. EnCola(t) = EnCola(s) \cup {m}
    BY <2>4, <2>5 DEF EnCola
  <2> QED
    BY <2>3, <2>6
<1>4. s # <<>> => Head(s) = s[1] /\ 1 \in 1..Len(s)
  BY <1>1, <1>2, EmptySeq, HeadTailProperties, LenProperties
<1>5. s = <<>> => EnCola(s) = {}
  BY DEF EnCola
<1>6. s # <<>> => \A r \in Restos(s) : EnCola(r) \subseteq EnCola(s)
  BY RestosVistos DEF EnCola
<1> QED
  BY <1>3, <1>4, <1>5, <1>6 DEF EnCola

\* All the channels of one direction.
EsCanales(F) == F = [c \in CPUs |-> F[c]] /\ \A c \in CPUs : EsCanal(F[c])
CanalesVistos(F) == [c \in CPUs |-> CanalVisto(F[c])]

ConMensaje(F, c, m) == [F EXCEPT ![c] = Append(F[c], m)]

\* One channel has one more message.
LEMMA CanalEnviado ==
  ASSUME NEW F, EsCanales(F), NEW c \in CPUs, NEW m, NEW G,
         G = ConMensaje(F, c, m)
  PROVE  /\ EsCanales(G) /\ G[c] = Append(F[c], m) /\ \A x \in CPUs \ {c} : G[x] = F[x]
         /\ CanalesVistos(G) =
              [CanalesVistos(F) EXCEPT ![c] = Append(CanalesVistos(F)[c], MensajeVisto(m))]
<1>1. F = [x \in CPUs |-> F[x]] /\ \A x \in CPUs : EsCanal(F[x])
  BY DEF EsCanales
<1>2. G = [x \in CPUs |-> G[x]] /\ G[c] = Append(F[c], m) /\ \A x \in CPUs \ {c} : G[x] = F[x]
  BY <1>1 DEF ConMensaje
<1>3. EsCanal(Append(F[c], m))
      /\ CanalVisto(Append(F[c], m)) = Append(CanalVisto(F[c]), MensajeVisto(m))
  BY <1>1, VistoConUno
<1>4. EsCanales(G)
  BY <1>1, <1>2, <1>3 DEF EsCanales
<1>5. CanalesVistos(G) =
        [CanalesVistos(F) EXCEPT ![c] = Append(CanalesVistos(F)[c], MensajeVisto(m))]
  BY <1>2, <1>3 DEF CanalesVistos
<1> QED
  BY <1>2, <1>4, <1>5

\* One channel has been read from.
LEMMA CanalLeido ==
  ASSUME NEW F, EsCanales(F), NEW c \in CPUs, F[c] # <<>>, NEW r \in Restos(F[c]),
         NEW G, G = ConHilo(F, c, r)
  PROVE  /\ EsCanales(G) /\ G[c] = r /\ \A x \in CPUs \ {c} : G[x] = F[x]
         /\ CanalesVistos(F)[c] # <<>>
         /\ Head(CanalesVistos(F)[c]) = MensajeVisto(Head(F[c]))
         /\ CanalesVistos(G) \in
              {[CanalesVistos(F) EXCEPT ![c] = q] : q \in Restos(CanalesVistos(F)[c])}
<1>1. F = [x \in CPUs |-> F[x]] /\ \A x \in CPUs : EsCanal(F[x])
  BY DEF EsCanales
<1>2. G = [x \in CPUs |-> G[x]] /\ G[c] = r /\ \A x \in CPUs \ {c} : G[x] = F[x]
  BY <1>1 DEF ConHilo
<1>3. /\ CanalVisto(F[c]) # <<>> /\ Head(CanalVisto(F[c])) = MensajeVisto(Head(F[c]))
      /\ EsCanal(r) /\ CanalVisto(r) \in Restos(CanalVisto(F[c]))
  BY <1>1, RestosVistos
<1>4. EsCanales(G)
  BY <1>1, <1>2, <1>3 DEF EsCanales
<1>5. CanalesVistos(F)[c] = CanalVisto(F[c])
  BY DEF CanalesVistos
<1>6. CanalesVistos(G) = [CanalesVistos(F) EXCEPT ![c] = CanalVisto(r)]
  BY <1>2 DEF CanalesVistos
<1> QED
  BY <1>2, <1>3, <1>4, <1>5, <1>6

\* What is seen of the two directions.
LEMMA VistosLosCanales ==
  /\ HaciaCpuVisto = CanalesVistos(haciaCpu) /\ HaciaCpuVisto' = CanalesVistos(haciaCpu')
  /\ HaciaKernelVisto = CanalesVistos(haciaKernel)
  /\ HaciaKernelVisto' = CanalesVistos(haciaKernel')
BY DEF HaciaCpuVisto, HaciaKernelVisto, CanalesVistos, CanalVisto, MensajeVisto

FormaCanales == EsCanales(haciaCpu) /\ EsCanales(haciaKernel)

\* The kernel answers.
LEMMA ResponderVisto ==
  ASSUME FormaCanales, NEW c \in CPUs, NEW m, Responder(c, m)
  PROVE  /\ V!Responder(c, MensajeVisto(m)) /\ EsCanales(haciaCpu')
         /\ \A x \in CPUs \ {c} : haciaCpu'[x] = haciaCpu[x]
         /\ EnCola(haciaCpu'[c]) \subseteq EnCola(haciaCpu[c]) \cup {m}
<1>1. PICK F, G : F = haciaCpu /\ G = haciaCpu'
  OBVIOUS
<1>2. CASE conectada[c]
  <2>1. G = ConMensaje(F, c, m) /\ EsCanales(F)
    BY <1>1, <1>2 DEF ConMensaje, Responder, EnviarACpu, FormaCanales
  <2>2. /\ EsCanales(G) /\ G[c] = Append(F[c], m) /\ \A x \in CPUs \ {c} : G[x] = F[x]
        /\ CanalesVistos(G) =
              [CanalesVistos(F) EXCEPT ![c] = Append(CanalesVistos(F)[c], MensajeVisto(m))]
    BY <2>1, CanalEnviado
  <2>3. EnCola(G[c]) = EnCola(F[c]) \cup {m}
    BY <2>1, <2>2, EnColaCambia DEF EsCanales
  <2>4. HaciaCpuVisto' =
          [HaciaCpuVisto EXCEPT ![c] = Append(HaciaCpuVisto[c], MensajeVisto(m))]
    BY <1>1, <2>2, VistosLosCanales
  <2> QED
    BY <1>1, <1>2, <2>2, <2>3, <2>4 DEF V!Responder, V!EnviarACpu
<1>3. CASE ~conectada[c]
  <2>1. haciaCpu' = haciaCpu
    BY <1>3 DEF Responder
  <2>2. HaciaCpuVisto' = HaciaCpuVisto
    BY <2>1, VistosLosCanales
  <2> QED
    BY <1>3, <2>1, <2>2 DEF V!Responder, FormaCanales
<1> QED
  BY <1>2, <1>3

\* A CPU sends.
LEMMA EnviarAKernelVisto ==
  ASSUME FormaCanales, NEW c \in CPUs, NEW m, EnviarAKernel(c, m)
  PROVE  /\ V!EnviarAKernel(c, MensajeVisto(m)) /\ EsCanales(haciaKernel')
         /\ \A x \in CPUs \ {c} : haciaKernel'[x] = haciaKernel[x]
         /\ EnCola(haciaKernel'[c]) = EnCola(haciaKernel[c]) \cup {m}
<1>1. PICK F, G : F = haciaKernel /\ G = haciaKernel'
  OBVIOUS
<1>2. G = ConMensaje(F, c, m) /\ EsCanales(F)
  BY <1>1 DEF ConMensaje, EnviarAKernel, FormaCanales
<1>3. /\ EsCanales(G) /\ G[c] = Append(F[c], m) /\ \A x \in CPUs \ {c} : G[x] = F[x]
      /\ CanalesVistos(G) =
           [CanalesVistos(F) EXCEPT ![c] = Append(CanalesVistos(F)[c], MensajeVisto(m))]
  BY <1>2, CanalEnviado
<1>4. EnCola(G[c]) = EnCola(F[c]) \cup {m}
  BY <1>2, <1>3, EnColaCambia DEF EsCanales
<1>5. HaciaKernelVisto' =
        [HaciaKernelVisto EXCEPT ![c] = Append(HaciaKernelVisto[c], MensajeVisto(m))]
  BY <1>1, <1>3, VistosLosCanales
<1> QED
  BY <1>1, <1>3, <1>4, <1>5 DEF V!EnviarAKernel

\* A CPU receives.
LEMMA RecibeCpuVisto ==
  ASSUME FormaCanales, NEW c \in CPUs, haciaCpu[c] # <<>>,
         haciaCpu' \in {[haciaCpu EXCEPT ![c] = r] : r \in Restos(haciaCpu[c])}
  PROVE  /\ HaciaCpuVisto[c] # <<>> /\ Head(HaciaCpuVisto[c]) = MensajeVisto(Head(haciaCpu[c]))
         /\ HaciaCpuVisto' \in
              {[HaciaCpuVisto EXCEPT ![c] = r] : r \in V!Restos(HaciaCpuVisto[c])}
         /\ EsCanales(haciaCpu')
         /\ \A x \in CPUs \ {c} : haciaCpu'[x] = haciaCpu[x]
         /\ EnCola(haciaCpu'[c]) \subseteq EnCola(haciaCpu[c])
         /\ Head(haciaCpu[c]) \in EnCola(haciaCpu[c])
<1>1. PICK F, G : F = haciaCpu /\ G = haciaCpu'
  OBVIOUS
<1>2. PICK r \in Restos(F[c]) : G = ConHilo(F, c, r)
  BY <1>1 DEF ConHilo
<1>3. EsCanales(F) /\ F[c] # <<>>
  BY <1>1 DEF FormaCanales
<1>4. /\ EsCanales(G) /\ G[c] = r /\ \A x \in CPUs \ {c} : G[x] = F[x]
      /\ CanalesVistos(F)[c] # <<>>
      /\ Head(CanalesVistos(F)[c]) = MensajeVisto(Head(F[c]))
      /\ CanalesVistos(G) \in
           {[CanalesVistos(F) EXCEPT ![c] = q] : q \in Restos(CanalesVistos(F)[c])}
  BY <1>2, <1>3, CanalLeido
<1>5. EnCola(r) \subseteq EnCola(F[c]) /\ Head(F[c]) \in EnCola(F[c])
  BY <1>2, <1>3, EnColaCambia DEF EsCanales
<1>6. \A s : V!Restos(s) = Restos(s)
  BY DEF Restos, V!Restos
<1> QED
  BY <1>1, <1>4, <1>5, <1>6, VistosLosCanales

\* The kernel receives.
LEMMA RecibeKernelVisto ==
  ASSUME FormaCanales, NEW c \in CPUs, haciaKernel[c] # <<>>,
         haciaKernel' \in {[haciaKernel EXCEPT ![c] = r] : r \in Restos(haciaKernel[c])}
  PROVE  /\ HaciaKernelVisto[c] # <<>>
         /\ Head(HaciaKernelVisto[c]) = MensajeVisto(Head(haciaKernel[c]))
         /\ HaciaKernelVisto' \in
              {[HaciaKernelVisto EXCEPT ![c] = r] : r \in V!Restos(HaciaKernelVisto[c])}
         /\ EsCanales(haciaKernel')
         /\ \A x \in CPUs \ {c} : haciaKernel'[x] = haciaKernel[x]
         /\ EnCola(haciaKernel'[c]) \subseteq EnCola(haciaKernel[c])
         /\ Head(haciaKernel[c]) \in EnCola(haciaKernel[c])
<1>1. PICK F, G : F = haciaKernel /\ G = haciaKernel'
  OBVIOUS
<1>2. PICK r \in Restos(F[c]) : G = ConHilo(F, c, r)
  BY <1>1 DEF ConHilo
<1>3. EsCanales(F) /\ F[c] # <<>>
  BY <1>1 DEF FormaCanales
<1>4. /\ EsCanales(G) /\ G[c] = r /\ \A x \in CPUs \ {c} : G[x] = F[x]
      /\ CanalesVistos(F)[c] # <<>>
      /\ Head(CanalesVistos(F)[c]) = MensajeVisto(Head(F[c]))
      /\ CanalesVistos(G) \in
           {[CanalesVistos(F) EXCEPT ![c] = q] : q \in Restos(CanalesVistos(F)[c])}
  BY <1>2, <1>3, CanalLeido
<1>5. EnCola(r) \subseteq EnCola(F[c]) /\ Head(F[c]) \in EnCola(F[c])
  BY <1>2, <1>3, EnColaCambia DEF EsCanales
<1>6. \A s : V!Restos(s) = Restos(s)
  BY DEF Restos, V!Restos
<1> QED
  BY <1>1, <1>4, <1>5, <1>6, VistosLosCanales

-----------------------------------------------------------------------------
(* Steps of a thread. *)

\* What is seen of a thread that is not at a request for a variable.
LEMMA HiloDeSiempre ==
  ASSUME FormaHilos, NEW c \in CPUs, hilo[c].paso \notin DosPasos
  PROVE  /\ HilosVistos[c].paso = hilo[c].paso /\ HilosVistos[c].prog = hilo[c].prog
         /\ HilosVistos[c].leido = hilo[c].leido /\ HilosVistos[c].otro = hilo[c].otro
         /\ HilosVistos[c].msg.nombre = hilo[c].msg.nombre
         /\ HilosVistos[c].msg.pid = hilo[c].msg.pid /\ HilosVistos[c].msg.pc = hilo[c].msg.pc
         /\ (HilosVistos[c].msg.op = "desconexion" <=> hilo[c].msg.op = "desconexion")
<1>1. HilosVistos[c] = HiloVisto(hilo[c]) /\ HiloEntero(hilo[c])
  BY VistosEnteros DEF FormaHilos
<1>2. HilosVistos[c].msg = MensajeVisto(hilo[c].msg) /\ hilo[c].msg.op \notin DeVariable
  BY <1>1, VistosEnteros DEF HiloEntero, DosPasos, DeVariable
<1>3. HilosVistos[c].paso = hilo[c].paso
  BY <1>1 DEF HiloVisto, DosPasos
<1>4. HilosVistos[c].msg.op = "desconexion" <=> hilo[c].msg.op = "desconexion"
  BY <1>2 DEF MensajeVisto, Mensaje
<1>5. PICK m, n : m = hilo[c].msg /\ n = HilosVistos[c].msg
  OBVIOUS
<1>6. n = Mensaje(IF m.op = "valorCompartida" THEN "continuar" ELSE m.op, m.nombre, m.pid, m.pc)
  BY <1>2, <1>5 DEF MensajeVisto
<1>7. n.nombre = m.nombre /\ n.pid = m.pid /\ n.pc = m.pc
  BY <1>6 DEF Mensaje
<1> QED
  BY <1>3, <1>4, <1>5, <1>7, VistosEnteros

\* The list of the programs in EXEC is searched in the same way.
LEMMA ExecVisto ==
  /\ \A p : V!EnExec(p) = EnExec(p) /\ (V!SacarSiEsta(p) <=> SacarSiEsta(p))
  /\ \A s, i : V!Sin(s, i) = Sin(s, i)
  /\ \A m : V!PcbDe(m) = PcbDe(m)
BY DEF EnExec, V!EnExec, SacarSiEsta, V!SacarSiEsta, Sin, V!Sin, PcbDe, V!PcbDe

\* The steps to which a thread comes by itself.
PasosSerenos ==
  {"esperar", "sacar", "cargar", "enviar", "recibir", "waitEscribir", "waitProbar", "waitSacar",
   "waitEncolar", "waitBloquear", "signalEscribir", "signalProbar", "signalSacar", "signalReady",
   "signalPost", "signalResponder", "ioEncolar", "ioSacar", "ioPost", "recargarReady",
   "recargarPost", "exitSacar", "exitAgregar", "terminado", "null"}

\* A thread waits for a program in READY,
LEMMA EsperarReadyVisto ==
  ASSUME FormaHilos, NEW c \in CPUs, EsperarReady(c)
  PROVE  V!EsperarReady(c) /\ \E p \in PasosSerenos : Queda(c, p)
<1>1. hilo[c].paso \notin DosPasos
  BY DEF EsperarReady, DosPasos
<1>2. PICK p : p = "sacar"
  OBVIOUS
<1>3. hilo' = ConPaso(hilo, c, p)
  BY <1>2 DEF EsperarReady, Seguir, ConPaso
<1>4. p \in PasosSerenos /\ p \notin DosPasos
  BY <1>2 DEF PasosSerenos, DosPasos
<1>5. HilosVistos' = ConPaso(HilosVistos, c, p) /\ Queda(c, p)
  BY <1>1, <1>3, <1>4, SeguirVisto
<1>6. V!Seguir(c, p)
  BY <1>5 DEF V!Seguir, ConPaso
<1>7. V!EsperarReady(c)
  BY <1>1, <1>2, <1>6, HiloDeSiempre DEF EsperarReady, V!EsperarReady, V!plp, plp, V!ready, ready, V!colas, colas
<1> QED
  BY <1>4, <1>5, <1>7

\* or puts it in EXEC,
LEMMA CargarExecVisto ==
  ASSUME FormaHilos, NEW c \in CPUs, CargarExec(c)
  PROVE  V!CargarExec(c) /\ \E p \in PasosSerenos : Queda(c, p)
<1>1. hilo[c].paso \notin DosPasos
  BY DEF CargarExec, DosPasos
<1>2. PICK p : p = "enviar"
  OBVIOUS
<1>3. hilo' = ConPaso(hilo, c, p)
  BY <1>2 DEF CargarExec, Seguir, ConPaso
<1>4. p \in PasosSerenos /\ p \notin DosPasos
  BY <1>2 DEF PasosSerenos, DosPasos
<1>5. HilosVistos' = ConPaso(HilosVistos, c, p) /\ Queda(c, p)
  BY <1>1, <1>3, <1>4, SeguirVisto
<1>6. V!Seguir(c, p)
  BY <1>5 DEF V!Seguir, ConPaso
<1>7. V!CargarExec(c)
  BY <1>1, <1>2, <1>6, HiloDeSiempre DEF CargarExec, V!CargarExec, V!plp, plp, V!ready, ready, V!colas, colas
<1> QED
  BY <1>4, <1>5, <1>7

\* takes one from a semaphore,
LEMMA WaitEscribirVisto ==
  ASSUME FormaHilos, NEW c \in CPUs, WaitEscribir(c)
  PROVE  V!WaitEscribir(c) /\ \E p \in PasosSerenos : Queda(c, p)
<1>1. hilo[c].paso \notin DosPasos
  BY DEF WaitEscribir, DosPasos
<1>2. PICK p : p = "waitProbar"
  OBVIOUS
<1>3. hilo' = ConPaso(hilo, c, p)
  BY <1>2 DEF WaitEscribir, Seguir, ConPaso
<1>4. p \in PasosSerenos /\ p \notin DosPasos
  BY <1>2 DEF PasosSerenos, DosPasos
<1>5. HilosVistos' = ConPaso(HilosVistos, c, p) /\ Queda(c, p)
  BY <1>1, <1>3, <1>4, SeguirVisto
<1>6. V!Seguir(c, p)
  BY <1>5 DEF V!Seguir, ConPaso
<1>7. V!WaitEscribir(c)
  BY <1>1, <1>2, <1>6, HiloDeSiempre DEF WaitEscribir, V!WaitEscribir, V!plp, plp, V!ready, ready, V!colas, colas
<1> QED
  BY <1>4, <1>5, <1>7

\* takes the program that waits out of EXEC,
LEMMA WaitSacarVisto ==
  ASSUME FormaHilos, NEW c \in CPUs, WaitSacar(c)
  PROVE  V!WaitSacar(c) /\ \E p \in PasosSerenos : Queda(c, p)
<1>1. hilo[c].paso \notin DosPasos
  BY DEF WaitSacar, DosPasos
<1>2. PICK p : p = "waitEncolar"
  OBVIOUS
<1>3. hilo' = ConPaso(hilo, c, p)
  BY <1>2 DEF WaitSacar, Seguir, ConPaso
<1>4. p \in PasosSerenos /\ p \notin DosPasos
  BY <1>2 DEF PasosSerenos, DosPasos
<1>5. HilosVistos' = ConPaso(HilosVistos, c, p) /\ Queda(c, p)
  BY <1>1, <1>3, <1>4, SeguirVisto
<1>6. V!Seguir(c, p)
  BY <1>5 DEF V!Seguir, ConPaso
<1>7. V!WaitSacar(c)
  BY <1>1, <1>2, <1>6, HiloDeSiempre, ExecVisto DEF WaitSacar, V!WaitSacar, V!plp, plp, V!ready, ready, V!colas, colas
<1> QED
  BY <1>4, <1>5, <1>7

\* puts it in the queue of the semaphore,
LEMMA WaitEncolarVisto ==
  ASSUME FormaHilos, NEW c \in CPUs, WaitEncolar(c)
  PROVE  V!WaitEncolar(c) /\ \E p \in PasosSerenos : Queda(c, p)
<1>1. hilo[c].paso \notin DosPasos
  BY DEF WaitEncolar, DosPasos
<1>2. PICK p : p = "waitBloquear"
  OBVIOUS
<1>3. hilo' = ConPaso(hilo, c, p)
  BY <1>2 DEF WaitEncolar, Seguir, ConPaso
<1>4. p \in PasosSerenos /\ p \notin DosPasos
  BY <1>2 DEF PasosSerenos, DosPasos
<1>5. HilosVistos' = ConPaso(HilosVistos, c, p) /\ Queda(c, p)
  BY <1>1, <1>3, <1>4, SeguirVisto
<1>6. V!Seguir(c, p)
  BY <1>5 DEF V!Seguir, ConPaso
<1>7. V!WaitEncolar(c)
  BY <1>1, <1>2, <1>6, HiloDeSiempre DEF WaitEncolar, V!WaitEncolar, V!plp, plp, V!ready, ready, V!colas, colas, Encolar, V!Encolar, PcbDe, V!PcbDe
<1> QED
  BY <1>4, <1>5, <1>7

\* adds one to a semaphore,
LEMMA SignalEscribirVisto ==
  ASSUME FormaHilos, NEW c \in CPUs, SignalEscribir(c)
  PROVE  V!SignalEscribir(c) /\ \E p \in PasosSerenos : Queda(c, p)
<1>1. hilo[c].paso \notin DosPasos
  BY DEF SignalEscribir, DosPasos
<1>2. PICK p : p = "signalProbar"
  OBVIOUS
<1>3. hilo' = ConPaso(hilo, c, p)
  BY <1>2 DEF SignalEscribir, Seguir, ConPaso
<1>4. p \in PasosSerenos /\ p \notin DosPasos
  BY <1>2 DEF PasosSerenos, DosPasos
<1>5. HilosVistos' = ConPaso(HilosVistos, c, p) /\ Queda(c, p)
  BY <1>1, <1>3, <1>4, SeguirVisto
<1>6. V!Seguir(c, p)
  BY <1>5 DEF V!Seguir, ConPaso
<1>7. V!SignalEscribir(c)
  BY <1>1, <1>2, <1>6, HiloDeSiempre DEF SignalEscribir, V!SignalEscribir, V!plp, plp, V!ready, ready, V!colas, colas
<1> QED
  BY <1>4, <1>5, <1>7

\* posts READY after a signal,
LEMMA SignalPostVisto ==
  ASSUME FormaHilos, NEW c \in CPUs, SignalPost(c)
  PROVE  V!SignalPost(c) /\ \E p \in PasosSerenos : Queda(c, p)
<1>1. hilo[c].paso \notin DosPasos
  BY DEF SignalPost, DosPasos
<1>2. PICK p : p = "signalResponder"
  OBVIOUS
<1>3. hilo' = ConPaso(hilo, c, p)
  BY <1>2 DEF SignalPost, Seguir, ConPaso
<1>4. p \in PasosSerenos /\ p \notin DosPasos
  BY <1>2 DEF PasosSerenos, DosPasos
<1>5. HilosVistos' = ConPaso(HilosVistos, c, p) /\ Queda(c, p)
  BY <1>1, <1>3, <1>4, SeguirVisto
<1>6. V!Seguir(c, p)
  BY <1>5 DEF V!Seguir, ConPaso
<1>7. V!SignalPost(c)
  BY <1>1, <1>2, <1>6, HiloDeSiempre DEF SignalPost, V!SignalPost, V!plp, plp, V!ready, ready, V!colas, colas
<1> QED
  BY <1>4, <1>5, <1>7

\* puts a program in the queue of a device,
LEMMA IoEncolarVisto ==
  ASSUME FormaHilos, NEW c \in CPUs, IoEncolar(c)
  PROVE  V!IoEncolar(c) /\ \E p \in PasosSerenos : Queda(c, p)
<1>1. hilo[c].paso \notin DosPasos
  BY DEF IoEncolar, DosPasos
<1>2. PICK p : p = "ioSacar"
  OBVIOUS
<1>3. hilo' = ConPaso(hilo, c, p)
  BY <1>2 DEF IoEncolar, Seguir, ConPaso
<1>4. p \in PasosSerenos /\ p \notin DosPasos
  BY <1>2 DEF PasosSerenos, DosPasos
<1>5. HilosVistos' = ConPaso(HilosVistos, c, p) /\ Queda(c, p)
  BY <1>1, <1>3, <1>4, SeguirVisto
<1>6. V!Seguir(c, p)
  BY <1>5 DEF V!Seguir, ConPaso
<1>7. V!IoEncolar(c)
  BY <1>1, <1>2, <1>6, HiloDeSiempre DEF IoEncolar, V!IoEncolar, V!plp, plp, V!ready, ready, V!colas, colas, Encolar, V!Encolar
<1> QED
  BY <1>4, <1>5, <1>7

\* takes it out of EXEC,
LEMMA IoSacarVisto ==
  ASSUME FormaHilos, NEW c \in CPUs, IoSacar(c)
  PROVE  V!IoSacar(c) /\ \E p \in PasosSerenos : Queda(c, p)
<1>1. hilo[c].paso \notin DosPasos
  BY DEF IoSacar, DosPasos
<1>2. PICK p : p = "ioPost"
  OBVIOUS
<1>3. hilo' = ConPaso(hilo, c, p)
  BY <1>2 DEF IoSacar, Seguir, ConPaso
<1>4. p \in PasosSerenos /\ p \notin DosPasos
  BY <1>2 DEF PasosSerenos, DosPasos
<1>5. HilosVistos' = ConPaso(HilosVistos, c, p) /\ Queda(c, p)
  BY <1>1, <1>3, <1>4, SeguirVisto
<1>6. V!Seguir(c, p)
  BY <1>5 DEF V!Seguir, ConPaso
<1>7. V!IoSacar(c)
  BY <1>1, <1>2, <1>6, HiloDeSiempre, ExecVisto DEF IoSacar, V!IoSacar, V!plp, plp, V!ready, ready, V!colas, colas
<1> QED
  BY <1>4, <1>5, <1>7

\* puts one whose quantum has ended in READY,
LEMMA RecargarReadyVisto ==
  ASSUME FormaHilos, NEW c \in CPUs, RecargarReady(c)
  PROVE  V!RecargarReady(c) /\ \E p \in PasosSerenos : Queda(c, p)
<1>1. hilo[c].paso \notin DosPasos
  BY DEF RecargarReady, DosPasos
<1>2. PICK p : p = "recargarPost"
  OBVIOUS
<1>3. hilo' = ConPaso(hilo, c, p)
  BY <1>2 DEF RecargarReady, Seguir, ConPaso
<1>4. p \in PasosSerenos /\ p \notin DosPasos
  BY <1>2 DEF PasosSerenos, DosPasos
<1>5. HilosVistos' = ConPaso(HilosVistos, c, p) /\ Queda(c, p)
  BY <1>1, <1>3, <1>4, SeguirVisto
<1>6. V!Seguir(c, p)
  BY <1>5 DEF V!Seguir, ConPaso
<1>7. V!RecargarReady(c)
  BY <1>1, <1>2, <1>6, HiloDeSiempre DEF RecargarReady, V!RecargarReady, V!plp, plp, V!ready, ready, V!colas, colas
<1> QED
  BY <1>4, <1>5, <1>7

\* tests the semaphore it has signalled,
LEMMA SignalProbarVisto ==
  ASSUME FormaHilos, NEW c \in CPUs, SignalProbar(c)
  PROVE  V!SignalProbar(c) /\ \E p \in PasosSerenos : Queda(c, p)
<1>1. hilo[c].paso \notin DosPasos
  BY DEF SignalProbar, DosPasos
<1>2. PICK p : p = IF iSemaforo[hilo[c].msg.nombre] <= 0 /\ progEncolados[hilo[c].msg.nombre] # <<>>
                     THEN "signalSacar" ELSE "signalResponder"
  OBVIOUS
<1>3. hilo' = ConPaso(hilo, c, p)
  BY <1>2 DEF SignalProbar, Seguir, ConPaso
<1>4. p \in PasosSerenos /\ p \notin DosPasos
  BY <1>2 DEF PasosSerenos, DosPasos
<1>5. HilosVistos' = ConPaso(HilosVistos, c, p) /\ Queda(c, p)
  BY <1>1, <1>3, <1>4, SeguirVisto
<1>6. V!Seguir(c, p)
  BY <1>5 DEF V!Seguir, ConPaso
<1>7. V!SignalProbar(c)
  BY <1>1, <1>2, <1>6, HiloDeSiempre DEF SignalProbar, V!SignalProbar, V!plp, plp, V!ready, ready, V!colas, colas
<1> QED
  BY <1>4, <1>5, <1>7

\* stores the PCB of a program that asks for a device,
LEMMA IoPcbVisto ==
  ASSUME FormaHilos, NEW c \in CPUs, IoPcb(c)
  PROVE  V!IoPcb(c) /\ \E p \in PasosSerenos : Queda(c, p)
<1>1. hilo[c].paso \notin DosPasos
  BY DEF IoPcb, DosPasos
<1>2. PICK p : p = IF hilo[c].msg.nombre \in Dispositivos THEN "ioEncolar" ELSE "exitSacar"
  OBVIOUS
<1>3. hilo' = ConPaso(hilo, c, p)
  BY <1>2 DEF IoPcb, Seguir, ConPaso
<1>4. p \in PasosSerenos /\ p \notin DosPasos
  BY <1>2 DEF PasosSerenos, DosPasos
<1>5. HilosVistos' = ConPaso(HilosVistos, c, p) /\ Queda(c, p)
  BY <1>1, <1>3, <1>4, SeguirVisto
<1>6. V!Seguir(c, p)
  BY <1>5 DEF V!Seguir, ConPaso
<1>7. V!IoPcb(c)
  BY <1>1, <1>2, <1>6, HiloDeSiempre DEF IoPcb, V!IoPcb, V!plp, plp, V!ready, ready, V!colas, colas, PcbDe, V!PcbDe
<1> QED
  BY <1>4, <1>5, <1>7

\* reads the semaphore it waits on,
LEMMA WaitLeerVisto ==
  ASSUME FormaHilos, NEW c \in CPUs, WaitLeer(c)
  PROVE  V!WaitLeer(c) /\ \E p \in PasosSerenos : Queda(c, p)
<1>1. hilo[c].paso \notin DosPasos
  BY DEF WaitLeer, DosPasos
<1>2. PICK l : l = iSemaforo[hilo[c].msg.nombre]
  OBVIOUS
<1>3. hilo' = ConLeido(hilo, c, l, "waitEscribir")
  BY <1>2 DEF WaitLeer, ConLeido
<1>4. "waitEscribir" \in PasosSerenos /\ "waitEscribir" \notin DosPasos
  BY DEF PasosSerenos, DosPasos
<1>5. HilosVistos' = ConLeido(HilosVistos, c, l, "waitEscribir") /\ Queda(c, "waitEscribir")
  BY <1>1, <1>3, <1>4, LeerVisto
<1>6. HilosVistos' = [HilosVistos EXCEPT ![c].leido = iSemaforo[HilosVistos[c].msg.nombre],
                                         ![c].paso = "waitEscribir"]
  BY <1>1, <1>2, <1>5, HiloDeSiempre DEF ConLeido
<1>7. V!WaitLeer(c)
  BY <1>1, <1>6, HiloDeSiempre DEF WaitLeer, V!WaitLeer, V!plp, plp, V!ready, ready, V!colas, colas
<1> QED
  BY <1>4, <1>5, <1>7

\* or the one it signals,
LEMMA SignalLeerVisto ==
  ASSUME FormaHilos, NEW c \in CPUs, SignalLeer(c)
  PROVE  V!SignalLeer(c) /\ \E p \in PasosSerenos : Queda(c, p)
<1>1. hilo[c].paso \notin DosPasos
  BY DEF SignalLeer, DosPasos
<1>2. PICK l : l = iSemaforo[hilo[c].msg.nombre]
  OBVIOUS
<1>3. hilo' = ConLeido(hilo, c, l, "signalEscribir")
  BY <1>2 DEF SignalLeer, ConLeido
<1>4. "signalEscribir" \in PasosSerenos /\ "signalEscribir" \notin DosPasos
  BY DEF PasosSerenos, DosPasos
<1>5. HilosVistos' = ConLeido(HilosVistos, c, l, "signalEscribir") /\ Queda(c, "signalEscribir")
  BY <1>1, <1>3, <1>4, LeerVisto
<1>6. HilosVistos' = [HilosVistos EXCEPT ![c].leido = iSemaforo[HilosVistos[c].msg.nombre],
                                         ![c].paso = "signalEscribir"]
  BY <1>1, <1>2, <1>5, HiloDeSiempre DEF ConLeido
<1>7. V!SignalLeer(c)
  BY <1>1, <1>6, HiloDeSiempre DEF SignalLeer, V!SignalLeer, V!plp, plp, V!ready, ready, V!colas, colas
<1> QED
  BY <1>4, <1>5, <1>7

\* dereferences a NULL,
LEMMA NullVisto ==
  ASSUME FormaHilos, NEW c \in CPUs, hilo[c].paso \notin DosPasos, NullEn(c)
  PROVE  V!NullEn(c) /\ Queda(c, "null")
<1>1. hilo' = ConPaso(hilo, c, "null") /\ "null" \notin DosPasos
  BY DEF NullEn, Seguir, ConPaso, DosPasos
<1>2. HilosVistos' = ConPaso(HilosVistos, c, "null") /\ Queda(c, "null")
  BY <1>1, SeguirVisto
<1> QED
  BY <1>2 DEF V!NullEn, NullEn, V!Seguir, ConPaso

\* puts the program it has woken in READY,
LEMMA SignalReadyVisto ==
  ASSUME FormaHilos, NEW c \in CPUs, SignalReady(c)
  PROVE  V!SignalReady(c) /\ \E p \in PasosSerenos : Queda(c, p)
<1>1. hilo[c].paso \notin DosPasos
  BY DEF SignalReady, DosPasos
<1>2. hilo' = ConOtro(hilo, c, Nadie, "signalPost")
  BY DEF SignalReady, ConOtro
<1>3. "signalPost" \in PasosSerenos /\ "signalPost" \notin DosPasos
  BY DEF PasosSerenos, DosPasos
<1>4. HilosVistos' = ConOtro(HilosVistos, c, Nadie, "signalPost") /\ Queda(c, "signalPost")
  BY <1>1, <1>2, <1>3, SacarVisto
<1>5. HilosVistos' = [HilosVistos EXCEPT ![c].otro = V!Nadie, ![c].paso = "signalPost"]
  BY <1>4 DEF ConOtro, V!Nadie, Nadie
<1>6. V!SignalReady(c)
  BY <1>1, <1>5, HiloDeSiempre DEF SignalReady, V!SignalReady, V!plp, plp, V!ready, ready, V!colas, colas
<1> QED
  BY <1>3, <1>4, <1>6

\* takes a program out of the queue of a semaphore,
LEMMA SignalSacarVisto ==
  ASSUME FormaHilos, NEW c \in CPUs, SignalSacar(c)
  PROVE  V!SignalSacar(c) /\ \E p \in PasosSerenos : Queda(c, p)
<1>1. hilo[c].paso \notin DosPasos
  BY DEF SignalSacar, DosPasos
<1>2. PICK o : /\ hilo' = ConOtro(hilo, c, o, "signalReady")
               /\ \/ /\ progEncolados[hilo[c].msg.nombre] = <<>> /\ o = Nadie
                     /\ UNCHANGED progEncolados
                  \/ /\ progEncolados[hilo[c].msg.nombre] # <<>>
                     /\ o = Head(progEncolados[hilo[c].msg.nombre])
                     /\ progEncolados' = [progEncolados EXCEPT ![hilo[c].msg.nombre] = Tail(@)]
  BY DEF SignalSacar, ConOtro
<1>3. "signalReady" \in PasosSerenos /\ "signalReady" \notin DosPasos
  BY DEF PasosSerenos, DosPasos
<1>4. HilosVistos' = ConOtro(HilosVistos, c, o, "signalReady") /\ Queda(c, "signalReady")
  BY <1>1, <1>2, <1>3, SacarVisto
<1>5. HilosVistos' = [HilosVistos EXCEPT ![c].otro = o, ![c].paso = "signalReady"]
  BY <1>4 DEF ConOtro
<1>6. V!SignalSacar(c)
  <2>1. /\ hilo[c].paso = "signalSacar"
        /\ UNCHANGED <<plp, ready, listaExec, exitProcesos, pcb, iSemaforo, semaforoDisp,
                       dispositivo, vivo>>
    BY DEF SignalSacar
  <2> QED
    BY <1>1, <1>2, <1>5, <2>1, HiloDeSiempre DEF V!SignalSacar, V!plp, plp, V!ready, ready, V!colas, colas, V!Nadie, Nadie
<1> QED
  BY <1>3, <1>4, <1>6

\* takes one whose quantum has ended out of EXEC,
LEMMA RecargarSacarVisto ==
  ASSUME FormaHilos, NEW c \in CPUs, RecargarSacar(c)
  PROVE  V!RecargarSacar(c) /\ \E p \in PasosSerenos : Queda(c, p)
<1>1. hilo[c].paso \notin DosPasos
  BY DEF RecargarSacar, DosPasos
<1>2. /\ hilo[c].paso = "recargarSacar"
      /\ UNCHANGED <<plp, ready, exitProcesos, colas, dispositivo>>
      /\ TRUE
  BY DEF RecargarSacar
<1>3. PICK I : I = EnExec(hilo[c].msg.pid)
  OBVIOUS
<1>4. I = V!EnExec(HilosVistos[c].msg.pid)
  BY <1>1, <1>3, HiloDeSiempre, ExecVisto
<1>5. CASE I = {} /\ NullEn(c) /\ UNCHANGED <<listaExec, pcb>>
  <2>1. V!NullEn(c) /\ Queda(c, "null")
    BY <1>1, <1>5, NullVisto
  <2>2. V!RecargarSacar(c)
    BY <1>1, <1>2, <1>4, <1>5, <2>1, HiloDeSiempre DEF V!RecargarSacar, V!plp, plp, V!ready, ready, V!colas, colas
  <2>3. "null" \in PasosSerenos
    BY DEF PasosSerenos
  <2> QED
    BY <2>1, <2>2, <2>3
<1>6. ASSUME NEW k \in I,
             hilo' = [hilo EXCEPT ![c].otro = listaExec[k], ![c].paso = "recargarReady"],
             listaExec' = Sin(listaExec, k),
             pcb' = [pcb EXCEPT ![listaExec[k]] = PcbDe(hilo[c].msg)],
             UNCHANGED vivo
      PROVE  V!RecargarSacar(c) /\ \E p \in PasosSerenos : Queda(c, p)
  <2>1. PICK o : o = listaExec[k]
    OBVIOUS
  <2>2. hilo' = ConOtro(hilo, c, o, "recargarReady")
    BY <1>6, <2>1 DEF ConOtro
  <2>3. "recargarReady" \in PasosSerenos /\ "recargarReady" \notin DosPasos
    BY DEF PasosSerenos, DosPasos
  <2>4. HilosVistos' = ConOtro(HilosVistos, c, o, "recargarReady") /\ Queda(c, "recargarReady")
    BY <1>1, <2>2, <2>3, SacarVisto
  <2>5. HilosVistos' = [HilosVistos EXCEPT ![c].otro = listaExec[k], ![c].paso = "recargarReady"]
    BY <2>1, <2>4 DEF ConOtro
  <2>6. listaExec' = V!Sin(listaExec, k) /\ V!PcbDe(HilosVistos[c].msg) = PcbDe(hilo[c].msg)
    BY <1>1, <1>6, ExecVisto, HiloDeSiempre DEF PcbDe, V!PcbDe
  <2>7. V!RecargarSacar(c)
    BY <1>1, <1>2, <1>4, <1>6, <2>5, <2>6, HiloDeSiempre DEF V!RecargarSacar, V!plp, plp, V!ready, ready, V!colas, colas
  <2> QED
    BY <2>3, <2>4, <2>7
<1>7. \/ I = {} /\ NullEn(c) /\ UNCHANGED <<listaExec, pcb>>
      \/ \E k \in I :
           /\ hilo' = [hilo EXCEPT ![c].otro = listaExec[k], ![c].paso = "recargarReady"]
           /\ listaExec' = Sin(listaExec, k)
        /\ pcb' = [pcb EXCEPT ![listaExec[k]] = PcbDe(hilo[c].msg)]
           /\ UNCHANGED vivo
  BY <1>3 DEF RecargarSacar
<1> QED
  BY <1>5, <1>6, <1>7

\* takes one that has ended out of EXEC,
LEMMA ExitSacarVisto ==
  ASSUME FormaHilos, NEW c \in CPUs, ExitSacar(c)
  PROVE  V!ExitSacar(c) /\ \E p \in PasosSerenos : Queda(c, p)
<1>1. hilo[c].paso \notin DosPasos
  BY DEF ExitSacar, DosPasos
<1>2. /\ hilo[c].paso = "exitSacar"
      /\ UNCHANGED <<plp, ready, exitProcesos, colas, dispositivo>>
      /\ UNCHANGED pcb
  BY DEF ExitSacar
<1>3. PICK I : I = EnExec(pcb[hilo[c].prog].pid)
  OBVIOUS
<1>4. I = V!EnExec(pcb[HilosVistos[c].prog].pid)
  BY <1>1, <1>3, HiloDeSiempre, ExecVisto
<1>5. CASE I = {} /\ NullEn(c) /\ UNCHANGED listaExec
  <2>1. V!NullEn(c) /\ Queda(c, "null")
    BY <1>1, <1>5, NullVisto
  <2>2. V!ExitSacar(c)
    BY <1>1, <1>2, <1>4, <1>5, <2>1, HiloDeSiempre DEF V!ExitSacar, V!plp, plp, V!ready, ready, V!colas, colas
  <2>3. "null" \in PasosSerenos
    BY DEF PasosSerenos
  <2> QED
    BY <2>1, <2>2, <2>3
<1>6. ASSUME NEW k \in I,
             hilo' = [hilo EXCEPT ![c].otro = listaExec[k], ![c].paso = "exitAgregar"],
             listaExec' = Sin(listaExec, k),
             UNCHANGED vivo
      PROVE  V!ExitSacar(c) /\ \E p \in PasosSerenos : Queda(c, p)
  <2>1. PICK o : o = listaExec[k]
    OBVIOUS
  <2>2. hilo' = ConOtro(hilo, c, o, "exitAgregar")
    BY <1>6, <2>1 DEF ConOtro
  <2>3. "exitAgregar" \in PasosSerenos /\ "exitAgregar" \notin DosPasos
    BY DEF PasosSerenos, DosPasos
  <2>4. HilosVistos' = ConOtro(HilosVistos, c, o, "exitAgregar") /\ Queda(c, "exitAgregar")
    BY <1>1, <2>2, <2>3, SacarVisto
  <2>5. HilosVistos' = [HilosVistos EXCEPT ![c].otro = listaExec[k], ![c].paso = "exitAgregar"]
    BY <2>1, <2>4 DEF ConOtro
  <2>6. listaExec' = V!Sin(listaExec, k)
    BY <1>1, <1>6, ExecVisto, HiloDeSiempre
  <2>7. V!ExitSacar(c)
    BY <1>1, <1>2, <1>4, <1>6, <2>5, <2>6, HiloDeSiempre DEF V!ExitSacar, V!plp, plp, V!ready, ready, V!colas, colas
  <2> QED
    BY <2>3, <2>4, <2>7
<1>7. \/ I = {} /\ NullEn(c) /\ UNCHANGED listaExec
      \/ \E k \in I :
           /\ hilo' = [hilo EXCEPT ![c].otro = listaExec[k], ![c].paso = "exitAgregar"]
           /\ listaExec' = Sin(listaExec, k)
           /\ UNCHANGED vivo
  BY <1>3 DEF ExitSacar
<1> QED
  BY <1>5, <1>6, <1>7

\* posts READY after a quantum,
LEMMA RecargarPostVisto ==
  ASSUME FormaHilos, NEW c \in CPUs, RecargarPost(c)
  PROVE  V!RecargarPost(c) /\ \E p \in PasosSerenos : Queda(c, p)
<1>1. hilo[c].paso \notin DosPasos
  BY DEF RecargarPost, DosPasos
<1>2. PICK p : p = "esperar"
  OBVIOUS
<1>3. Volver(c, p)
  BY <1>2 DEF RecargarPost
<1>4. p \in PasosSerenos /\ p \notin DosPasos
  BY <1>2 DEF PasosSerenos, DosPasos
<1>5. V!Volver(c, p) /\ Queda(c, p)
  BY <1>3, <1>4, VolverVisto
<1>6. V!RecargarPost(c)
  BY <1>1, <1>2, <1>5, HiloDeSiempre DEF RecargarPost, V!RecargarPost, V!plp, plp, V!ready, ready, V!colas, colas
<1> QED
  BY <1>4, <1>5, <1>6

\* or a device after it has queued a program,
LEMMA IoPostVisto ==
  ASSUME FormaHilos, NEW c \in CPUs, IoPost(c)
  PROVE  V!IoPost(c) /\ \E p \in PasosSerenos : Queda(c, p)
<1>1. hilo[c].paso \notin DosPasos
  BY DEF IoPost, DosPasos
<1>2. PICK p : p = "esperar"
  OBVIOUS
<1>3. Volver(c, p)
  BY <1>2 DEF IoPost
<1>4. p \in PasosSerenos /\ p \notin DosPasos
  BY <1>2 DEF PasosSerenos, DosPasos
<1>5. V!Volver(c, p) /\ Queda(c, p)
  BY <1>3, <1>4, VolverVisto
<1>6. V!IoPost(c)
  BY <1>1, <1>2, <1>5, HiloDeSiempre DEF IoPost, V!IoPost, V!plp, plp, V!ready, ready, V!colas, colas
<1> QED
  BY <1>4, <1>5, <1>6

\* puts a program in EXIT,
LEMMA ExitAgregarVisto ==
  ASSUME FormaHilos, NEW c \in CPUs, ExitAgregar(c)
  PROVE  V!ExitAgregar(c) /\ \E p \in PasosSerenos : Queda(c, p)
<1>1. hilo[c].paso \notin DosPasos
  BY DEF ExitAgregar, DosPasos
<1>2. PICK p : p = IF hilo[c].msg.op = "desconexion" THEN "terminado" ELSE "esperar"
  OBVIOUS
<1>3. Volver(c, p)
  BY <1>2 DEF ExitAgregar
<1>4. p \in PasosSerenos /\ p \notin DosPasos
  BY <1>2 DEF PasosSerenos, DosPasos
<1>5. V!Volver(c, p) /\ Queda(c, p)
  BY <1>3, <1>4, VolverVisto
<1>6. V!ExitAgregar(c)
  BY <1>1, <1>2, <1>5, HiloDeSiempre DEF ExitAgregar, V!ExitAgregar, V!plp, plp, V!ready, ready, V!colas, colas
<1> QED
  BY <1>4, <1>5, <1>6

\* or takes one out of READY: the same is seen.
LEMMA SacarReadyVisto ==
  ASSUME FormaHilos, NEW c \in CPUs, SacarReady(c)
  PROVE  V!SacarReady(c) /\ \E p \in PasosSerenos : Queda(c, p)
<1>1. /\ hilo[c].paso \notin DosPasos /\ hilo[c].paso = "sacar"
      /\ UNCHANGED <<plp, productorConsumidor, listaExec, exitProcesos, pcb, colas, dispositivo>>
  BY DEF SacarReady, DosPasos
<1>2. CASE \/ listaReady = <<>> /\ NullEn(c) /\ UNCHANGED listaReady
           \/ /\ listaReady # <<>> /\ Head(listaReady) = Nadie /\ NullEn(c)
              /\ listaReady' = Tail(listaReady)
  <2>1. V!NullEn(c) /\ Queda(c, "null") /\ "null" \in PasosSerenos
    BY <1>1, <1>2, NullVisto DEF PasosSerenos
  <2>2. \/ listaReady = <<>> /\ UNCHANGED listaReady
        \/ listaReady # <<>> /\ Head(listaReady) = Nadie /\ listaReady' = Tail(listaReady)
    BY <1>2
  <2>3. V!SacarReady(c)
    BY <1>1, <2>1, <2>2, HiloDeSiempre DEF V!SacarReady, V!plp, plp, V!ready, ready, V!colas, colas, V!Nadie, Nadie
  <2> QED
    BY <2>1, <2>3
<1>3. CASE /\ listaReady # <<>> /\ Head(listaReady) # Nadie
           /\ hilo' = [hilo EXCEPT ![c] = Hilo("cargar", Head(listaReady))]
           /\ listaReady' = Tail(listaReady)
           /\ UNCHANGED vivo
  <2>1. PICK r : r = Hilo("cargar", Head(listaReady))
    OBVIOUS
  <2>2. HiloEntero(r) /\ r.paso = "cargar"
    BY <2>1 DEF HiloEntero, Hilo, Respuesta, Mensaje, DosPasos
  <2>3. HiloVisto(r) = V!Hilo("cargar", Head(listaReady))
    BY <2>1 DEF HiloVisto, Hilo, Respuesta, Mensaje, DosPasos, MensajeVisto, DeVariable,
                V!Hilo, V!Respuesta, V!Mensaje, V!SinNombre, V!Nadie, SinNombre, Nadie
  <2>4. hilo' = [hilo EXCEPT ![c] = r]
    BY <1>3, <2>1
  <2>5. Queda(c, r.paso) /\ HilosVistos' = [HilosVistos EXCEPT ![c] = HiloVisto(r)]
    BY <2>2, <2>4, HiloCambia
  <2>6. "cargar" \in PasosSerenos
    BY DEF PasosSerenos
  <2>7. V!SacarReady(c)
    BY <1>1, <1>3, <2>3, <2>5, HiloDeSiempre DEF V!SacarReady, V!plp, plp, V!ready, ready, V!colas, colas, V!Nadie, Nadie
  <2> QED
    BY <2>2, <2>5, <2>6, <2>7
<1> QED
  BY <1>2, <1>3 DEF SacarReady

-----------------------------------------------------------------------------
(* Answers. *)

\* The thread of c has answered m at most.
Contesta(c, m) ==
  /\ EsCanales(haciaCpu') /\ \A x \in CPUs \ {c} : haciaCpu'[x] = haciaCpu[x]
  /\ EnCola(haciaCpu'[c]) \subseteq EnCola(haciaCpu[c]) \cup {m}
\* An answer to what is no request for a variable.
Permitido(c, m) ==
  /\ m.op # "valorCompartida"
  /\ m.op = "continuar" => hilo[c].paso \in {"consulta", "waitProbar", "signalResponder"}

\* Such an answer is seen as it is.
LEMMA RespuestaVista ==
  ASSUME NEW op, op \notin DeVariable \cup {"valorCompartida"}, NEW n, NEW pid, NEW pc
  PROVE  /\ MensajeVisto(Mensaje(op, n, pid, pc)) = V!Mensaje(op, n, pid, pc)
         /\ MensajeVisto(Respuesta(op)) = V!Respuesta(op)
         /\ Mensaje(op, n, pid, pc).op = op /\ Respuesta(op).op = op
BY DEF MensajeVisto, Mensaje, V!Mensaje, Respuesta, V!Respuesta, V!SinNombre, V!Nadie, SinNombre,
       Nadie

\* A thread that answers and goes on with its locals as new.
LEMMA ContestarVisto ==
  ASSUME FormaHilos, FormaCanales, NEW c \in CPUs, NEW op,
         op \notin DeVariable \cup {"valorCompartida"}, NEW p, p \in PasosSerenos,
         Responder(c, Respuesta(op)), Volver(c, p),
         op = "continuar" => hilo[c].paso \in {"consulta", "waitProbar", "signalResponder"}
  PROVE  /\ V!Responder(c, V!Respuesta(op)) /\ V!Volver(c, p)
         /\ \E q \in PasosSerenos : Queda(c, q)
         /\ \E m : Contesta(c, m) /\ Permitido(c, m)
<1>1. p \notin DosPasos
  BY DEF PasosSerenos, DosPasos
<1>2. V!Volver(c, p) /\ Queda(c, p)
  BY <1>1, VolverVisto
<1>3. PICK m : m = Respuesta(op)
  OBVIOUS
<1>4. V!Responder(c, MensajeVisto(m)) /\ Contesta(c, m)
  BY <1>3, ResponderVisto DEF Contesta
<1>5. MensajeVisto(m) = V!Respuesta(op) /\ m.op = op
  BY <1>3, RespuestaVista
<1>6. Permitido(c, m)
  BY <1>5 DEF Permitido
<1> QED
  BY <1>2, <1>4, <1>5, <1>6

\* A thread refuses a wait on a semaphore that is not configured,
LEMMA WaitInexistenteVisto ==
  ASSUME FormaHilos, FormaCanales, NEW c \in CPUs, WaitInexistente(c)
  PROVE  /\ V!WaitInexistente(c)
         /\ \E p \in PasosSerenos : Queda(c, p)
         /\ \E m : Contesta(c, m) /\ Permitido(c, m)
<1>1. /\ hilo[c].paso \notin DosPasos /\ hilo[c].paso = "waitInexistente"
      /\ Responder(c, Respuesta("terminar")) /\ Volver(c, "esperar")
  BY DEF WaitInexistente, DosPasos
<1>2. "terminar" \notin DeVariable \cup {"valorCompartida"} /\ "esperar" \in PasosSerenos
  BY DEF DeVariable, PasosSerenos
<1>3. /\ V!Responder(c, V!Respuesta("terminar")) /\ V!Volver(c, "esperar")
      /\ \E p \in PasosSerenos : Queda(c, p)
      /\ \E m : Contesta(c, m) /\ Permitido(c, m)
  BY <1>1, <1>2, ContestarVisto
<1>4. V!WaitInexistente(c)
  BY <1>1, <1>3, HiloDeSiempre DEF WaitInexistente, V!WaitInexistente, V!plp, plp, V!ready, ready, V!colas, colas
<1> QED
  BY <1>3, <1>4

\* answers a wait that blocks,
LEMMA WaitBloquearVisto ==
  ASSUME FormaHilos, FormaCanales, NEW c \in CPUs, WaitBloquear(c)
  PROVE  /\ V!WaitBloquear(c)
         /\ \E p \in PasosSerenos : Queda(c, p)
         /\ \E m : Contesta(c, m) /\ Permitido(c, m)
<1>1. /\ hilo[c].paso \notin DosPasos /\ hilo[c].paso = "waitBloquear"
      /\ Responder(c, Respuesta("bloquear")) /\ Volver(c, "esperar")
  BY DEF WaitBloquear, DosPasos
<1>2. "bloquear" \notin DeVariable \cup {"valorCompartida"} /\ "esperar" \in PasosSerenos
  BY DEF DeVariable, PasosSerenos
<1>3. /\ V!Responder(c, V!Respuesta("bloquear")) /\ V!Volver(c, "esperar")
      /\ \E p \in PasosSerenos : Queda(c, p)
      /\ \E m : Contesta(c, m) /\ Permitido(c, m)
  BY <1>1, <1>2, ContestarVisto
<1>4. V!WaitBloquear(c)
  BY <1>1, <1>3, HiloDeSiempre DEF WaitBloquear, V!WaitBloquear, V!plp, plp, V!ready, ready, V!colas, colas
<1> QED
  BY <1>3, <1>4

\* refuses a signal,
LEMMA SignalInexistenteVisto ==
  ASSUME FormaHilos, FormaCanales, NEW c \in CPUs, SignalInexistente(c)
  PROVE  /\ V!SignalInexistente(c)
         /\ \E p \in PasosSerenos : Queda(c, p)
         /\ \E m : Contesta(c, m) /\ Permitido(c, m)
<1>1. /\ hilo[c].paso \notin DosPasos /\ hilo[c].paso = "signalInexistente"
      /\ Responder(c, Respuesta("terminar")) /\ Volver(c, "recibir")
  BY DEF SignalInexistente, DosPasos
<1>2. "terminar" \notin DeVariable \cup {"valorCompartida"} /\ "recibir" \in PasosSerenos
  BY DEF DeVariable, PasosSerenos
<1>3. /\ V!Responder(c, V!Respuesta("terminar")) /\ V!Volver(c, "recibir")
      /\ \E p \in PasosSerenos : Queda(c, p)
      /\ \E m : Contesta(c, m) /\ Permitido(c, m)
  BY <1>1, <1>2, ContestarVisto
<1>4. V!SignalInexistente(c)
  BY <1>1, <1>3, HiloDeSiempre DEF SignalInexistente, V!SignalInexistente, V!plp, plp, V!ready, ready, V!colas, colas
<1> QED
  BY <1>3, <1>4

\* answers one,
LEMMA SignalResponderVisto ==
  ASSUME FormaHilos, FormaCanales, NEW c \in CPUs, SignalResponder(c)
  PROVE  /\ V!SignalResponder(c)
         /\ \E p \in PasosSerenos : Queda(c, p)
         /\ \E m : Contesta(c, m) /\ Permitido(c, m)
<1>1. /\ hilo[c].paso \notin DosPasos /\ hilo[c].paso = "signalResponder"
      /\ Responder(c, Respuesta("continuar")) /\ Volver(c, "recibir")
  BY DEF SignalResponder, DosPasos
<1>2. "continuar" \notin DeVariable \cup {"valorCompartida"} /\ "recibir" \in PasosSerenos
  BY DEF DeVariable, PasosSerenos
<1>3. /\ V!Responder(c, V!Respuesta("continuar")) /\ V!Volver(c, "recibir")
      /\ \E p \in PasosSerenos : Queda(c, p)
      /\ \E m : Contesta(c, m) /\ Permitido(c, m)
  BY <1>1, <1>2, ContestarVisto
<1>4. V!SignalResponder(c)
  BY <1>1, <1>3, HiloDeSiempre DEF SignalResponder, V!SignalResponder, V!plp, plp, V!ready, ready, V!colas, colas
<1> QED
  BY <1>3, <1>4

\* or a request that changes nothing,
LEMMA ConsultaVista ==
  ASSUME FormaHilos, FormaCanales, NEW c \in CPUs, Consulta(c)
  PROVE  /\ V!Consulta(c)
         /\ \E p \in PasosSerenos : Queda(c, p)
         /\ \E m : Contesta(c, m) /\ Permitido(c, m)
<1>1. /\ hilo[c].paso \notin DosPasos /\ hilo[c].paso = "consulta"
      /\ Volver(c, "recibir")
  BY DEF Consulta, DosPasos
<1>2. PICK op \in RespuestasConsulta(hilo[c].msg.nombre) : Responder(c, Respuesta(op))
  BY DEF Consulta
<1>3. op \notin DeVariable \cup {"valorCompartida"} /\ "recibir" \in PasosSerenos
      /\ op \in V!RespuestasConsulta(HilosVistos[c].msg.nombre)
  <2>1. PICK h : h = hilo[c]
    OBVIOUS
  <2>2. PICK m : m = h.msg
    OBVIOUS
  <2>3. HilosVistos[c] = HiloVisto(h) /\ HiloVisto(h).msg = MensajeVisto(m)
    BY <2>1, <2>2 DEF HilosVistos, HiloVisto
  <2>4. \/ MensajeVisto(m).nombre = m.nombre
        \/ MensajeVisto(m).nombre = SinNombre /\ SinNombre \notin VariablesCompartidas
    BY ParametrosPCP DEF MensajeVisto, Mensaje
  <2>5. RespuestasConsulta(m.nombre) \subseteq V!RespuestasConsulta(MensajeVisto(m).nombre)
    BY <2>4 DEF RespuestasConsulta, V!RespuestasConsulta
  <2> QED
    BY <1>2, <2>1, <2>2, <2>3, <2>5 DEF DeVariable, PasosSerenos, RespuestasConsulta
<1>4. /\ V!Responder(c, V!Respuesta(op)) /\ V!Volver(c, "recibir")
      /\ \E p \in PasosSerenos : Queda(c, p)
      /\ \E m : Contesta(c, m) /\ Permitido(c, m)
  BY <1>1, <1>2, <1>3, ContestarVisto
<1>5. V!Consulta(c)
  BY <1>1, <1>3, <1>4, HiloDeSiempre DEF Consulta, V!Consulta, V!plp, plp, V!ready, ready, V!colas, colas
<1> QED
  BY <1>4, <1>5

\* tests the semaphore it waits on and answers if the program goes on,
LEMMA WaitProbarVisto ==
  ASSUME FormaHilos, FormaCanales, NEW c \in CPUs, WaitProbar(c)
  PROVE  /\ V!WaitProbar(c)
         /\ \E p \in PasosSerenos : Queda(c, p)
         /\ \E m : Contesta(c, m) /\ Permitido(c, m)
<1>1. /\ hilo[c].paso \notin DosPasos /\ hilo[c].paso = "waitProbar"
      /\ UNCHANGED <<plp, ready, listaExec, exitProcesos, pcb, colas, dispositivo, vivo>>
  BY DEF WaitProbar, DosPasos
<1>2. CASE /\ iSemaforo[hilo[c].msg.nombre] < 0 /\ listaExec # <<>>
           /\ Seguir(c, "waitSacar") /\ UNCHANGED haciaCpu
  <2>1. hilo' = ConPaso(hilo, c, "waitSacar") /\ "waitSacar" \in PasosSerenos
        /\ "waitSacar" \notin DosPasos
    BY <1>2 DEF Seguir, ConPaso, PasosSerenos, DosPasos
  <2>2. HilosVistos' = ConPaso(HilosVistos, c, "waitSacar") /\ Queda(c, "waitSacar")
    BY <1>1, <2>1, SeguirVisto
  <2>3. V!Seguir(c, "waitSacar") /\ HaciaCpuVisto' = HaciaCpuVisto
    BY <1>2, <2>2, VistosLosCanales DEF V!Seguir, ConPaso
  <2>4. V!WaitProbar(c)
    BY <1>1, <1>2, <2>3, HiloDeSiempre DEF V!WaitProbar, V!plp, plp, V!ready, ready, V!colas, colas
  <2>5. Contesta(c, Respuesta("bloquear")) /\ Permitido(c, Respuesta("bloquear"))
    BY <1>2 DEF Contesta, Permitido, FormaCanales, Respuesta, Mensaje
  <2> QED
    BY <2>1, <2>2, <2>4, <2>5
<1>3. CASE /\ ~(iSemaforo[hilo[c].msg.nombre] < 0 /\ listaExec # <<>>)
           /\ Responder(c, Respuesta("continuar")) /\ Volver(c, "recibir")
  <2>1. "continuar" \notin DeVariable \cup {"valorCompartida"} /\ "recibir" \in PasosSerenos
    BY DEF DeVariable, PasosSerenos
  <2>2. /\ V!Responder(c, V!Respuesta("continuar")) /\ V!Volver(c, "recibir")
        /\ \E p \in PasosSerenos : Queda(c, p)
        /\ \E m : Contesta(c, m) /\ Permitido(c, m)
    BY <1>1, <1>3, <2>1, ContestarVisto
  <2>3. V!WaitProbar(c)
    BY <1>1, <1>3, <2>2, HiloDeSiempre DEF V!WaitProbar, V!plp, plp, V!ready, ready, V!colas, colas
  <2> QED
    BY <2>2, <2>3
<1> QED
  BY <1>2, <1>3 DEF WaitProbar

\* or sends a PCB: the same is seen.
LEMMA EnviarPcbVisto ==
  ASSUME FormaHilos, FormaCanales, NEW c \in CPUs, EnviarPcb(c)
  PROVE  /\ V!EnviarPcb(c)
         /\ \E p \in PasosSerenos : Queda(c, p)
         /\ \E m : Contesta(c, m) /\ Permitido(c, m)
<1>1. /\ hilo[c].paso \notin DosPasos /\ hilo[c].paso = "enviar"
      /\ UNCHANGED <<plp, ready, listaExec, exitProcesos, pcb, colas, dispositivo, vivo>>
  BY DEF EnviarPcb, DosPasos
<1>2. PICK m, b : /\ b = pcb[hilo[c].prog] /\ m = Mensaje("atendeProceso", SinNombre, b.pid, b.pc)
                  /\ Responder(c, m)
  BY DEF EnviarPcb
<1>3. hilo' = ConPaso(hilo, c, "recibir") /\ "recibir" \in PasosSerenos
      /\ "recibir" \notin DosPasos
  BY DEF EnviarPcb, Seguir, ConPaso, PasosSerenos, DosPasos
<1>4. HilosVistos' = ConPaso(HilosVistos, c, "recibir") /\ Queda(c, "recibir")
  BY <1>1, <1>3, SeguirVisto
<1>5. V!Responder(c, MensajeVisto(m)) /\ Contesta(c, m)
  BY <1>2, ResponderVisto DEF Contesta
<1>6. "atendeProceso" \notin DeVariable \cup {"valorCompartida"}
  BY DEF DeVariable
<1>7. MensajeVisto(m) = V!Mensaje("atendeProceso", SinNombre, b.pid, b.pc) /\ m.op = "atendeProceso"
  BY <1>2, <1>6, RespuestaVista
<1>8. V!EnviarPcb(c)
  BY <1>1, <1>2, <1>4, <1>5, <1>7, HiloDeSiempre DEF V!EnviarPcb, V!Seguir, ConPaso, V!SinNombre,
     SinNombre, V!plp, plp, V!ready, ready, V!colas, colas
<1>9. Permitido(c, m)
  BY <1>7 DEF Permitido
<1> QED
  BY <1>3, <1>4, <1>5, <1>8, <1>9

\* An answer about a variable is that to a request that changes nothing, or that there
\* is no such semaphore.
LEMMA VariableVista ==
  ASSUME FormaHilos, FormaCanales, NEW c \in CPUs, obtenerVariable(c) \/ asignarVariable(c)
  PROVE  /\ V!Consulta(c) \/ V!SignalInexistente(c)
         /\ Queda(c, "recibir")
         /\ \E m : /\ Contesta(c, m)
                   /\ m.op = "valorCompartida" => hilo[c].paso = "obtener"
                   /\ m.op = "continuar" => hilo[c].paso = "asignar"
<1>1. /\ hilo[c].paso \in DosPasos /\ Volver(c, "recibir")
      /\ UNCHANGED <<plp, ready, listaExec, exitProcesos, pcb, colas, dispositivo, vivo>>
  BY DEF obtenerVariable, asignarVariable, DosPasos
<1>2. "recibir" \notin DosPasos
  BY DEF DosPasos
<1>3. V!Volver(c, "recibir") /\ Queda(c, "recibir")
  BY <1>1, <1>2, VolverVisto
<1>4. HilosVistos[c].paso = IF hilo[c].msg.nombre \in VariablesCompartidas THEN "consulta"
                            ELSE "signalInexistente"
  <2>1. PICK h : h = hilo[c]
    OBVIOUS
  <2>2. HilosVistos[c] = HiloVisto(h) /\ h.paso \in {"obtener", "asignar"}
    BY <1>1, <2>1, VistosEnteros DEF DosPasos
  <2>3. HiloVisto(h).paso = IF h.msg.nombre \in VariablesCompartidas THEN "consulta"
                            ELSE "signalInexistente"
    BY <2>2 DEF HiloVisto
  <2> QED
    BY <2>1, <2>2, <2>3
<1>5. PICK m, op : /\ Responder(c, m) /\ MensajeVisto(m) = V!Respuesta(op)
                   /\ m.op = "valorCompartida" => hilo[c].paso = "obtener"
                   /\ m.op = "continuar" => hilo[c].paso = "asignar"
                   /\ \/ hilo[c].msg.nombre \in VariablesCompartidas /\ op = "continuar"
                      \/ hilo[c].msg.nombre \notin VariablesCompartidas /\ op = "terminar"
  <2>1. CASE hilo[c].msg.nombre \notin VariablesCompartidas
    <3>1. Responder(c, Respuesta("terminar"))
      BY <2>1 DEF obtenerVariable, asignarVariable
    <3>2. "terminar" \notin DeVariable \cup {"valorCompartida"}
      BY DEF DeVariable
    <3>3. MensajeVisto(Respuesta("terminar")) = V!Respuesta("terminar")
          /\ Respuesta("terminar").op = "terminar"
      BY <3>2, RespuestaVista
    <3> QED
      BY <2>1, <3>1, <3>3
  <2>2. CASE hilo[c].msg.nombre \in VariablesCompartidas /\ obtenerVariable(c)
    <3>1. PICK m : m = MensajeValor("valorCompartida", SinNombre,
                                    variables_compartidas[hilo[c].msg.nombre])
      OBVIOUS
    <3>2. Responder(c, m) /\ hilo[c].paso = "obtener"
      BY <2>2, <3>1 DEF obtenerVariable
    <3>3. MensajeVisto(m) = V!Respuesta("continuar") /\ m.op = "valorCompartida"
      BY <3>1 DEF MensajeValor, MensajeVisto, DeVariable, Mensaje, V!Respuesta, V!Mensaje,
                  V!SinNombre, SinNombre, V!Nadie, Nadie
    <3> QED
      BY <2>2, <3>2, <3>3
  <2>3. CASE hilo[c].msg.nombre \in VariablesCompartidas /\ asignarVariable(c)
    <3>1. PICK m : m = MensajeValor("continuar", SinNombre, hilo[c].msg.valor)
      OBVIOUS
    <3>2. Responder(c, m) /\ hilo[c].paso = "asignar"
      BY <2>3, <3>1 DEF asignarVariable
    <3>3. MensajeVisto(m) = V!Respuesta("continuar") /\ m.op = "continuar"
      BY <3>1 DEF MensajeValor, MensajeVisto, DeVariable, Mensaje, V!Respuesta, V!Mensaje,
                  V!SinNombre, SinNombre, V!Nadie, Nadie
    <3> QED
      BY <2>3, <3>2, <3>3
  <2> QED
    BY <2>1, <2>2, <2>3
<1>6. V!Responder(c, V!Respuesta(op)) /\ Contesta(c, m)
  BY <1>5, ResponderVisto DEF Contesta
<1>7. V!Consulta(c) \/ V!SignalInexistente(c)
  BY <1>1, <1>3, <1>4, <1>5, <1>6 DEF V!Consulta, V!RespuestasConsulta, V!SignalInexistente, V!plp, plp, V!ready, ready, V!colas, colas
<1> QED
  BY <1>3, <1>5, <1>6, <1>7

-----------------------------------------------------------------------------
(* Thread and CPU agree on what the request is. *)

Leyendo(c) == cpu[c].paso = "respuestaValor" /\ LineaActual(c).op = "leer"
Escribiendo(c) == cpu[c].paso = "respuestaValor" /\ LineaActual(c).op = "escribir"

AcordeHilo(c) ==
  /\ hilo[c].paso = "obtener" => Leyendo(c)
  /\ hilo[c].paso = "asignar" => Escribiendo(c)
  /\ hilo[c].paso = "consulta" => cpu[c].paso = "respuesta"
PedidoAcorde(c, m) ==
  /\ m.op \in DeCpu
  /\ m.op = "obtenerValorVarCompartida" => Leyendo(c)
  /\ m.op = "asignarValorVarCompartida" => Escribiendo(c)
  /\ m.op = "consulta" => cpu[c].paso = "respuesta"
RespuestaAcorde(c, m) ==
  /\ m.op = "valorCompartida" => Leyendo(c)
  /\ m.op = "continuar" => ~Leyendo(c)
CpuAcorde(c) ==
  /\ cpu[c].paso = "respuestaValor" => LineaActual(c).op \in {"leer", "escribir"}
  /\ cpu[c].paso = "respuesta" => LineaActual(c).op \notin {"leer", "escribir"}
Acorde(c) ==
  /\ AcordeHilo(c) /\ CpuAcorde(c)
  /\ \A m \in EnCola(haciaKernel[c]) : PedidoAcorde(c, m)
  /\ \A m \in EnCola(haciaCpu[c]) : RespuestaAcorde(c, m)

InvVisto ==
  /\ V!InvPCP /\ FormaHilos /\ FormaCanales /\ FormaCpus
  /\ \A c \in CPUs : Acorde(c)

\* Those of a thread and a CPU that do not step.
LEMMA AcordeIgual ==
  ASSUME NEW x \in CPUs, Acorde(x), cpu'[x] = cpu[x], hilo'[x] = hilo[x],
         haciaCpu'[x] = haciaCpu[x], haciaKernel'[x] = haciaKernel[x]
  PROVE  Acorde(x)'
<1>1. LineaActual(x)' = LineaActual(x)
  BY DEF LineaActual
<1>2. (Leyendo(x)' <=> Leyendo(x)) /\ (Escribiendo(x)' <=> Escribiendo(x))
  BY <1>1 DEF Leyendo, Escribiendo
<1>3. AcordeHilo(x)' /\ CpuAcorde(x)'
  BY <1>1, <1>2 DEF Acorde, AcordeHilo, CpuAcorde
<1>4. PICK K, C : K = EnCola(haciaKernel[x]) /\ C = EnCola(haciaCpu[x])
  OBVIOUS
<1>5. EnCola(haciaKernel[x])' = K /\ EnCola(haciaCpu[x])' = C
  BY <1>4 DEF EnCola
<1>6. (\A m \in K : PedidoAcorde(x, m)) /\ (\A m \in C : RespuestaAcorde(x, m))
  BY <1>4 DEF Acorde
<1>7. \A m \in K : PedidoAcorde(x, m)'
  BY <1>2, <1>6 DEF PedidoAcorde
<1>8. \A m \in C : RespuestaAcorde(x, m)'
  BY <1>2, <1>6 DEF RespuestaAcorde
<1> QED
  BY <1>3, <1>5, <1>7, <1>8 DEF Acorde

\* A step of the thread of c.
LEMMA AcordeTrasHilo ==
  ASSUME \A x \in CPUs : Acorde(x), NEW c \in CPUs, UNCHANGED cpu, NEW p, Queda(c, p),
         p = "obtener" => Leyendo(c), p = "asignar" => Escribiendo(c),
         p = "consulta" => cpu[c].paso = "respuesta",
         \A x \in CPUs \ {c} : haciaCpu'[x] = haciaCpu[x] /\ haciaKernel'[x] = haciaKernel[x],
         EnCola(haciaKernel'[c]) \subseteq EnCola(haciaKernel[c]),
         \A m \in EnCola(haciaCpu'[c]) : m \in EnCola(haciaCpu[c]) \/ RespuestaAcorde(c, m)
  PROVE  \A x \in CPUs : Acorde(x)'
<1>1. ASSUME NEW x \in CPUs, x # c PROVE Acorde(x)'
  BY <1>1, AcordeIgual DEF Queda
<1>2. LineaActual(c)' = LineaActual(c)
  BY DEF LineaActual
<1>3. (Leyendo(c)' <=> Leyendo(c)) /\ (Escribiendo(c)' <=> Escribiendo(c))
  BY <1>2 DEF Leyendo, Escribiendo
<1>4. AcordeHilo(c)'
  BY <1>3 DEF AcordeHilo, Queda
<1>5. CpuAcorde(c)'
  BY <1>2 DEF Acorde, CpuAcorde
<1>6. PICK K, C : K = EnCola(haciaKernel'[c]) /\ C = EnCola(haciaCpu'[c])
  OBVIOUS
<1>7. EnCola(haciaKernel[c])' = K /\ EnCola(haciaCpu[c])' = C
  BY <1>6 DEF EnCola
<1>8. (\A m \in K : PedidoAcorde(c, m)) /\ (\A m \in C : RespuestaAcorde(c, m))
  BY <1>6 DEF Acorde
<1>9. \A m \in K : PedidoAcorde(c, m)'
  BY <1>3, <1>8 DEF PedidoAcorde
<1>10. \A m \in C : RespuestaAcorde(c, m)'
  BY <1>3, <1>8 DEF RespuestaAcorde
<1>11. Acorde(c)'
  BY <1>4, <1>5, <1>7, <1>9, <1>10 DEF Acorde
<1> QED
  BY <1>1, <1>11

\* What is seen of a CPU, and the line it is at.
LEMMA CpuVistaEs ==
  ASSUME FormaCpus, NEW c \in CPUs
  PROVE  /\ CpusVistas = [d \in CPUs |-> CpusVistas[d]]
         /\ CpusVistas[c].paso = (IF cpu[c].paso = "respuestaValor" THEN "respuesta"
                                  ELSE cpu[c].paso)
         /\ CpusVistas[c].pid = cpu[c].pid /\ CpusVistas[c].pc = cpu[c].pc
         /\ CpusVistas[c].i = cpu[c].i /\ CpusVistas[c].estadoRafaga = cpu[c].estadoRafaga
         /\ CpusVistas[c].fallas = cpu[c].fallas /\ CpusVistas[c].manejador = cpu[c].manejador
<1>1. PICK x : x = cpu[c]
  OBVIOUS
<1>2. CpusVistas[c] = CpuVista(x) /\ CpusVistas = [d \in CPUs |-> CpusVistas[d]] /\ CpuEntera(x)
  BY <1>1 DEF CpusVistas, FormaCpus
<1>3. CpuVista(x) = [paso |-> IF x.paso = "respuestaValor" THEN "respuesta" ELSE x.paso,
                     pid |-> x.pid, pc |-> x.pc, i |-> x.i, estadoRafaga |-> x.estadoRafaga,
                     fallas |-> x.fallas, manejador |-> x.manejador]
  <2>1. x \in [paso : {x.paso}, pid : {x.pid}, pc : {x.pc}, i : {x.i},
               estadoRafaga : {x.estadoRafaga}, fallas : {x.fallas}, manejador : {x.manejador}]
    BY <1>2 DEF CpuEntera
  <2> QED
    BY <2>1 DEF CpuVista
<1> QED
  BY <1>1, <1>2, <1>3

\* The line a CPU waits for an answer to is seen as what it is.
LEMMA LineaActualVista ==
  ASSUME TextosEnRegla, FormaCpus, NEW c \in CPUs, V!FaseCpu(c),
         cpu[c].paso \in {"respuesta", "respuestaValor"}
  PROVE  /\ cpu[c].pid \in Programas /\ cpu[c].pc \in 1..Termina(cpu[c].pid)
         /\ V!LineaActual(c) = LineaVista(LineaActual(c))
<1>1. CpusVistas[c].paso = "respuesta" /\ CpusVistas[c].pid = cpu[c].pid
      /\ CpusVistas[c].pc = cpu[c].pc
  BY CpuVistaEs
<1>2. cpu[c].pid \in Programas /\ cpu[c].pc \in 0..V!Final(cpu[c].pid) /\ cpu[c].pc > 0
  BY <1>1 DEF V!FaseCpu, V!Programas, Programas
<1>3. V!Final(cpu[c].pid) = Termina(cpu[c].pid) /\ Termina(cpu[c].pid) \in Nat
  BY <1>2, CodigoVistoEs DEF V!Final
<1>4. cpu[c].pc \in 1..Termina(cpu[c].pid)
  BY <1>2, <1>3
<1>5. CodigoVisto[cpu[c].pid][cpu[c].pc] = LineaVista(Codigo[cpu[c].pid][cpu[c].pc])
  BY <1>2, <1>4, CodigoVistoEs
<1> QED
  BY <1>1, <1>2, <1>4, <1>5 DEF V!LineaActual, LineaActual

\* No CPU is waiting for a variable while its thread answers a wait or a signal.
LEMMA SinLeerEnSemaforo ==
  ASSUME TextosEnRegla, InvVisto, NEW c \in CPUs, hilo[c].paso \in {"waitProbar", "signalResponder"}
  PROVE  ~Leyendo(c)
<1>1. HilosVistos[c].paso = hilo[c].paso
  <2>1. hilo[c].paso \notin DosPasos
    BY DEF DosPasos
  <2> QED
    BY <2>1, HiloDeSiempre DEF InvVisto
<1>2. V!Fase(c)
  BY DEF InvVisto, V!InvPCP, V!Protocolo
<1>3. V!Pregunta(c) /\ V!FaseCpu(c)
      /\ \/ V!LineaActual(c).op = "wait"
         \/ V!LineaActual(c).op = "signal" /\ V!LineaActual(c).nombre \in Semaforos
  BY <1>1, <1>2 DEF V!Fase, V!FasePedido, V!PasosPedido, V!PasosWait, V!PasosSignal
<1>4. ASSUME Leyendo(c) PROVE FALSE
  <2>1. V!LineaActual(c) = LineaVista(LineaActual(c)) /\ LineaActual(c).op = "leer"
    BY <1>3, <1>4, LineaActualVista DEF Leyendo, InvVisto
  <2> QED
    BY <1>3, <2>1 DEF LineaVista, Linea, TextosEnRegla
<1> QED
  BY <1>4

\* A step of a thread that uses no socket.
LEMMA InternoVisto ==
  ASSUME FormaHilos, NEW c \in CPUs, Interno(c)
  PROVE  V!Interno(c) /\ \E p \in PasosSerenos : Queda(c, p)
<1>1. UNCHANGED <<haciaCpu, haciaKernel, conectada>>
  BY DEF Interno, canales
<1>2. UNCHANGED <<HaciaCpuVisto, HaciaKernelVisto, conectada>>
  BY <1>1, VistosLosCanales
<1>3. UNCHANGED V!canales
  BY <1>2 DEF V!canales
<1>4. CASE \/ EsperarReady(c) \/ SacarReady(c) \/ CargarExec(c)
  BY <1>3, <1>4, EsperarReadyVisto, SacarReadyVisto, CargarExecVisto DEF V!Interno
<1>5. CASE \/ WaitLeer(c) \/ WaitEscribir(c) \/ WaitSacar(c) \/ WaitEncolar(c)
  BY <1>3, <1>5, WaitLeerVisto, WaitEscribirVisto, WaitSacarVisto, WaitEncolarVisto DEF V!Interno
<1>6. CASE \/ SignalLeer(c) \/ SignalEscribir(c) \/ SignalProbar(c)
  BY <1>3, <1>6, SignalLeerVisto, SignalEscribirVisto, SignalProbarVisto DEF V!Interno
<1>7. CASE \/ SignalSacar(c) \/ SignalReady(c) \/ SignalPost(c)
  BY <1>3, <1>7, SignalSacarVisto, SignalReadyVisto, SignalPostVisto DEF V!Interno
<1>8. CASE \/ IoPcb(c) \/ IoEncolar(c) \/ IoSacar(c) \/ IoPost(c)
  BY <1>3, <1>8, IoPcbVisto, IoEncolarVisto, IoSacarVisto, IoPostVisto DEF V!Interno
<1>9. CASE \/ RecargarSacar(c) \/ RecargarReady(c) \/ RecargarPost(c)
  BY <1>3, <1>9, RecargarSacarVisto, RecargarReadyVisto, RecargarPostVisto DEF V!Interno
<1>10. CASE \/ ExitSacar(c) \/ ExitAgregar(c)
  BY <1>3, <1>10, ExitSacarVisto, ExitAgregarVisto DEF V!Interno
<1> QED
  BY <1>4, <1>5, <1>6, <1>7, <1>8, <1>9, <1>10 DEF Interno

\* A step of a thread that answers.
LEMMA EnviarVisto ==
  ASSUME FormaHilos, FormaCanales, NEW c \in CPUs, Enviar(c)
  PROVE  /\ V!Enviar(c)
         /\ \E p \in PasosSerenos : Queda(c, p)
         /\ \E m : Contesta(c, m) /\ Permitido(c, m)
<1>1. UNCHANGED <<haciaKernel, conectada>>
  BY DEF Enviar
<1>2. UNCHANGED <<HaciaKernelVisto, conectada>>
  BY <1>1, VistosLosCanales
<1>3. CASE EnviarPcb(c) \/ Consulta(c)
  BY <1>2, <1>3, EnviarPcbVisto, ConsultaVista DEF V!Enviar
<1>4. CASE WaitInexistente(c) \/ WaitProbar(c) \/ WaitBloquear(c)
  BY <1>2, <1>4, WaitInexistenteVisto, WaitProbarVisto, WaitBloquearVisto DEF V!Enviar
<1>5. CASE SignalInexistente(c) \/ SignalResponder(c)
  BY <1>2, <1>5, SignalInexistenteVisto, SignalResponderVisto DEF V!Enviar
<1> QED
  BY <1>3, <1>4, <1>5 DEF Enviar

\* The step a message leads to.
LEMMA PasoVisto ==
  ASSUME TextosEnRegla, NEW m, m.op \in DeCpu
  PROVE  /\ PasoPara(m) = "obtener" <=> m.op = "obtenerValorVarCompartida"
         /\ PasoPara(m) = "asignar" <=> m.op = "asignarValorVarCompartida"
         /\ PasoPara(m) = "consulta" <=> m.op = "consulta"
         /\ V!PasoPara(MensajeVisto(m)) =
              IF PasoPara(m) \notin DosPasos THEN PasoPara(m)
              ELSE IF m.nombre \in VariablesCompartidas THEN "consulta"
              ELSE "signalInexistente"
<1>1. CASE m.op \notin DeVariable
  <2>1. PICK n : n = MensajeVisto(m)
    OBVIOUS
  <2>2. n.op = m.op /\ n.nombre = m.nombre
    BY <1>1, <2>1 DEF MensajeVisto, Mensaje, DeCpu
  <2>3. PasoPara(m) = V!PasoPara(n) /\ PasoPara(m) \notin DosPasos
        /\ (PasoPara(m) = "consulta" <=> m.op = "consulta")
    BY <1>1, <2>2 DEF PasoPara, V!PasoPara, DeVariable, DeCpu, DosPasos
  <2> QED
    BY <1>1, <2>1, <2>3 DEF DeVariable, DosPasos
<1>2. CASE m.op \in DeVariable
  <2>1. PICK n : n = MensajeVisto(m)
    OBVIOUS
  <2>2. /\ m.nombre \in VariablesCompartidas => n.op = "consulta"
        /\ m.nombre \notin VariablesCompartidas => n.op = "signalKernel" /\ n.nombre = SinNombre
    BY <1>2, <2>1 DEF MensajeVisto, Mensaje
  <2>3. /\ m.op = "obtenerValorVarCompartida" => PasoPara(m) = "obtener"
        /\ m.op = "asignarValorVarCompartida" => PasoPara(m) = "asignar"
    BY DEF PasoPara
  <2>4. /\ m.nombre \in VariablesCompartidas => V!PasoPara(n) = "consulta"
        /\ m.nombre \notin VariablesCompartidas => V!PasoPara(n) = "signalInexistente"
    BY <2>2 DEF V!PasoPara, TextosEnRegla
  <2> QED
    BY <1>2, <2>1, <2>3, <2>4 DEF DeVariable, DosPasos
<1> QED
  BY <1>1, <1>2

\* A thread that receives.
LEMMA RecibirVisto ==
  ASSUME TextosEnRegla, FormaHilos, FormaCanales, NEW c \in CPUs, Acorde(c), Recibir(c)
  PROVE  /\ V!Recibir(c) /\ FormaCanales'
         /\ \A x \in CPUs \ {c} : haciaCpu'[x] = haciaCpu[x] /\ haciaKernel'[x] = haciaKernel[x]
         /\ EnCola(haciaKernel'[c]) \subseteq EnCola(haciaKernel[c])
         /\ haciaCpu' = haciaCpu
         /\ \E p : /\ Queda(c, p)
                   /\ p = "obtener" => Leyendo(c)
                   /\ p = "asignar" => Escribiendo(c)
                   /\ p = "consulta" => cpu[c].paso = "respuesta"
<1>1. UNCHANGED <<haciaCpu, conectada>>
  BY DEF Recibir
<1>2. UNCHANGED <<HaciaCpuVisto, conectada>>
  BY <1>1, VistosLosCanales
<1>3. CASE RecibirMensaje(c)
  <2>1. /\ hilo[c].paso = "recibir" /\ haciaKernel[c] # <<>>
        /\ haciaKernel' \in {[haciaKernel EXCEPT ![c] = r] : r \in Restos(haciaKernel[c])}
        /\ hilo' = [hilo EXCEPT ![c].msg = Head(haciaKernel[c]),
                                ![c].paso = PasoPara(Head(haciaKernel[c]))]
        /\ UNCHANGED <<plp, ready, listaExec, exitProcesos, pcb, colas, dispositivo, vivo>>
    BY <1>3 DEF RecibirMensaje
  <2>2. PICK m, p : m = Head(haciaKernel[c]) /\ p = PasoPara(m)
    OBVIOUS
  <2>3. /\ HaciaKernelVisto[c] # <<>> /\ Head(HaciaKernelVisto[c]) = MensajeVisto(m)
        /\ HaciaKernelVisto' \in
              {[HaciaKernelVisto EXCEPT ![c] = r] : r \in V!Restos(HaciaKernelVisto[c])}
        /\ EsCanales(haciaKernel')
        /\ \A x \in CPUs \ {c} : haciaKernel'[x] = haciaKernel[x]
        /\ EnCola(haciaKernel'[c]) \subseteq EnCola(haciaKernel[c])
        /\ m \in EnCola(haciaKernel[c])
    BY <2>1, <2>2, RecibeKernelVisto
  <2>4. PedidoAcorde(c, m)
    BY <2>3 DEF Acorde
  <2>5. /\ p = "obtener" <=> m.op = "obtenerValorVarCompartida"
        /\ p = "asignar" <=> m.op = "asignarValorVarCompartida"
        /\ p = "consulta" <=> m.op = "consulta"
        /\ V!PasoPara(MensajeVisto(m)) =
              IF p \notin DosPasos THEN p
              ELSE IF m.nombre \in VariablesCompartidas THEN "consulta"
              ELSE "signalInexistente"
    BY <2>2, <2>4, PasoVisto DEF PedidoAcorde
  <2>6. hilo' = ConMsg(hilo, c, m, p)
    BY <2>1, <2>2 DEF ConMsg
  <2>7. PICK r : r = Rec(p, hilo[c].prog, m, hilo[c].leido, hilo[c].otro)
    OBVIOUS
  <2>8. ConMsg(hilo, c, m, p) = ConHilo(hilo, c, r)
    BY <2>7, VistosEnteros, MsgDe
  <2>9. HiloEntero(r) /\ r.paso = p
    BY <2>5, <2>7 DEF HiloEntero, Rec
  <2>10. hilo' = [hilo EXCEPT ![c] = r]
    BY <2>6, <2>8 DEF ConHilo
  <2>11. Queda(c, r.paso) /\ HilosVistos' = [HilosVistos EXCEPT ![c] = HiloVisto(r)]
    BY <2>9, <2>10, HiloCambia
  <2>12. PICK n, q : n = MensajeVisto(m) /\ q = V!PasoPara(n)
    OBVIOUS
  <2>13. HiloVisto(r) = Rec(q, HilosVistos[c].prog, n, HilosVistos[c].leido, HilosVistos[c].otro)
    <3>1. /\ r.paso = p /\ r.msg = m /\ r.prog = HilosVistos[c].prog
          /\ r.leido = HilosVistos[c].leido /\ r.otro = HilosVistos[c].otro
      BY <2>7, VistosEnteros DEF Rec
    <3>2. HiloVisto(r) = Rec(IF r.paso \notin {"obtener", "asignar"} THEN r.paso
                             ELSE IF r.msg.nombre \in VariablesCompartidas THEN "consulta"
                             ELSE "signalInexistente",
                             r.prog, MensajeVisto(r.msg), r.leido, r.otro)
      BY DEF HiloVisto, Rec
    <3> QED
      BY <2>5, <2>12, <3>1, <3>2 DEF DosPasos
  <2>14. ConMsg(HilosVistos, c, n, q) = ConHilo(HilosVistos, c, HiloVisto(r))
    BY <2>13, VistosEnteros, MsgDe
  <2>15. HilosVistos' = [HilosVistos EXCEPT ![c].msg = Head(HaciaKernelVisto[c]),
                                            ![c].paso = V!PasoPara(Head(HaciaKernelVisto[c]))]
    BY <2>3, <2>11, <2>12, <2>14 DEF ConMsg, ConHilo
  <2>16. HilosVistos[c].paso = "recibir"
    <3>1. hilo[c].paso \notin DosPasos
      BY <2>1 DEF DosPasos
    <3> QED
      BY <2>1, <3>1, HiloDeSiempre
  <2>17. V!RecibirMensaje(c)
    BY <2>1, <2>3, <2>15, <2>16 DEF V!RecibirMensaje, V!plp, plp, V!ready, ready, V!colas, colas
  <2>18. V!Recibir(c)
    BY <1>2, <2>17 DEF V!Recibir
  <2>19. FormaCanales'
    BY <1>1, <2>3 DEF FormaCanales, EsCanales
  <2>20. Queda(c, p) /\ (p = "obtener" => Leyendo(c)) /\ (p = "asignar" => Escribiendo(c))
         /\ (p = "consulta" => cpu[c].paso = "respuesta")
    BY <2>4, <2>5, <2>9, <2>11 DEF PedidoAcorde
  <2> QED
    BY <1>1, <2>3, <2>18, <2>19, <2>20
<1>4. CASE RecibirFin(c)
  <2>1. /\ hilo[c].paso = "recibir" /\ haciaKernel[c] = <<>> /\ ~conectada[c]
        /\ hilo' = [hilo EXCEPT ![c].msg = Respuesta("desconexion"), ![c].paso = "exitSacar"]
        /\ UNCHANGED <<haciaKernel, plp, ready, listaExec, exitProcesos, pcb, colas, dispositivo,
                       vivo>>
    BY <1>4 DEF RecibirFin
  <2>2. PICK m : m = Respuesta("desconexion")
    OBVIOUS
  <2>3. MensajeVisto(m) = V!Respuesta("desconexion") /\ m.op = "desconexion"
    <3>1. "desconexion" \notin DeVariable \cup {"valorCompartida"}
      BY DEF DeVariable
    <3> QED
      BY <2>2, <3>1, RespuestaVista
  <2>4. PICK r : r = Rec("exitSacar", hilo[c].prog, m, hilo[c].leido, hilo[c].otro)
    OBVIOUS
  <2>5. ConMsg(hilo, c, m, "exitSacar") = ConHilo(hilo, c, r)
    BY <2>4, VistosEnteros, MsgDe
  <2>6. HiloEntero(r) /\ r.paso = "exitSacar"
    BY <2>3, <2>4 DEF HiloEntero, Rec
  <2>7. hilo' = [hilo EXCEPT ![c] = r]
    BY <2>1, <2>2, <2>5 DEF ConHilo, ConMsg
  <2>8. Queda(c, r.paso) /\ HilosVistos' = [HilosVistos EXCEPT ![c] = HiloVisto(r)]
    BY <2>6, <2>7, HiloCambia
  <2>9. HiloVisto(r) = Rec("exitSacar", HilosVistos[c].prog, V!Respuesta("desconexion"),
                           HilosVistos[c].leido, HilosVistos[c].otro)
    <3>1. /\ r.paso = "exitSacar" /\ r.msg = m /\ r.prog = HilosVistos[c].prog
          /\ r.leido = HilosVistos[c].leido /\ r.otro = HilosVistos[c].otro
      BY <2>4, VistosEnteros DEF Rec
    <3> QED
      BY <2>3, <3>1 DEF HiloVisto, Rec
  <2>10. PICK n : n = V!Respuesta("desconexion")
    OBVIOUS
  <2>11. ConMsg(HilosVistos, c, n, "exitSacar") = ConHilo(HilosVistos, c, HiloVisto(r))
    BY <2>9, <2>10, VistosEnteros, MsgDe
  <2>12. HilosVistos' = [HilosVistos EXCEPT ![c].msg = V!Respuesta("desconexion"),
                                            ![c].paso = "exitSacar"]
    BY <2>8, <2>10, <2>11 DEF ConMsg, ConHilo
  <2>13. HilosVistos[c].paso = "recibir"
    <3>1. hilo[c].paso \notin DosPasos
      BY <2>1 DEF DosPasos
    <3> QED
      BY <2>1, <3>1, HiloDeSiempre
  <2>14. HaciaKernelVisto[c] = <<>> /\ HaciaKernelVisto' = HaciaKernelVisto
    <3>1. CanalVisto(<<>>) = <<>>
      BY DEF CanalVisto
    <3> QED
      BY <2>1, <3>1, VistosLosCanales DEF HaciaKernelVisto
  <2>15. V!RecibirFin(c)
    BY <2>1, <2>12, <2>13, <2>14 DEF V!RecibirFin, V!plp, plp, V!ready, ready, V!colas, colas
  <2>16. V!Recibir(c)
    BY <1>2, <2>15 DEF V!Recibir
  <2>17. "exitSacar" # "obtener" /\ "exitSacar" # "asignar" /\ "exitSacar" # "consulta"
    OBVIOUS
  <2>18. FormaCanales'
    BY <1>1, <2>1 DEF FormaCanales, EsCanales
  <2> QED
    BY <1>1, <2>1, <2>6, <2>8, <2>16, <2>17, <2>18
<1> QED
  BY <1>3, <1>4 DEF Recibir
-----------------------------------------------------------------------------
(* Steps of the kernel. *)

EnAcuerdo == FormaHilos /\ FormaCanales /\ FormaCpus /\ \A c \in CPUs : Acorde(c)

\* A CPU that takes no step is seen to take none.
LEMMA CpusIguales ==
  ASSUME FormaCpus, UNCHANGED cpu
  PROVE  UNCHANGED CpusVistas /\ FormaCpus'
BY DEF CpusVistas, FormaCpus

\* An answer that Permitido allows is one the CPU can be waiting for.
LEMMA AcordeLoPermitido ==
  ASSUME TextosEnRegla, InvVisto, NEW c \in CPUs, NEW m, Permitido(c, m)
  PROVE  RespuestaAcorde(c, m)
<1>1. hilo[c].paso = "consulta" => ~Leyendo(c)
  BY DEF InvVisto, Acorde, AcordeHilo, Leyendo
<1>2. hilo[c].paso \in {"waitProbar", "signalResponder"} => ~Leyendo(c)
  BY SinLeerEnSemaforo
<1> QED
  BY <1>1, <1>2 DEF Permitido, RespuestaAcorde

\* What is seen of a thread's step is a step of the thread.
LEMMA HiloDeCpuVisto ==
  ASSUME TextosEnRegla, InvVisto, NEW c \in CPUs, pfnControladorConexion(c), UNCHANGED cpu
  PROVE  V!pfnControladorConexion(c) /\ UNCHANGED CpusVistas /\ EnAcuerdo'
<1>1. /\ FormaHilos /\ FormaCanales /\ FormaCpus /\ \A x \in CPUs : Acorde(x)
      /\ UNCHANGED CpusVistas /\ FormaCpus'
  BY CpusIguales DEF InvVisto
<1>2. vivo
  BY DEF pfnControladorConexion
<1>3. CASE Recibir(c)
  <2>0. FormaHilos /\ FormaCanales /\ Acorde(c)
    BY <1>1
  <2>1. PICK p : /\ Queda(c, p)
                 /\ p = "obtener" => Leyendo(c)
                 /\ p = "asignar" => Escribiendo(c)
                 /\ p = "consulta" => cpu[c].paso = "respuesta"
    BY <2>0, <1>3, RecibirVisto
  <2>2. /\ V!Recibir(c) /\ FormaCanales'
        /\ \A x \in CPUs \ {c} : haciaCpu'[x] = haciaCpu[x] /\ haciaKernel'[x] = haciaKernel[x]
        /\ EnCola(haciaKernel'[c]) \subseteq EnCola(haciaKernel[c])
        /\ haciaCpu' = haciaCpu
    BY <1>1, <1>3, RecibirVisto
  <2>3. \A m \in EnCola(haciaCpu'[c]) : m \in EnCola(haciaCpu[c]) \/ RespuestaAcorde(c, m)
    BY <2>2
  <2>4. \A x \in CPUs : Acorde(x)'
    BY <1>1, <2>1, <2>2, <2>3, AcordeTrasHilo
  <2> QED
    BY <1>1, <1>2, <2>1, <2>2, <2>4 DEF EnAcuerdo, Queda, V!pfnControladorConexion
<1>4. CASE Enviar(c)
  <2>1. V!Enviar(c)
    BY <1>1, <1>4, EnviarVisto
  <2>2. PICK p \in PasosSerenos : Queda(c, p)
    BY <1>1, <1>4, EnviarVisto
  <2>3. PICK m : Contesta(c, m) /\ Permitido(c, m)
    BY <1>1, <1>4, EnviarVisto
  <2>4. RespuestaAcorde(c, m)
    BY <2>3, AcordeLoPermitido
  <2>5. UNCHANGED haciaKernel
    BY <1>4 DEF Enviar
  <2>6. /\ \A x \in CPUs \ {c} : haciaCpu'[x] = haciaCpu[x] /\ haciaKernel'[x] = haciaKernel[x]
        /\ EnCola(haciaKernel'[c]) \subseteq EnCola(haciaKernel[c])
        /\ \A n \in EnCola(haciaCpu'[c]) : n \in EnCola(haciaCpu[c]) \/ RespuestaAcorde(c, n)
    BY <2>3, <2>4, <2>5 DEF Contesta
  <2>7. p # "obtener" /\ p # "asignar" /\ p # "consulta"
    BY <2>2 DEF PasosSerenos
  <2>8. \A x \in CPUs : Acorde(x)'
    BY <1>1, <2>2, <2>6, <2>7, AcordeTrasHilo
  <2>9. FormaCanales'
    BY <1>1, <2>3, <2>5 DEF Contesta, FormaCanales, EsCanales
  <2> QED
    BY <1>1, <1>2, <2>1, <2>2, <2>8, <2>9 DEF EnAcuerdo, Queda, V!pfnControladorConexion
<1>5. CASE Interno(c)
  <2>1. V!Interno(c)
    BY <1>1, <1>5, InternoVisto
  <2>2. PICK p \in PasosSerenos : Queda(c, p)
    BY <1>1, <1>5, InternoVisto
  <2>3. UNCHANGED <<haciaCpu, haciaKernel>>
    BY <1>5 DEF Interno, canales
  <2>4. /\ \A x \in CPUs \ {c} : haciaCpu'[x] = haciaCpu[x] /\ haciaKernel'[x] = haciaKernel[x]
        /\ EnCola(haciaKernel'[c]) \subseteq EnCola(haciaKernel[c])
        /\ \A n \in EnCola(haciaCpu'[c]) : n \in EnCola(haciaCpu[c]) \/ RespuestaAcorde(c, n)
    BY <2>3
  <2>5. p # "obtener" /\ p # "asignar" /\ p # "consulta"
    BY <2>2 DEF PasosSerenos
  <2>6. \A x \in CPUs : Acorde(x)'
    BY <1>1, <2>2, <2>4, <2>5, AcordeTrasHilo
  <2>7. FormaCanales'
    BY <1>1, <2>3 DEF FormaCanales, EsCanales
  <2> QED
    BY <1>1, <1>2, <2>1, <2>2, <2>6, <2>7 DEF EnAcuerdo, Queda, V!pfnControladorConexion
<1> QED
  BY <1>3, <1>4, <1>5 DEF pfnControladorConexion

\* An answer about a variable is seen as a step of the thread.
LEMMA AtenderVariableVisto ==
  ASSUME TextosEnRegla, InvVisto, NEW c \in CPUs, vivo, obtenerVariable(c) \/ asignarVariable(c),
         UNCHANGED <<haciaKernel, conectada, cpu>>
  PROVE  V!pfnControladorConexion(c) /\ UNCHANGED CpusVistas /\ EnAcuerdo'
<1>1. /\ FormaHilos /\ FormaCanales /\ FormaCpus /\ \A x \in CPUs : Acorde(x)
      /\ UNCHANGED CpusVistas /\ FormaCpus'
  BY CpusIguales DEF InvVisto
<1>2. (V!Consulta(c) \/ V!SignalInexistente(c)) /\ Queda(c, "recibir")
  BY <1>1, VariableVista
<1>3. FormaHilos /\ FormaCanales
  BY <1>1
<1>a. PICK m : /\ Contesta(c, m)
               /\ m.op = "valorCompartida" => hilo[c].paso = "obtener"
               /\ m.op = "continuar" => hilo[c].paso = "asignar"
  BY <1>3, VariableVista
<1>4. RespuestaAcorde(c, m)
  <2>1. (hilo[c].paso = "obtener" => Leyendo(c)) /\ (hilo[c].paso = "asignar" => ~Leyendo(c))
    BY <1>1 DEF Acorde, AcordeHilo, Leyendo, Escribiendo
  <2> QED
    BY <1>a, <2>1 DEF RespuestaAcorde
<1>5. /\ \A x \in CPUs \ {c} : haciaCpu'[x] = haciaCpu[x] /\ haciaKernel'[x] = haciaKernel[x]
      /\ EnCola(haciaKernel'[c]) \subseteq EnCola(haciaKernel[c])
      /\ \A n \in EnCola(haciaCpu'[c]) : n \in EnCola(haciaCpu[c]) \/ RespuestaAcorde(c, n)
  BY <1>a, <1>4 DEF Contesta
<1>6. \A x \in CPUs : Acorde(x)'
  <2>1. "recibir" # "obtener" /\ "recibir" # "asignar" /\ "recibir" # "consulta"
    OBVIOUS
  <2> QED
    BY <1>1, <1>2, <1>5, <2>1, AcordeTrasHilo
<1>7. FormaCanales'
  BY <1>1, <1>a DEF Contesta, FormaCanales, EsCanales
<1>8. UNCHANGED <<HaciaKernelVisto, conectada>>
  BY VistosLosCanales
<1>9. V!Enviar(c)
  BY <1>2, <1>8 DEF V!Enviar
<1> QED
  BY <1>1, <1>2, <1>6, <1>7, <1>9 DEF EnAcuerdo, Queda, V!pfnControladorConexion

\* A step that touches no thread, channel or CPU leaves what is seen of them.
LEMMA VistosIguales ==
  ASSUME EnAcuerdo, UNCHANGED <<hilo, haciaCpu, haciaKernel, cpu>>
  PROVE  /\ UNCHANGED <<HilosVistos, HaciaCpuVisto, HaciaKernelVisto, CpusVistas>>
         /\ EnAcuerdo'
<1>1. UNCHANGED <<HilosVistos, HaciaCpuVisto, HaciaKernelVisto, CpusVistas>>
  BY DEF HilosVistos, HaciaCpuVisto, HaciaKernelVisto, CpusVistas
<1>2. FormaHilos' /\ FormaCanales' /\ FormaCpus'
  BY DEF EnAcuerdo, FormaHilos, FormaCanales, FormaCpus, EsCanales
<1>3. \A x \in CPUs : Acorde(x)'
  BY AcordeIgual DEF EnAcuerdo
<1> QED
  BY <1>1, <1>2, <1>3 DEF EnAcuerdo

\* A step of a device.
LEMMA DispositivoVisto ==
  ASSUME InvVisto, NEW d \in Dispositivos, fnDispositivos(d), UNCHANGED cpu
  PROVE  V!fnDispositivos(d) /\ UNCHANGED CpusVistas /\ EnAcuerdo'
<1>1. /\ vivo /\ UNCHANGED <<hilo, haciaCpu, haciaKernel, conectada>>
      /\ DispEsperar(d) \/ DispSacar(d) \/ DispReady(d) \/ DispPost(d)
  BY DEF fnDispositivos, canales, DispEsperar, DispSacar, DispReady, DispPost
<1>2. EnAcuerdo
  BY DEF InvVisto, EnAcuerdo
<1>3. UNCHANGED <<HilosVistos, HaciaCpuVisto, HaciaKernelVisto, CpusVistas>> /\ EnAcuerdo'
  BY <1>1, <1>2, VistosIguales
<1>4. DispEsperar(d) => V!DispEsperar(d)
  BY <1>3 DEF DispEsperar, V!DispEsperar, plp, V!plp, ready, V!ready
<1>5. DispSacar(d) => V!DispSacar(d)
  BY <1>3 DEF DispSacar, V!DispSacar, plp, V!plp, ready, V!ready
<1>6. DispReady(d) => V!DispReady(d)
  BY <1>3 DEF DispReady, V!DispReady, plp, V!plp, colas, V!colas, Nadie, V!Nadie
<1>7. DispPost(d) => V!DispPost(d)
  BY <1>3 DEF DispPost, V!DispPost, plp, V!plp, colas, V!colas
<1> QED
  BY <1>1, <1>3, <1>4, <1>5, <1>6, <1>7 DEF V!fnDispositivos, V!canales

\* A step of the PLP.
LEMMA AdmisionVista ==
  ASSUME InvVisto, Admision, UNCHANGED cpu
  PROVE  V!Admision /\ UNCHANGED CpusVistas /\ EnAcuerdo'
<1>1. /\ vivo /\ UNCHANGED <<hilo, haciaCpu, haciaKernel, conectada>>
      /\ PonerEnReady \/ PostProductor
  BY DEF Admision, canales, PonerEnReady, PostProductor
<1>2. EnAcuerdo
  BY DEF InvVisto, EnAcuerdo
<1>3. UNCHANGED <<HilosVistos, HaciaCpuVisto, HaciaKernelVisto, CpusVistas>> /\ EnAcuerdo'
  BY <1>1, <1>2, VistosIguales
<1>4. PonerEnReady => V!PonerEnReady
  BY <1>3 DEF PonerEnReady, V!PonerEnReady, colas, V!colas, Programas, V!Programas
<1>5. PostProductor => V!PostProductor
  BY <1>3 DEF PostProductor, V!PostProductor, colas, V!colas, ready, V!ready
<1> QED
  BY <1>1, <1>3, <1>4, <1>5 DEF V!Admision, V!canales

\* Every step of the kernel is seen as one.
LEMMA KernelVisto ==
  ASSUME TextosEnRegla, InvVisto, NextPCP, UNCHANGED cpu
  PROVE  V!NextPCP /\ UNCHANGED CpusVistas /\ EnAcuerdo'
<1>1. CASE Admision
  BY <1>1, AdmisionVista DEF V!NextPCP
<1>2. CASE \E c \in CPUs : pfnControladorConexion(c)
  BY <1>2, HiloDeCpuVisto DEF V!NextPCP
<1>3. CASE \E d \in Dispositivos : fnDispositivos(d)
  BY <1>3, DispositivoVisto DEF V!NextPCP
<1> QED
  BY <1>1, <1>2, <1>3 DEF NextPCP

-----------------------------------------------------------------------------
(* What is seen of a CPU that steps. *)

\* A CPU that has not asked for a variable is seen as it is.
LEMMA CpuVistaIgual ==
  ASSUME NEW x, CpuEntera(x), x.paso # "respuestaValor"
  PROVE  CpuVista(x) = x
<1>1. x \in [paso : {x.paso}, pid : {x.pid}, pc : {x.pc}, i : {x.i},
             estadoRafaga : {x.estadoRafaga}, fallas : {x.fallas}, manejador : {x.manejador}]
  BY DEF CpuEntera
<1> QED
  BY <1>1 DEF CpuVista

\* A CPU that goes on as y.
LEMMA CpuCambia ==
  ASSUME FormaCpus, NEW c \in CPUs, NEW y, CpuEntera(y), cpu' = ConHilo(cpu, c, y)
  PROVE  /\ FormaCpus' /\ cpu'[c] = y /\ \A x \in CPUs \ {c} : cpu'[x] = cpu[x]
         /\ CpusVistas' = ConHilo(CpusVistas, c, CpuVista(y))
<1>1. cpu = [d \in CPUs |-> cpu[d]] /\ \A d \in CPUs : CpuEntera(cpu[d])
  BY DEF FormaCpus
<1>2. /\ cpu' = [d \in CPUs |-> cpu'[d]] /\ cpu'[c] = y
      /\ \A d \in CPUs \ {c} : cpu'[d] = cpu[d]
  BY <1>1 DEF ConHilo
<1>3. FormaCpus'
  BY <1>1, <1>2 DEF FormaCpus, CpuEntera
<1>4. PICK f : f = cpu'
  OBVIOUS
<1>5. CpusVistas' = [d \in CPUs |-> CpuVista(f[d])]
  BY <1>4 DEF CpusVistas, CpuVista
<1>6. CpusVistas' = [CpusVistas EXCEPT ![c] = CpuVista(y)]
  BY <1>2, <1>4, <1>5 DEF CpusVistas
<1> QED
  BY <1>2, <1>3, <1>6 DEF ConHilo

\* The fields of a CPU that its steps change, and the CPU it then is.
CpuTrasPedir(x, p, n) == [x EXCEPT !.paso = p, !.pc = n]
CpuTrasRespuesta(x, i, e) == [x EXCEPT !.paso = "ejecutar", !.i = i, !.estadoRafaga = e]
CpuTrasRafaga(x) == [x EXCEPT !.paso = "recibirPcb", !.manejador = TRUE]
CpuMuerta(x) == [x EXCEPT !.paso = "muerta"]
CpuTrasPcb(x, p, n) ==
  [paso |-> "ejecutar", pid |-> p, pc |-> n, i |-> 0, estadoRafaga |-> "notificarPorFinRafaga",
   fallas |-> 0, manejador |-> x.manejador]
Pidiendo(H, c, p, n) == [H EXCEPT ![c].paso = p, ![c].pc = n]
Respondida(H, c, i, e) == [H EXCEPT ![c].paso = "ejecutar", ![c].i = i, ![c].estadoRafaga = e]
ConRafaga(H, c) == [H EXCEPT ![c].paso = "recibirPcb", ![c].manejador = TRUE]
SinCpu(H, c) == [H EXCEPT ![c].paso = "muerta"]

\* The function of all the CPUs, in terms of the one that asks.
LEMMA PidiendoEnTodas ==
  ASSUME NEW H, NEW c \in CPUs, EnFuncion(H), NEW x, x = H[c], NEW p, NEW n
  PROVE  Pidiendo(H, c, p, n) = ConHilo(H, c, CpuTrasPedir(x, p, n))
<1>1. EnFuncion(H) /\ H[c] = x
  OBVIOUS
<1>2. [H EXCEPT ![c].paso = p, ![c].pc = n] = [H EXCEPT ![c] = [x EXCEPT !.paso = p, !.pc = n]]
  BY <1>1 DEF EnFuncion
<1> QED
  BY <1>2 DEF Pidiendo, ConHilo, CpuTrasPedir

\* The same of one that gets its answer.
LEMMA RespondidaEnTodas ==
  ASSUME NEW H, NEW c \in CPUs, EnFuncion(H), NEW x, x = H[c], NEW n, NEW e
  PROVE  Respondida(H, c, n, e) = ConHilo(H, c, CpuTrasRespuesta(x, n, e))
<1>1. EnFuncion(H) /\ H[c] = x
  OBVIOUS
<1>2. [H EXCEPT ![c].paso = "ejecutar", ![c].i = n, ![c].estadoRafaga = e] =
      [H EXCEPT ![c] = [x EXCEPT !.paso = "ejecutar", !.i = n, !.estadoRafaga = e]]
  BY <1>1 DEF EnFuncion
<1> QED
  BY <1>2 DEF Respondida, ConHilo, CpuTrasRespuesta

\* The same of one that ends its burst, or dies.
LEMMA FinEnTodas ==
  ASSUME NEW H, NEW c \in CPUs, EnFuncion(H), NEW x, x = H[c]
  PROVE  /\ ConRafaga(H, c) = ConHilo(H, c, CpuTrasRafaga(x))
         /\ SinCpu(H, c) = ConHilo(H, c, CpuMuerta(x))
<1>1. EnFuncion(H) /\ H[c] = x
  OBVIOUS
<1>2. [H EXCEPT ![c].paso = "recibirPcb", ![c].manejador = TRUE] =
      [H EXCEPT ![c] = [x EXCEPT !.paso = "recibirPcb", !.manejador = TRUE]]
  BY <1>1 DEF EnFuncion
<1>3. [H EXCEPT ![c].paso = "muerta"] = [H EXCEPT ![c] = [x EXCEPT !.paso = "muerta"]]
  BY <1>1 DEF EnFuncion
<1> QED
  BY <1>2, <1>3 DEF ConRafaga, SinCpu, ConHilo, CpuTrasRafaga, CpuMuerta

\* A CPU by its fields.
RecCpu(p, b, n, i, e, f, m) ==
  [paso |-> p, pid |-> b, pc |-> n, i |-> i, estadoRafaga |-> e, fallas |-> f, manejador |-> m]

\* What is seen of one, by its fields.
LEMMA VistaPorCampos ==
  ASSUME NEW x, CpuEntera(x)
  PROVE  CpuVista(x) = RecCpu(IF x.paso = "respuestaValor" THEN "respuesta" ELSE x.paso,
                              x.pid, x.pc, x.i, x.estadoRafaga, x.fallas, x.manejador)
<1>1. x \in [paso : {x.paso}, pid : {x.pid}, pc : {x.pc}, i : {x.i},
             estadoRafaga : {x.estadoRafaga}, fallas : {x.fallas}, manejador : {x.manejador}]
  BY DEF CpuEntera
<1> QED
  BY <1>1 DEF CpuVista, RecCpu

\* Each of these by its fields.
LEMMA CpuPorCampos ==
  ASSUME NEW x, CpuEntera(x), NEW p, NEW n, NEW e
  PROVE  /\ CpuTrasPedir(x, p, n) =
              RecCpu(p, x.pid, n, x.i, x.estadoRafaga, x.fallas, x.manejador)
         /\ CpuTrasRespuesta(x, n, e) =
              RecCpu("ejecutar", x.pid, x.pc, n, e, x.fallas, x.manejador)
         /\ CpuTrasRafaga(x) =
              RecCpu("recibirPcb", x.pid, x.pc, x.i, x.estadoRafaga, x.fallas, TRUE)
         /\ CpuMuerta(x) =
              RecCpu("muerta", x.pid, x.pc, x.i, x.estadoRafaga, x.fallas, x.manejador)
         /\ CpuTrasPcb(x, p, n) =
              RecCpu("ejecutar", p, n, 0, "notificarPorFinRafaga", 0, x.manejador)
<1>1. x = [paso |-> x.paso, pid |-> x.pid, pc |-> x.pc, i |-> x.i,
           estadoRafaga |-> x.estadoRafaga, fallas |-> x.fallas, manejador |-> x.manejador]
  BY DEF CpuEntera
<1>2. PICK A, B, C, D, E, F, G :
        /\ A = {x.paso} /\ B = {x.pid} /\ C = {x.pc} /\ D = {x.i} /\ E = {x.estadoRafaga}
        /\ F = {x.fallas} /\ G = {x.manejador}
  OBVIOUS
<1>3. x \in [paso : A, pid : B, pc : C, i : D, estadoRafaga : E, fallas : F, manejador : G]
  BY <1>1, <1>2
<1>4. CpuTrasPedir(x, p, n) = RecCpu(p, x.pid, n, x.i, x.estadoRafaga, x.fallas, x.manejador)
  <2>1. PICK y : y = [x EXCEPT !.paso = p]
    OBVIOUS
  <2>2. y = [paso |-> p, pid |-> x.pid, pc |-> x.pc, i |-> x.i,
             estadoRafaga |-> x.estadoRafaga, fallas |-> x.fallas, manejador |-> x.manejador]
    BY <1>3, <2>1
  <2>3. y \in [paso : {p}, pid : B, pc : C, i : D, estadoRafaga : E, fallas : F, manejador : G]
    BY <1>2, <2>2
  <2>4. [y EXCEPT !.pc = n] = [paso |-> p, pid |-> y.pid, pc |-> n, i |-> y.i,
             estadoRafaga |-> y.estadoRafaga, fallas |-> y.fallas, manejador |-> y.manejador]
    BY <2>2, <2>3
  <2> QED
    BY <2>1, <2>2, <2>4 DEF CpuTrasPedir, RecCpu
<1>5. CpuTrasRespuesta(x, n, e) = RecCpu("ejecutar", x.pid, x.pc, n, e, x.fallas, x.manejador)
  <2>1. PICK y : y = [x EXCEPT !.paso = "ejecutar"]
    OBVIOUS
  <2>2. y = [paso |-> "ejecutar", pid |-> x.pid, pc |-> x.pc, i |-> x.i,
             estadoRafaga |-> x.estadoRafaga, fallas |-> x.fallas, manejador |-> x.manejador]
    BY <1>3, <2>1
  <2>3. y \in [paso : {"ejecutar"}, pid : B, pc : C, i : D, estadoRafaga : E, fallas : F,
               manejador : G]
    BY <1>2, <2>2
  <2>4. PICK z : z = [y EXCEPT !.i = n]
    OBVIOUS
  <2>5. z = [paso |-> "ejecutar", pid |-> x.pid, pc |-> x.pc, i |-> n,
             estadoRafaga |-> x.estadoRafaga, fallas |-> x.fallas, manejador |-> x.manejador]
    BY <2>2, <2>3, <2>4
  <2>6. z \in [paso : {"ejecutar"}, pid : B, pc : C, i : {n}, estadoRafaga : E, fallas : F,
               manejador : G]
    BY <1>2, <2>5
  <2>7. [z EXCEPT !.estadoRafaga = e] =
          [paso |-> "ejecutar", pid |-> z.pid, pc |-> z.pc, i |-> n,
           estadoRafaga |-> e, fallas |-> z.fallas, manejador |-> z.manejador]
    BY <2>5, <2>6
  <2> QED
    BY <2>1, <2>4, <2>5, <2>7 DEF CpuTrasRespuesta, RecCpu
<1>6. CpuTrasRafaga(x) = RecCpu("recibirPcb", x.pid, x.pc, x.i, x.estadoRafaga, x.fallas, TRUE)
  <2>1. PICK y : y = [x EXCEPT !.paso = "recibirPcb"]
    OBVIOUS
  <2>2. y = [paso |-> "recibirPcb", pid |-> x.pid, pc |-> x.pc, i |-> x.i,
             estadoRafaga |-> x.estadoRafaga, fallas |-> x.fallas, manejador |-> x.manejador]
    BY <1>3, <2>1
  <2>3. y \in [paso : {"recibirPcb"}, pid : B, pc : C, i : D, estadoRafaga : E, fallas : F,
               manejador : G]
    BY <1>2, <2>2
  <2>4. PICK b : b = TRUE
    OBVIOUS
  <2>5. [y EXCEPT !.manejador = b] =
          [paso |-> "recibirPcb", pid |-> y.pid, pc |-> y.pc, i |-> y.i,
           estadoRafaga |-> y.estadoRafaga, fallas |-> y.fallas, manejador |-> b]
    BY <2>2, <2>3
  <2> QED
    BY <2>1, <2>2, <2>4, <2>5 DEF CpuTrasRafaga, RecCpu
<1>7. CpuMuerta(x) = RecCpu("muerta", x.pid, x.pc, x.i, x.estadoRafaga, x.fallas, x.manejador)
  BY <1>3 DEF CpuMuerta, RecCpu
<1>8. CpuTrasPcb(x, p, n) = RecCpu("ejecutar", p, n, 0, "notificarPorFinRafaga", 0, x.manejador)
  BY DEF CpuTrasPcb, RecCpu
<1> QED
  BY <1>4, <1>5, <1>6, <1>7, <1>8

\* The fields of one, and of what is seen of it.
LEMMA CamposDeCpu ==
  ASSUME NEW p, NEW b, NEW n, NEW i, NEW e, NEW f, NEW m, NEW y, y = RecCpu(p, b, n, i, e, f, m)
  PROVE  /\ CpuEntera(y) /\ y.paso = p /\ y.pid = b /\ y.pc = n /\ y.i = i /\ y.estadoRafaga = e
         /\ y.fallas = f /\ y.manejador = m
         /\ CpuVista(y) =
              RecCpu(IF p = "respuestaValor" THEN "respuesta" ELSE p, b, n, i, e, f, m)
<1>1. /\ CpuEntera(y) /\ y.paso = p /\ y.pid = b /\ y.pc = n /\ y.i = i /\ y.estadoRafaga = e
      /\ y.fallas = f /\ y.manejador = m
  BY DEF RecCpu, CpuEntera
<1>2. CpuVista(y) = RecCpu(IF y.paso = "respuestaValor" THEN "respuesta" ELSE y.paso,
                           y.pid, y.pc, y.i, y.estadoRafaga, y.fallas, y.manejador)
  BY <1>1, VistaPorCampos
<1> QED
  BY <1>1, <1>2

\* What is seen of each.
LEMMA CpuTrasVista ==
  ASSUME NEW x, CpuEntera(x), NEW p, NEW n, NEW e
  PROVE  /\ CpuEntera(CpuTrasPedir(x, p, n))
         /\ CpuVista(CpuTrasPedir(x, p, n)) =
              CpuTrasPedir(CpuVista(x), IF p = "respuestaValor" THEN "respuesta" ELSE p, n)
         /\ CpuTrasPedir(x, p, n).paso = p /\ CpuTrasPedir(x, p, n).pc = n
         /\ CpuTrasPedir(x, p, n).pid = x.pid
         /\ CpuEntera(CpuTrasRespuesta(x, n, e))
         /\ CpuVista(CpuTrasRespuesta(x, n, e)) = CpuTrasRespuesta(CpuVista(x), n, e)
         /\ CpuTrasRespuesta(x, n, e).paso = "ejecutar"
         /\ CpuEntera(CpuTrasRafaga(x))
         /\ CpuVista(CpuTrasRafaga(x)) = CpuTrasRafaga(CpuVista(x))
         /\ CpuTrasRafaga(x).paso = "recibirPcb"
         /\ CpuEntera(CpuMuerta(x)) /\ CpuVista(CpuMuerta(x)) = CpuMuerta(CpuVista(x))
         /\ CpuMuerta(x).paso = "muerta"
         /\ CpuEntera(CpuTrasPcb(x, p, n))
         /\ CpuVista(CpuTrasPcb(x, p, n)) = CpuTrasPcb(CpuVista(x), p, n)
         /\ CpuTrasPcb(x, p, n).paso = "ejecutar"
<1>1. PICK q, v, s :
        /\ q = (IF p = "respuestaValor" THEN "respuesta" ELSE p)
        /\ s = (IF x.paso = "respuestaValor" THEN "respuesta" ELSE x.paso)
        /\ v = CpuVista(x)
  OBVIOUS
<1>2. v = RecCpu(s, x.pid, x.pc, x.i, x.estadoRafaga, x.fallas, x.manejador)
  BY <1>1, VistaPorCampos
<1>3. /\ CpuEntera(v) /\ v.pid = x.pid /\ v.pc = x.pc /\ v.i = x.i /\ v.fallas = x.fallas
      /\ v.estadoRafaga = x.estadoRafaga /\ v.manejador = x.manejador
  BY <1>2, CamposDeCpu
<1>4. /\ CpuEntera(CpuTrasPedir(x, p, n)) /\ CpuVista(CpuTrasPedir(x, p, n)) = CpuTrasPedir(v, q, n)
      /\ CpuTrasPedir(x, p, n).paso = p
      /\ CpuTrasPedir(x, p, n).pc = n /\ CpuTrasPedir(x, p, n).pid = x.pid
  <2>1. PICK y : y = CpuTrasPedir(x, p, n)
    OBVIOUS
  <2>2. y = RecCpu(p, x.pid, n, x.i, x.estadoRafaga, x.fallas, x.manejador)
    BY <2>1, CpuPorCampos
  <2>3. /\ CpuEntera(y) /\ y.paso = p /\ y.pid = x.pid /\ y.pc = n
        /\ CpuVista(y) = RecCpu(q, x.pid, n, x.i, x.estadoRafaga, x.fallas, x.manejador)
    BY <1>1, <2>2, CamposDeCpu
  <2>4. CpuTrasPedir(v, q, n) =
          RecCpu(q, v.pid, n, v.i, v.estadoRafaga, v.fallas, v.manejador)
    BY <1>3, CpuPorCampos
  <2> QED
    BY <1>3, <2>1, <2>3, <2>4
<1>5. /\ CpuEntera(CpuTrasRespuesta(x, n, e)) /\ CpuVista(CpuTrasRespuesta(x, n, e)) = CpuTrasRespuesta(v, n, e)
      /\ CpuTrasRespuesta(x, n, e).paso = "ejecutar"
  <2>1. PICK y : y = CpuTrasRespuesta(x, n, e)
    OBVIOUS
  <2>2. y = RecCpu("ejecutar", x.pid, x.pc, n, e, x.fallas, x.manejador)
    BY <2>1, CpuPorCampos
  <2>3. /\ CpuEntera(y) /\ y.paso = "ejecutar" /\ y.pid = x.pid /\ y.pc = x.pc
        /\ CpuVista(y) = RecCpu("ejecutar", x.pid, x.pc, n, e, x.fallas, x.manejador)
    BY <1>1, <2>2, CamposDeCpu
  <2>4. CpuTrasRespuesta(v, n, e) =
          RecCpu("ejecutar", v.pid, v.pc, n, e, v.fallas, v.manejador)
    BY <1>3, CpuPorCampos
  <2> QED
    BY <1>3, <2>1, <2>3, <2>4
<1>6. /\ CpuEntera(CpuTrasRafaga(x)) /\ CpuVista(CpuTrasRafaga(x)) = CpuTrasRafaga(v)
      /\ CpuTrasRafaga(x).paso = "recibirPcb"
  <2>1. PICK y : y = CpuTrasRafaga(x)
    OBVIOUS
  <2>2. PICK b : b = TRUE
    OBVIOUS
  <2>3. y = RecCpu("recibirPcb", x.pid, x.pc, x.i, x.estadoRafaga, x.fallas, b)
    BY <2>1, <2>2, CpuPorCampos
  <2>4. /\ CpuEntera(y) /\ y.paso = "recibirPcb" /\ y.pid = x.pid /\ y.pc = x.pc
        /\ CpuVista(y) = RecCpu("recibirPcb", x.pid, x.pc, x.i, x.estadoRafaga, x.fallas, b)
    BY <1>1, <2>3, CamposDeCpu
  <2>5. CpuTrasRafaga(v) =
          RecCpu("recibirPcb", v.pid, v.pc, v.i, v.estadoRafaga, v.fallas, b)
    BY <1>3, <2>2, CpuPorCampos
  <2> QED
    BY <1>3, <2>1, <2>4, <2>5
<1>7. /\ CpuEntera(CpuMuerta(x)) /\ CpuVista(CpuMuerta(x)) = CpuMuerta(v)
      /\ CpuMuerta(x).paso = "muerta"
  <2>1. PICK y : y = CpuMuerta(x)
    OBVIOUS
  <2>2. y = RecCpu("muerta", x.pid, x.pc, x.i, x.estadoRafaga, x.fallas, x.manejador)
    BY <2>1, CpuPorCampos
  <2>3. /\ CpuEntera(y) /\ y.paso = "muerta" /\ y.pid = x.pid /\ y.pc = x.pc
        /\ CpuVista(y) = RecCpu("muerta", x.pid, x.pc, x.i, x.estadoRafaga, x.fallas, x.manejador)
    BY <1>1, <2>2, CamposDeCpu
  <2>4. CpuMuerta(v) =
          RecCpu("muerta", v.pid, v.pc, v.i, v.estadoRafaga, v.fallas, v.manejador)
    BY <1>3, CpuPorCampos
  <2> QED
    BY <1>3, <2>1, <2>3, <2>4
<1>8. /\ CpuEntera(CpuTrasPcb(x, p, n)) /\ CpuVista(CpuTrasPcb(x, p, n)) = CpuTrasPcb(v, p, n)
      /\ CpuTrasPcb(x, p, n).paso = "ejecutar"
  <2>1. PICK y : y = CpuTrasPcb(x, p, n)
    OBVIOUS
  <2>2. y = RecCpu("ejecutar", p, n, 0, "notificarPorFinRafaga", 0, x.manejador)
    BY <2>1, CpuPorCampos
  <2>3. /\ CpuEntera(y) /\ y.paso = "ejecutar" /\ y.pid = p /\ y.pc = n
        /\ CpuVista(y) = RecCpu("ejecutar", p, n, 0, "notificarPorFinRafaga", 0, x.manejador)
    BY <1>1, <2>2, CamposDeCpu
  <2>4. CpuTrasPcb(v, p, n) =
          RecCpu("ejecutar", p, n, 0, "notificarPorFinRafaga", 0, v.manejador)
    BY <1>3, CpuPorCampos
  <2> QED
    BY <1>3, <2>1, <2>3, <2>4
<1> QED
  BY <1>1, <1>4, <1>5, <1>6, <1>7, <1>8

\* What is seen of the CPUs is whole.
LEMMA CpusEnteras ==
  ASSUME FormaCpus, NEW c \in CPUs
  PROVE  /\ EnFuncion(cpu) /\ CpuEntera(cpu[c]) /\ CpusVistas[c] = CpuVista(cpu[c])
         /\ EnFuncion(CpusVistas) /\ CpuEntera(CpusVistas[c])
<1>1. EnFuncion(cpu) /\ CpuEntera(cpu[c])
  BY DEF FormaCpus, EnFuncion
<1>2. EnFuncion(CpusVistas) /\ CpusVistas[c] = CpuVista(cpu[c])
  BY DEF CpusVistas, EnFuncion
<1>3. PICK x : x = cpu[c]
  OBVIOUS
<1>4. PICK y : y = CpuVista(x)
  OBVIOUS
<1>5. y = RecCpu(IF x.paso = "respuestaValor" THEN "respuesta" ELSE x.paso,
                 x.pid, x.pc, x.i, x.estadoRafaga, x.fallas, x.manejador)
  BY <1>1, <1>3, <1>4, VistaPorCampos
<1>6. CpuEntera(y)
  BY <1>5, CamposDeCpu
<1> QED
  BY <1>1, <1>2, <1>3, <1>4, <1>6

\* A CPU that asks.
LEMMA PidiendoVista ==
  ASSUME FormaCpus, NEW c \in CPUs, NEW p, NEW n, cpu' = Pidiendo(cpu, c, p, n)
  PROVE  /\ CpusVistas' = Pidiendo(CpusVistas, c, IF p = "respuestaValor" THEN "respuesta" ELSE p, n)
         /\ FormaCpus' /\ \A x \in CPUs \ {c} : cpu'[x] = cpu[x]
         /\ cpu'[c].paso = p /\ cpu'[c].pc = n /\ cpu'[c].pid = cpu[c].pid
<1>1. PICK x, y, q : /\ x = cpu[c] /\ y = CpusVistas[c]
                     /\ q = (IF p = "respuestaValor" THEN "respuesta" ELSE p)
  OBVIOUS
<1>2. EnFuncion(cpu) /\ EnFuncion(CpusVistas) /\ CpuEntera(x) /\ CpuEntera(y) /\ y = CpuVista(x)
  BY <1>1, CpusEnteras
<1>3. PICK z : z = CpuTrasPedir(x, p, n)
  OBVIOUS
<1>4. cpu' = ConHilo(cpu, c, z)
  BY <1>1, <1>2, <1>3, PidiendoEnTodas
<1>5. CpuEntera(z) /\ CpuVista(z) = CpuTrasPedir(y, q, n)
      /\ z.paso = p /\ z.pc = n /\ z.pid = x.pid
  BY <1>1, <1>2, <1>3, CpuTrasVista
<1>6. /\ FormaCpus' /\ cpu'[c] = z /\ \A d \in CPUs \ {c} : cpu'[d] = cpu[d]
      /\ CpusVistas' = ConHilo(CpusVistas, c, CpuVista(z))
  BY <1>4, <1>5, CpuCambia
<1>7. Pidiendo(CpusVistas, c, q, n) = ConHilo(CpusVistas, c, CpuTrasPedir(y, q, n))
  <2>1. PICK H : H = CpusVistas
    OBVIOUS
  <2>2. EnFuncion(H) /\ H[c] = y
    BY <1>1, <1>2, <2>1
  <2>3. Pidiendo(H, c, q, n) = ConHilo(H, c, CpuTrasPedir(y, q, n))
    BY <2>2, PidiendoEnTodas
  <2> QED
    BY <2>1, <2>3
<1> QED
  BY <1>1, <1>5, <1>6, <1>7

\* A CPU that gets its answer.
LEMMA RespondidaVista ==
  ASSUME FormaCpus, NEW c \in CPUs, NEW i, NEW e, cpu' = Respondida(cpu, c, i, e)
  PROVE  /\ CpusVistas' = Respondida(CpusVistas, c, i, e)
         /\ FormaCpus' /\ \A x \in CPUs \ {c} : cpu'[x] = cpu[x]
         /\ cpu'[c].paso = "ejecutar"
<1>1. PICK x, y : x = cpu[c] /\ y = CpusVistas[c]
  OBVIOUS
<1>2. EnFuncion(cpu) /\ EnFuncion(CpusVistas) /\ CpuEntera(x) /\ CpuEntera(y) /\ y = CpuVista(x)
  BY <1>1, CpusEnteras
<1>3. PICK z : z = CpuTrasRespuesta(x, i, e)
  OBVIOUS
<1>4. cpu' = ConHilo(cpu, c, z)
  BY <1>1, <1>2, <1>3, RespondidaEnTodas
<1>5. CpuEntera(z) /\ CpuVista(z) = CpuTrasRespuesta(y, i, e) /\ z.paso = "ejecutar"
  BY <1>1, <1>2, <1>3, CpuTrasVista
<1>6. /\ FormaCpus' /\ cpu'[c] = z /\ \A d \in CPUs \ {c} : cpu'[d] = cpu[d]
      /\ CpusVistas' = ConHilo(CpusVistas, c, CpuVista(z))
  BY <1>4, <1>5, CpuCambia
<1>7. Respondida(CpusVistas, c, i, e) = ConHilo(CpusVistas, c, CpuTrasRespuesta(y, i, e))
  <2>1. PICK H : H = CpusVistas
    OBVIOUS
  <2>2. EnFuncion(H) /\ H[c] = y
    BY <1>1, <1>2, <2>1
  <2>3. Respondida(H, c, i, e) = ConHilo(H, c, CpuTrasRespuesta(y, i, e))
    BY <2>2, RespondidaEnTodas
  <2> QED
    BY <2>1, <2>3
<1> QED
  BY <1>1, <1>5, <1>6, <1>7

\* A CPU that ends its burst.
LEMMA RafagaVista ==
  ASSUME FormaCpus, NEW c \in CPUs, cpu' = ConRafaga(cpu, c)
  PROVE  /\ CpusVistas' = ConRafaga(CpusVistas, c)
         /\ FormaCpus' /\ \A x \in CPUs \ {c} : cpu'[x] = cpu[x]
         /\ cpu'[c].paso = "recibirPcb"
<1>1. PICK x, y : x = cpu[c] /\ y = CpusVistas[c]
  OBVIOUS
<1>2. EnFuncion(cpu) /\ EnFuncion(CpusVistas) /\ CpuEntera(x) /\ CpuEntera(y) /\ y = CpuVista(x)
  BY <1>1, CpusEnteras
<1>3. PICK z : z = CpuTrasRafaga(x)
  OBVIOUS
<1>4. cpu' = ConHilo(cpu, c, z)
  BY <1>1, <1>2, <1>3, FinEnTodas
<1>5. CpuEntera(z) /\ CpuVista(z) = CpuTrasRafaga(y) /\ z.paso = "recibirPcb"
  BY <1>1, <1>2, <1>3, CpuTrasVista
<1>6. /\ FormaCpus' /\ cpu'[c] = z /\ \A d \in CPUs \ {c} : cpu'[d] = cpu[d]
      /\ CpusVistas' = ConHilo(CpusVistas, c, CpuVista(z))
  BY <1>4, <1>5, CpuCambia
<1>7. ConRafaga(CpusVistas, c) = ConHilo(CpusVistas, c, CpuTrasRafaga(y))
  BY <1>1, <1>2, FinEnTodas
<1> QED
  BY <1>1, <1>5, <1>6, <1>7

\* A CPU that dies.
LEMMA MuertaVista ==
  ASSUME FormaCpus, NEW c \in CPUs, cpu' = SinCpu(cpu, c)
  PROVE  /\ CpusVistas' = SinCpu(CpusVistas, c)
         /\ FormaCpus' /\ \A x \in CPUs \ {c} : cpu'[x] = cpu[x]
         /\ cpu'[c].paso = "muerta"
<1>1. PICK x, y : x = cpu[c] /\ y = CpusVistas[c]
  OBVIOUS
<1>2. EnFuncion(cpu) /\ EnFuncion(CpusVistas) /\ CpuEntera(x) /\ CpuEntera(y) /\ y = CpuVista(x)
  BY <1>1, CpusEnteras
<1>3. PICK z : z = CpuMuerta(x)
  OBVIOUS
<1>4. cpu' = ConHilo(cpu, c, z)
  BY <1>1, <1>2, <1>3, FinEnTodas
<1>5. CpuEntera(z) /\ CpuVista(z) = CpuMuerta(y) /\ z.paso = "muerta"
  BY <1>1, <1>2, <1>3, CpuTrasVista
<1>6. /\ FormaCpus' /\ cpu'[c] = z /\ \A d \in CPUs \ {c} : cpu'[d] = cpu[d]
      /\ CpusVistas' = ConHilo(CpusVistas, c, CpuVista(z))
  BY <1>4, <1>5, CpuCambia
<1>7. SinCpu(CpusVistas, c) = ConHilo(CpusVistas, c, CpuMuerta(y))
  BY <1>1, <1>2, FinEnTodas
<1> QED
  BY <1>1, <1>5, <1>6, <1>7

\* A CPU that gets a PCB.
LEMMA PcbVista ==
  ASSUME FormaCpus, NEW c \in CPUs, NEW p, NEW n,
         cpu' = ConHilo(cpu, c, CpuTrasPcb(cpu[c], p, n))
  PROVE  /\ CpusVistas' = ConHilo(CpusVistas, c, CpuTrasPcb(CpusVistas[c], p, n))
         /\ FormaCpus' /\ \A x \in CPUs \ {c} : cpu'[x] = cpu[x]
         /\ cpu'[c].paso = "ejecutar"
<1>1. PICK x, y : x = cpu[c] /\ y = CpusVistas[c]
  OBVIOUS
<1>2. CpuEntera(x) /\ y = CpuVista(x)
  BY <1>1, CpusEnteras
<1>3. PICK z : z = CpuTrasPcb(x, p, n)
  OBVIOUS
<1>4. cpu' = ConHilo(cpu, c, z)
  BY <1>1, <1>3
<1>5. CpuEntera(z) /\ CpuVista(z) = CpuTrasPcb(y, p, n) /\ z.paso = "ejecutar"
  BY <1>1, <1>2, <1>3, CpuTrasVista
<1>6. /\ FormaCpus' /\ cpu'[c] = z /\ \A d \in CPUs \ {c} : cpu'[d] = cpu[d]
      /\ CpusVistas' = ConHilo(CpusVistas, c, CpuVista(z))
  BY <1>4, <1>5, CpuCambia
<1> QED
  BY <1>1, <1>5, <1>6

\* What may be seen to be executed next.
LEMMA ProximaLineaVista ==
  ASSUME TextosEnRegla, FormaCpus, NEW c \in CPUs, V!FaseCpu(c), cpu[c].paso = "ejecutar",
         puedeSeguirEjecutando(c)
  PROVE  V!puedeSeguirEjecutando(c) /\ V!ProximaLinea(c) = LineaVista(ProximaLinea(c))
<1>1. /\ CpusVistas[c].paso = "ejecutar" /\ CpusVistas[c].pid = cpu[c].pid
      /\ CpusVistas[c].pc = cpu[c].pc /\ CpusVistas[c].i = cpu[c].i
      /\ CpusVistas[c].estadoRafaga = cpu[c].estadoRafaga
  BY CpuVistaEs
<1>2. cpu[c].i < Quantum /\ cpu[c].estadoRafaga = "notificarPorFinRafaga"
  BY DEF puedeSeguirEjecutando
<1>3. cpu[c].pid \in Programas /\ cpu[c].pc \in 0..V!Final(cpu[c].pid)
      /\ cpu[c].pc < V!Final(cpu[c].pid)
  BY <1>1, <1>2 DEF V!FaseCpu, V!Programas, Programas
<1>4. V!Final(cpu[c].pid) = Termina(cpu[c].pid) /\ Termina(cpu[c].pid) \in Nat
  BY <1>3, CodigoVistoEs DEF V!Final
<1>5. cpu[c].pc + 1 \in 1..Termina(cpu[c].pid)
  BY <1>3, <1>4
<1>6. CodigoVisto[cpu[c].pid][cpu[c].pc + 1] = LineaVista(Codigo[cpu[c].pid][cpu[c].pc + 1])
  BY <1>3, <1>5, CodigoVistoEs
<1> QED
  BY <1>1, <1>2, <1>6 DEF V!puedeSeguirEjecutando, V!ProximaLinea, ProximaLinea

\* A CPU steps; its thread does not.
LEMMA AcordeTrasCpu ==
  ASSUME \A x \in CPUs : Acorde(x), NEW c \in CPUs, UNCHANGED hilo,
         \A x \in CPUs \ {c} : cpu'[x] = cpu[x],
         \A x \in CPUs \ {c} : haciaCpu'[x] = haciaCpu[x] /\ haciaKernel'[x] = haciaKernel[x],
         AcordeHilo(c)', CpuAcorde(c)',
         \A m \in EnCola(haciaKernel'[c]) : PedidoAcorde(c, m)',
         \A m \in EnCola(haciaCpu'[c]) : RespuestaAcorde(c, m)'
  PROVE  \A x \in CPUs : Acorde(x)'
<1>1. ASSUME NEW x \in CPUs, x # c PROVE Acorde(x)'
  BY <1>1, AcordeIgual
<1>2. PICK K, C : K = EnCola(haciaKernel'[c]) /\ C = EnCola(haciaCpu'[c])
  OBVIOUS
<1>3. EnCola(haciaKernel[c])' = K /\ EnCola(haciaCpu[c])' = C
  BY <1>2 DEF EnCola
<1>4. (\A m \in K : PedidoAcorde(c, m)') /\ (\A m \in C : RespuestaAcorde(c, m)')
  BY <1>2
<1>5. Acorde(c)'
  BY <1>3, <1>4 DEF Acorde
<1> QED
  BY <1>1, <1>5

\* The same of one that asks for nothing before or after.
LEMMA AcordeSinPedir ==
  ASSUME \A x \in CPUs : Acorde(x), NEW c \in CPUs, UNCHANGED hilo,
         \A x \in CPUs \ {c} : cpu'[x] = cpu[x],
         \A x \in CPUs \ {c} : haciaCpu'[x] = haciaCpu[x] /\ haciaKernel'[x] = haciaKernel[x],
         cpu[c].paso \notin {"respuesta", "respuestaValor"},
         cpu'[c].paso \notin {"respuesta", "respuestaValor"},
         EnCola(haciaCpu'[c]) \subseteq EnCola(haciaCpu[c]),
         \A m \in EnCola(haciaKernel'[c]) :
            m \in EnCola(haciaKernel[c]) \/ m.op \in DeCpu \ (DeVariable \cup {"consulta"})
  PROVE  \A x \in CPUs : Acorde(x)'
<1>1. ~Leyendo(c) /\ ~Escribiendo(c) /\ ~Leyendo(c)' /\ ~Escribiendo(c)'
  BY DEF Leyendo, Escribiendo
<1>2. AcordeHilo(c)' /\ CpuAcorde(c)'
  BY <1>1 DEF Acorde, AcordeHilo, CpuAcorde
<1>3. PICK K, C : K = EnCola(haciaKernel'[c]) /\ C = EnCola(haciaCpu'[c])
  OBVIOUS
<1>4. ASSUME NEW m \in K PROVE PedidoAcorde(c, m)'
  <2>1. CASE m \in EnCola(haciaKernel[c])
    BY <1>1, <2>1 DEF Acorde, PedidoAcorde
  <2>2. CASE m.op \in DeCpu \ (DeVariable \cup {"consulta"})
    BY <1>1, <2>2 DEF PedidoAcorde, DeVariable
  <2> QED
    BY <1>3, <2>1, <2>2
<1>5. ASSUME NEW m \in C PROVE RespuestaAcorde(c, m)'
  BY <1>1, <1>3, <1>5 DEF Acorde, RespuestaAcorde
<1> QED
  BY <1>2, <1>3, <1>4, <1>5, AcordeTrasCpu

\* Threads that do not step are seen not to.
LEMMA HilosIguales ==
  ASSUME FormaHilos, UNCHANGED hilo
  PROVE  UNCHANGED HilosVistos /\ FormaHilos'
BY DEF HilosVistos, FormaHilos

\* Which message is seen as which.
LEMMA OpVista ==
  ASSUME NEW m
  PROVE  /\ MensajeVisto(m).pid = m.pid /\ MensajeVisto(m).pc = m.pc
         /\ MensajeVisto(m).op = "atendeProceso" <=> m.op = "atendeProceso"
         /\ MensajeVisto(m).op = "terminar" <=> m.op = "terminar"
         /\ MensajeVisto(m).op = "continuar" <=> m.op \in {"continuar", "valorCompartida"}
BY DEF MensajeVisto, Mensaje, DeVariable

\* A CPU gets what it takes for a PCB.
LEMMA RecibirPcbVisto ==
  ASSUME TextosEnRegla, InvVisto, NEW c \in CPUs, RecibirPcb(c), UNCHANGED hilo
  PROVE  V!RecibirPcb(c) /\ UNCHANGED HilosVistos /\ EnAcuerdo'
<1>1. /\ FormaHilos /\ FormaCanales /\ FormaCpus /\ \A x \in CPUs : Acorde(x)
      /\ UNCHANGED HilosVistos /\ FormaHilos'
  BY HilosIguales DEF InvVisto
<1>2. /\ cpu[c].paso = "recibirPcb" /\ haciaCpu[c] # <<>> /\ haciaKernel' = haciaKernel
      /\ haciaCpu' \in {[haciaCpu EXCEPT ![c] = r] : r \in Restos(haciaCpu[c])}
  BY DEF RecibirPcb
<1>3. /\ HaciaCpuVisto[c] # <<>> /\ Head(HaciaCpuVisto[c]) = MensajeVisto(Head(haciaCpu[c]))
      /\ HaciaCpuVisto' \in
           {[HaciaCpuVisto EXCEPT ![c] = r] : r \in V!Restos(HaciaCpuVisto[c])}
      /\ EsCanales(haciaCpu')
      /\ \A x \in CPUs \ {c} : haciaCpu'[x] = haciaCpu[x]
      /\ EnCola(haciaCpu'[c]) \subseteq EnCola(haciaCpu[c])
  BY <1>1, <1>2, RecibeCpuVisto
<1>4. CpusVistas[c].paso = "recibirPcb" /\ HaciaKernelVisto' = HaciaKernelVisto
  BY <1>1, <1>2, CpuVistaEs, VistosLosCanales
<1>5. PICK m, n : m = Head(haciaCpu[c]) /\ n = MensajeVisto(m)
  OBVIOUS
<1>6. n.pid = m.pid /\ n.pc = m.pc /\ (n.op = "atendeProceso" <=> m.op = "atendeProceso")
  BY <1>5, OpVista
<1>7. FormaCanales'
  BY <1>1, <1>2, <1>3 DEF FormaCanales, EsCanales
<1>8. /\ V!RecibirPcb(c) /\ FormaCpus' /\ \A x \in CPUs \ {c} : cpu'[x] = cpu[x]
      /\ cpu'[c].paso \in {"ejecutar", "muerta"}
  <2>1. CASE m.op = "atendeProceso"
    <3>1. cpu' = ConHilo(cpu, c, CpuTrasPcb(cpu[c], m.pid, m.pc)) /\ UNCHANGED conectada
      BY <1>5, <2>1 DEF RecibirPcb, ConHilo, CpuTrasPcb
    <3>2. /\ CpusVistas' = ConHilo(CpusVistas, c, CpuTrasPcb(CpusVistas[c], m.pid, m.pc))
          /\ FormaCpus' /\ \A x \in CPUs \ {c} : cpu'[x] = cpu[x]
          /\ cpu'[c].paso = "ejecutar"
      BY <1>1, <3>1, PcbVista
    <3>3. CpusVistas' = [CpusVistas EXCEPT ![c] =
             [paso |-> "ejecutar", pid |-> n.pid, pc |-> n.pc, i |-> 0,
              estadoRafaga |-> "notificarPorFinRafaga", fallas |-> 0,
              manejador |-> @.manejador]]
      BY <1>6, <3>2 DEF ConHilo, CpuTrasPcb
    <3> QED
      BY <1>2, <1>3, <1>4, <1>5, <1>6, <2>1, <3>1, <3>2, <3>3 DEF V!RecibirPcb
  <2>2. CASE m.op # "atendeProceso"
    <3>1. cpu' = SinCpu(cpu, c) /\ conectada' = [conectada EXCEPT ![c] = FALSE]
      BY <1>5, <2>2 DEF RecibirPcb, SinCpu
    <3>2. /\ CpusVistas' = SinCpu(CpusVistas, c)
          /\ FormaCpus' /\ \A x \in CPUs \ {c} : cpu'[x] = cpu[x]
          /\ cpu'[c].paso = "muerta"
      BY <1>1, <3>1, MuertaVista
    <3>3. CpusVistas' = [CpusVistas EXCEPT ![c].paso = "muerta"]
      BY <3>2 DEF SinCpu
    <3> QED
      BY <1>2, <1>3, <1>4, <1>5, <1>6, <2>2, <3>1, <3>2, <3>3 DEF V!RecibirPcb
  <2> QED
    BY <2>1, <2>2
<1>9. \A m1 \in EnCola(haciaKernel'[c]) :
        m1 \in EnCola(haciaKernel[c]) \/ m1.op \in DeCpu \ (DeVariable \cup {"consulta"})
  BY <1>2
<1>10. \A x \in CPUs : Acorde(x)'
  BY <1>1, <1>2, <1>3, <1>8, <1>9, AcordeSinPedir
<1> QED
  BY <1>1, <1>7, <1>8, <1>10 DEF EnAcuerdo

\* A CPU ends its burst.
LEMMA TerminarRafagaVista ==
  ASSUME TextosEnRegla, InvVisto, NEW c \in CPUs, TerminarRafaga(c), UNCHANGED hilo
  PROVE  V!TerminarRafaga(c) /\ UNCHANGED HilosVistos /\ EnAcuerdo'
<1>1. /\ FormaHilos /\ FormaCanales /\ FormaCpus /\ \A x \in CPUs : Acorde(x)
      /\ UNCHANGED HilosVistos /\ FormaHilos'
  BY HilosIguales DEF InvVisto
<1>2. /\ cpu[c].paso = "ejecutar" /\ ~puedeSeguirEjecutando(c) /\ cpu[c].fallas = 0
      /\ haciaCpu' = haciaCpu /\ conectada' = conectada
      /\ cpu' = ConRafaga(cpu, c)
  BY DEF TerminarRafaga, ConRafaga
<1>3. /\ CpusVistas' = ConRafaga(CpusVistas, c)
      /\ FormaCpus' /\ \A x \in CPUs \ {c} : cpu'[x] = cpu[x]
      /\ cpu'[c].paso = "recibirPcb"
  BY <1>1, <1>2, RafagaVista
<1>4. CpusVistas' = [CpusVistas EXCEPT ![c].paso = "recibirPcb", ![c].manejador = TRUE]
  BY <1>3 DEF ConRafaga
<1>5. HaciaCpuVisto' = HaciaCpuVisto
  BY <1>2, VistosLosCanales
<1>6. /\ CpusVistas[c].paso = "ejecutar" /\ CpusVistas[c].fallas = 0
      /\ CpusVistas[c].estadoRafaga = cpu[c].estadoRafaga /\ CpusVistas[c].i = cpu[c].i
      /\ CpusVistas[c].pid = cpu[c].pid /\ CpusVistas[c].pc = cpu[c].pc
  BY <1>1, <1>2, CpuVistaEs
<1>7. ~V!puedeSeguirEjecutando(c)
  BY <1>2, <1>6 DEF puedeSeguirEjecutando, V!puedeSeguirEjecutando
<1>8. PICK e : e = cpu[c].estadoRafaga
  OBVIOUS
<1>9. CASE e \in {"entradaSalidaKernel", "waitPcbBloqueado", "exception"}
  <2>1. haciaKernel' = haciaKernel
    BY <1>8, <1>9 DEF TerminarRafaga
  <2>2. HaciaKernelVisto' = HaciaKernelVisto
    BY <2>1, VistosLosCanales
  <2>3. V!TerminarRafaga(c)
    BY <1>2, <1>4, <1>5, <1>6, <1>7, <1>8, <1>9, <2>2 DEF V!TerminarRafaga
  <2>4. FormaCanales'
    BY <1>1, <1>2, <2>1 DEF FormaCanales, EsCanales
  <2>5. \A m \in EnCola(haciaKernel'[c]) :
          m \in EnCola(haciaKernel[c]) \/ m.op \in DeCpu \ (DeVariable \cup {"consulta"})
    BY <2>1
  <2>6. \A x \in CPUs \ {c} : haciaCpu'[x] = haciaCpu[x] /\ haciaKernel'[x] = haciaKernel[x]
    BY <1>2, <2>1
  <2>7. \A x \in CPUs : Acorde(x)'
    BY <1>1, <1>2, <1>3, <2>5, <2>6, AcordeSinPedir
  <2> QED
    BY <1>1, <1>3, <2>3, <2>4, <2>7 DEF EnAcuerdo
<1>10. CASE e \in {"notificarPorFinRafaga", "notificarPorFinPrograma"}
  <2>1. PICK m : m = Mensaje(e, SinNombre, cpu[c].pid, cpu[c].pc)
    OBVIOUS
  <2>2. EnviarAKernel(c, m)
    BY <1>8, <1>10, <2>1 DEF TerminarRafaga
  <2>3. e \notin DeVariable \cup {"valorCompartida"} /\ e \in DeCpu \ (DeVariable \cup {"consulta"})
    BY <1>10 DEF DeVariable, DeCpu
  <2>4. MensajeVisto(m) = V!Mensaje(e, SinNombre, cpu[c].pid, cpu[c].pc) /\ m.op = e
    BY <2>1, <2>3, RespuestaVista
  <2>5. /\ V!EnviarAKernel(c, MensajeVisto(m)) /\ EsCanales(haciaKernel')
        /\ \A x \in CPUs \ {c} : haciaKernel'[x] = haciaKernel[x]
        /\ EnCola(haciaKernel'[c]) = EnCola(haciaKernel[c]) \cup {m}
    BY <1>1, <2>2, EnviarAKernelVisto
  <2>6. V!TerminarRafaga(c)
    BY <1>2, <1>4, <1>5, <1>6, <1>7, <1>8, <1>10, <2>4, <2>5
    DEF V!TerminarRafaga, V!SinNombre, SinNombre
  <2>7. FormaCanales'
    BY <1>1, <1>2, <2>5 DEF FormaCanales, EsCanales
  <2>8. \A n \in EnCola(haciaKernel'[c]) :
          n \in EnCola(haciaKernel[c]) \/ n.op \in DeCpu \ (DeVariable \cup {"consulta"})
    BY <2>3, <2>4, <2>5
  <2>9. \A x \in CPUs \ {c} : haciaCpu'[x] = haciaCpu[x] /\ haciaKernel'[x] = haciaKernel[x]
    BY <1>2, <2>5
  <2>10. \A x \in CPUs : Acorde(x)'
    BY <1>1, <1>2, <1>3, <2>8, <2>9, AcordeSinPedir
  <2> QED
    BY <1>1, <1>3, <2>6, <2>7, <2>10 DEF EnAcuerdo
<1> QED
  BY <1>8, <1>9, <1>10 DEF TerminarRafaga

-----------------------------------------------------------------------------
(* Lines. *)

\* A CPU that has executed one more line, ends its burst or has failed.
Avanzada(x, n, i) == [x EXCEPT !.pc = n, !.i = i]
ConEstado(x, e) == [x EXCEPT !.estadoRafaga = e]
ConFallas(x, f) == [x EXCEPT !.fallas = f]

\* Each by its fields.
LEMMA AvanzadaEs ==
  ASSUME NEW x, CpuEntera(x), NEW n, NEW i
  PROVE  Avanzada(x, n, i) = RecCpu(x.paso, x.pid, n, i, x.estadoRafaga, x.fallas, x.manejador)
<1>1. x = [paso |-> x.paso, pid |-> x.pid, pc |-> x.pc, i |-> x.i,
           estadoRafaga |-> x.estadoRafaga, fallas |-> x.fallas, manejador |-> x.manejador]
  BY DEF CpuEntera
<1>2. PICK A, B, C, D, E, F, G :
        /\ A = {x.paso} /\ B = {x.pid} /\ C = {x.pc} /\ D = {x.i} /\ E = {x.estadoRafaga}
        /\ F = {x.fallas} /\ G = {x.manejador}
  OBVIOUS
<1>3. x \in [paso : A, pid : B, pc : C, i : D, estadoRafaga : E, fallas : F, manejador : G]
  BY <1>1, <1>2
<1>4. PICK y : y = [x EXCEPT !.pc = n]
  OBVIOUS
<1>5. y = [paso |-> x.paso, pid |-> x.pid, pc |-> n, i |-> x.i,
           estadoRafaga |-> x.estadoRafaga, fallas |-> x.fallas, manejador |-> x.manejador]
  BY <1>3, <1>4
<1>6. y \in [paso : A, pid : B, pc : {n}, i : D, estadoRafaga : E, fallas : F, manejador : G]
  BY <1>2, <1>5
<1>7. [y EXCEPT !.i = i] = [paso |-> y.paso, pid |-> y.pid, pc |-> n, i |-> i,
           estadoRafaga |-> y.estadoRafaga, fallas |-> y.fallas, manejador |-> y.manejador]
  BY <1>5, <1>6
<1> QED
  BY <1>4, <1>5, <1>7 DEF Avanzada, RecCpu

\* The same.
LEMMA ConEstadoEs ==
  ASSUME NEW x, CpuEntera(x), NEW e
  PROVE  ConEstado(x, e) = RecCpu(x.paso, x.pid, x.pc, x.i, e, x.fallas, x.manejador)
<1>1. x \in [paso : {x.paso}, pid : {x.pid}, pc : {x.pc}, i : {x.i},
             estadoRafaga : {x.estadoRafaga}, fallas : {x.fallas}, manejador : {x.manejador}]
  BY DEF CpuEntera
<1> QED
  BY <1>1 DEF ConEstado, RecCpu

\* The same.
LEMMA ConFallasEs ==
  ASSUME NEW x, CpuEntera(x), NEW f
  PROVE  ConFallas(x, f) = RecCpu(x.paso, x.pid, x.pc, x.i, x.estadoRafaga, f, x.manejador)
<1>1. x \in [paso : {x.paso}, pid : {x.pid}, pc : {x.pc}, i : {x.i},
             estadoRafaga : {x.estadoRafaga}, fallas : {x.fallas}, manejador : {x.manejador}]
  BY DEF CpuEntera
<1> QED
  BY <1>1 DEF ConFallas, RecCpu

\* A CPU that goes on as y and asks for no variable.
LEMMA CpuSigue ==
  ASSUME FormaCpus, NEW c \in CPUs, NEW y, CpuEntera(y), y.paso # "respuestaValor",
         cpu' = ConHilo(cpu, c, y)
  PROVE  /\ FormaCpus' /\ cpu'[c] = y /\ \A x \in CPUs \ {c} : cpu'[x] = cpu[x]
         /\ CpusVistas' = [CpusVistas EXCEPT ![c] = y]
<1>1. CpuVista(y) = y
  BY CpuVistaIgual
<1>2. /\ FormaCpus' /\ cpu'[c] = y /\ \A x \in CPUs \ {c} : cpu'[x] = cpu[x]
      /\ CpusVistas' = ConHilo(CpusVistas, c, CpuVista(y))
  BY CpuCambia
<1> QED
  BY <1>1, <1>2 DEF ConHilo

\* The phase the protocol gives a CPU, as it is seen.
LEMMA FaseCpuVista ==
  ASSUME InvVisto, NEW c \in CPUs
  PROVE  V!FaseCpu(c)
<1>1. V!InvPCP
  BY DEF InvVisto
<1> QED
  BY <1>1 DEF V!InvPCP, V!Protocolo, V!Fase

\* A line that asks for nothing: what is sent, if anything, is no request for a variable.
LEMMA LineaSinPedir ==
  ASSUME FormaHilos, FormaCanales, FormaCpus, \A x \in CPUs : Acorde(x), NEW c \in CPUs,
         UNCHANGED <<hilo, haciaCpu, conectada>>, cpu[c].paso = "ejecutar",
         NEW y, CpuEntera(y), y.paso = "ejecutar", cpu' = ConHilo(cpu, c, y),
         \/ UNCHANGED haciaKernel
         \/ \E op \in DeCpu \ (DeVariable \cup {"consulta"}) : \E n, p, k :
              EnviarAKernel(c, Mensaje(op, n, p, k))
  PROVE  EnAcuerdo'
<1>1. UNCHANGED HilosVistos /\ FormaHilos'
  BY HilosIguales
<1>2. FormaCpus' /\ cpu'[c] = y /\ \A x \in CPUs \ {c} : cpu'[x] = cpu[x]
  BY CpuSigue
<1>3. /\ EsCanales(haciaKernel')
      /\ \A x \in CPUs \ {c} : haciaKernel'[x] = haciaKernel[x]
      /\ \A m \in EnCola(haciaKernel'[c]) :
            m \in EnCola(haciaKernel[c]) \/ m.op \in DeCpu \ (DeVariable \cup {"consulta"})
  <2>1. CASE UNCHANGED haciaKernel
    BY <2>1 DEF FormaCanales, EsCanales
  <2>2. ASSUME NEW op \in DeCpu \ (DeVariable \cup {"consulta"}), NEW n, NEW p, NEW k,
               EnviarAKernel(c, Mensaje(op, n, p, k))
        PROVE  /\ EsCanales(haciaKernel')
               /\ \A x \in CPUs \ {c} : haciaKernel'[x] = haciaKernel[x]
               /\ \A m \in EnCola(haciaKernel'[c]) :
                    m \in EnCola(haciaKernel[c]) \/ m.op \in DeCpu \ (DeVariable \cup {"consulta"})
    <3>1. PICK a : a = Mensaje(op, n, p, k)
      OBVIOUS
    <3>2. a.op = op
      BY <3>1 DEF Mensaje
    <3>3. /\ EsCanales(haciaKernel') /\ \A x \in CPUs \ {c} : haciaKernel'[x] = haciaKernel[x]
          /\ EnCola(haciaKernel'[c]) = EnCola(haciaKernel[c]) \cup {a}
      BY <2>2, <3>1, EnviarAKernelVisto
    <3> QED
      BY <3>2, <3>3
  <2> QED
    BY <2>1, <2>2
<1>4. FormaCanales'
  BY <1>3 DEF FormaCanales, EsCanales
<1>5. /\ \A x \in CPUs \ {c} : haciaCpu'[x] = haciaCpu[x] /\ haciaKernel'[x] = haciaKernel[x]
      /\ EnCola(haciaCpu'[c]) \subseteq EnCola(haciaCpu[c])
  BY <1>3
<1>6. \A x \in CPUs : Acorde(x)'
  BY <1>2, <1>3, <1>5, AcordeSinPedir
<1> QED
  BY <1>1, <1>2, <1>4, <1>6 DEF EnAcuerdo

\* A CPU executes a line that waits for no answer.
LEMMA EjecutarLineaVista ==
  ASSUME TextosEnRegla, InvVisto, NEW c \in CPUs, EjecutarLinea(c), UNCHANGED hilo
  PROVE  V!EjecutarLinea(c) /\ UNCHANGED HilosVistos /\ EnAcuerdo'
<1>1. /\ FormaHilos /\ FormaCanales /\ FormaCpus /\ \A x \in CPUs : Acorde(x)
      /\ UNCHANGED HilosVistos
  BY HilosIguales DEF InvVisto
<1>2. /\ cpu[c].paso = "ejecutar" /\ puedeSeguirEjecutando(c)
      /\ haciaCpu' = haciaCpu /\ conectada' = conectada
  BY DEF EjecutarLinea
<1>3. V!FaseCpu(c)
  BY FaseCpuVista
<1>4. V!puedeSeguirEjecutando(c) /\ V!ProximaLinea(c) = LineaVista(ProximaLinea(c))
  BY <1>1, <1>2, <1>3, ProximaLineaVista
<1>5. PICK l : l = ProximaLinea(c)
  OBVIOUS
<1>6. PICK x : x = cpu[c]
  OBVIOUS
<1>7. PICK y : y = Avanzada(x, x.pc + 1, x.i + 1)
  OBVIOUS
<1>8. CpuEntera(x) /\ CpusVistas[c] = x /\ x.paso = "ejecutar"
  BY <1>1, <1>2, <1>6, CpusEnteras, CpuVistaIgual
<1>9. y = RecCpu(x.paso, x.pid, x.pc + 1, x.i + 1, x.estadoRafaga, x.fallas, x.manejador)
  BY <1>7, <1>8, AvanzadaEs
<1>10. CpuEntera(y) /\ y.paso = "ejecutar" /\ y.pid = x.pid /\ y.pc = x.pc + 1
  BY <1>8, <1>9, CamposDeCpu
<1>11. [cpu[c] EXCEPT !.pc = @ + 1, !.i = @ + 1] = y
  BY <1>6, <1>7, <1>8 DEF Avanzada, CpuEntera
<1>12. [CpusVistas[c] EXCEPT !.pc = @ + 1, !.i = @ + 1] = y
  BY <1>7, <1>8 DEF Avanzada, CpuEntera
<1>13. HaciaCpuVisto' = HaciaCpuVisto
  BY <1>2, VistosLosCanales
<1>14. l.op \in {"calculo", "fin", "io"}
  BY <1>5 DEF EjecutarLinea
<1>15. V!ProximaLinea(c) = l
  BY <1>4, <1>5, <1>14 DEF LineaVista
<1>16. CASE l.op = "calculo"
  <2>1. cpu' = ConHilo(cpu, c, y) /\ haciaKernel' = haciaKernel
    BY <1>5, <1>11, <1>16 DEF EjecutarLinea, ConHilo
  <2>2. CpusVistas' = [CpusVistas EXCEPT ![c] = y]
    BY <1>1, <1>10, <2>1, CpuSigue
  <2>3. HaciaKernelVisto' = HaciaKernelVisto
    BY <2>1, VistosLosCanales
  <2>4. V!EjecutarLinea(c)
    BY <1>2, <1>4, <1>8, <1>12, <1>13, <1>15, <1>16, <2>2, <2>3 DEF V!EjecutarLinea
  <2>5. EnAcuerdo'
    BY <1>1, <1>2, <1>10, <2>1, LineaSinPedir
  <2> QED
    BY <1>1, <2>4, <2>5
<1>17. CASE l.op = "fin"
  <2>1. PICK z : z = ConEstado(y, "notificarPorFinPrograma")
    OBVIOUS
  <2>2. z = RecCpu(y.paso, y.pid, y.pc, y.i, "notificarPorFinPrograma", y.fallas, y.manejador)
    BY <1>10, <2>1, ConEstadoEs
  <2>3. CpuEntera(z) /\ z.paso = "ejecutar"
    BY <1>10, <2>2, CamposDeCpu
  <2>4. z = [y EXCEPT !.estadoRafaga = "notificarPorFinPrograma"]
    BY <2>1 DEF ConEstado
  <2>5. cpu' = ConHilo(cpu, c, z) /\ haciaKernel' = haciaKernel
    BY <1>5, <1>11, <1>17, <2>4 DEF EjecutarLinea, ConHilo
  <2>6. CpusVistas' = [CpusVistas EXCEPT ![c] = z]
    BY <1>1, <2>3, <2>5, CpuSigue
  <2>7. HaciaKernelVisto' = HaciaKernelVisto
    BY <2>5, VistosLosCanales
  <2>8. V!EjecutarLinea(c)
    BY <1>2, <1>4, <1>8, <1>12, <1>13, <1>15, <1>17, <2>4, <2>6, <2>7 DEF V!EjecutarLinea
  <2>9. EnAcuerdo'
    BY <1>1, <1>2, <2>3, <2>5, LineaSinPedir
  <2> QED
    BY <1>1, <2>8, <2>9
<1>18. CASE l.op = "io"
  <2>1. PICK z : z = ConEstado(y, "entradaSalidaKernel")
    OBVIOUS
  <2>2. z = RecCpu(y.paso, y.pid, y.pc, y.i, "entradaSalidaKernel", y.fallas, y.manejador)
    BY <1>10, <2>1, ConEstadoEs
  <2>3. CpuEntera(z) /\ z.paso = "ejecutar"
    BY <1>10, <2>2, CamposDeCpu
  <2>4. z = [y EXCEPT !.estadoRafaga = "entradaSalidaKernel"]
    BY <2>1 DEF ConEstado
  <2>5. PICK op, m : op = "entradaSalidaKernel" /\ m = Mensaje(op, l.nombre, y.pid, y.pc)
    OBVIOUS
  <2>6. cpu' = ConHilo(cpu, c, z) /\ EnviarAKernel(c, m)
    BY <1>5, <1>11, <1>18, <2>4, <2>5 DEF EjecutarLinea, ConHilo
  <2>7. CpusVistas' = [CpusVistas EXCEPT ![c] = z]
    BY <1>1, <2>3, <2>6, CpuSigue
  <2>8. op \notin DeVariable \cup {"valorCompartida"} /\ op \in DeCpu \ (DeVariable \cup {"consulta"})
    BY <2>5 DEF DeVariable, DeCpu
  <2>9. MensajeVisto(m) = V!Mensaje(op, l.nombre, y.pid, y.pc)
    BY <2>5, <2>8, RespuestaVista
  <2>10. V!EnviarAKernel(c, MensajeVisto(m))
    BY <1>1, <2>6, EnviarAKernelVisto
  <2>11. V!EjecutarLinea(c)
    <3>1. PICK t : t = <<y.pid, y.pc>>
      OBVIOUS
    <3>2. t[1] = y.pid /\ t[2] = y.pc
      BY <3>1
    <3>3. V!EnviarAKernel(c, V!Mensaje("entradaSalidaKernel", l.nombre, t[1], t[2]))
      BY <2>5, <2>9, <2>10, <3>2
    <3>4. CpusVistas' = [CpusVistas EXCEPT ![c] = [y EXCEPT !.estadoRafaga = "entradaSalidaKernel"]]
      BY <2>4, <2>7
    <3>5. CpusVistas[c].paso = "ejecutar"
      BY <1>8
    <3> HIDE DEF V!EjecutarLinea
    <3>6. LET k == V!ProximaLinea(c)
              siguiente == [CpusVistas[c] EXCEPT !.pc = @ + 1, !.i = @ + 1]
              pcb1 == <<siguiente.pid, siguiente.pc>>
          IN  /\ k.op = "io"
              /\ CpusVistas' = [CpusVistas EXCEPT ![c] =
                   [siguiente EXCEPT !.estadoRafaga = "entradaSalidaKernel"]]
              /\ V!EnviarAKernel(c, V!Mensaje("entradaSalidaKernel", k.nombre, pcb1[1], pcb1[2]))
      BY <1>12, <1>15, <1>18, <3>1, <3>3, <3>4
    <3> QED
      BY <1>2, <1>4, <1>13, <3>5, <3>6 DEF V!EjecutarLinea
  <2>12. \E o \in DeCpu \ (DeVariable \cup {"consulta"}) : \E n, p, k :
           EnviarAKernel(c, Mensaje(o, n, p, k))
    BY <2>5, <2>6, <2>8
  <2>13. EnAcuerdo'
    BY <1>1, <1>2, <2>3, <2>6, <2>12, LineaSinPedir
  <2> QED
    BY <1>1, <2>11, <2>13
<1> QED
  BY <1>14, <1>16, <1>17, <1>18

\* A CPU whose line the UMV rejects.
LEMMA FallarVisto ==
  ASSUME TextosEnRegla, InvVisto, NEW c \in CPUs, Fallar(c), UNCHANGED hilo
  PROVE  V!Fallar(c) /\ UNCHANGED HilosVistos /\ EnAcuerdo'
<1>1. /\ FormaHilos /\ FormaCanales /\ FormaCpus /\ \A x \in CPUs : Acorde(x)
      /\ UNCHANGED HilosVistos
  BY HilosIguales DEF InvVisto
<1>2. V!FaseCpu(c)
  BY FaseCpuVista
<1>3. cpu[c].fallas = 0
  BY <1>1, <1>2, CpuVistaEs DEF V!FaseCpu
<1>4. PICK x : x = cpu[c]
  OBVIOUS
<1>5. PICK l : l = ProximaLinea(c)
  OBVIOUS
<1>6. PICK m : m = Mensaje("exception", SinNombre, Nadie, 0)
  OBVIOUS
<1>7. PICK f : f = l.fallas - 1
  OBVIOUS
<1>8. ~(cpu[c].fallas > 0)
  BY <1>3
<1>9. /\ cpu[c].paso = "ejecutar" /\ puedeSeguirEjecutando(c) /\ l.op = "falla"
      /\ cpu' = [cpu EXCEPT ![c] =
           [cpu[c] EXCEPT !.pc = @ + 1, !.i = @ + 1, !.estadoRafaga = "exception", !.fallas = f]]
      /\ EnviarAKernel(c, m) /\ haciaCpu' = haciaCpu /\ conectada' = conectada
  BY <1>5, <1>6, <1>7, <1>8 DEF Fallar
<1>10. V!puedeSeguirEjecutando(c) /\ V!ProximaLinea(c) = LineaVista(ProximaLinea(c))
  BY <1>1, <1>2, <1>9, ProximaLineaVista
<1>11. V!ProximaLinea(c) = l
  BY <1>5, <1>9, <1>10 DEF LineaVista
<1>12. CpuEntera(x) /\ CpusVistas[c] = x /\ x.paso = "ejecutar"
  BY <1>1, <1>4, <1>9, CpusEnteras, CpuVistaIgual
<1>13. PICK y : y = Avanzada(x, x.pc + 1, x.i + 1)
  OBVIOUS
<1>14. y = RecCpu(x.paso, x.pid, x.pc + 1, x.i + 1, x.estadoRafaga, x.fallas, x.manejador)
  BY <1>12, <1>13, AvanzadaEs
<1>15. CpuEntera(y) /\ y.paso = "ejecutar"
  BY <1>12, <1>14, CamposDeCpu
<1>16. PICK z : z = ConEstado(y, "exception")
  OBVIOUS
<1>17. z = RecCpu(y.paso, y.pid, y.pc, y.i, "exception", y.fallas, y.manejador)
  BY <1>15, <1>16, ConEstadoEs
<1>18. CpuEntera(z) /\ z.paso = "ejecutar"
  BY <1>15, <1>17, CamposDeCpu
<1>19. PICK w : w = ConFallas(z, f)
  OBVIOUS
<1>20. w = RecCpu(z.paso, z.pid, z.pc, z.i, z.estadoRafaga, f, z.manejador)
  BY <1>18, <1>19, ConFallasEs
<1>21. CpuEntera(w) /\ w.paso = "ejecutar"
  BY <1>18, <1>20, CamposDeCpu
<1>22. [x EXCEPT !.pc = @ + 1, !.i = @ + 1, !.estadoRafaga = "exception", !.fallas = f] = w
  BY <1>12, <1>13, <1>16, <1>19 DEF Avanzada, ConEstado, ConFallas, CpuEntera
<1>23. cpu' = ConHilo(cpu, c, w)
  BY <1>4, <1>9, <1>22 DEF ConHilo
<1>24. CpusVistas' = [CpusVistas EXCEPT ![c] = w]
  BY <1>1, <1>21, <1>23, CpuSigue
<1>25. CpusVistas' = [CpusVistas EXCEPT ![c] =
         [CpusVistas[c] EXCEPT !.pc = @ + 1, !.i = @ + 1, !.estadoRafaga = "exception",
                               !.fallas = V!ProximaLinea(c).fallas - 1]]
  BY <1>7, <1>11, <1>12, <1>22, <1>24
<1>26. "exception" \notin DeVariable \cup {"valorCompartida"}
       /\ "exception" \in DeCpu \ (DeVariable \cup {"consulta"})
  BY DEF DeVariable, DeCpu
<1>27. MensajeVisto(m) = V!Mensaje("exception", SinNombre, Nadie, 0)
  BY <1>6, <1>26, RespuestaVista
<1>28. V!EnviarAKernel(c, MensajeVisto(m))
  BY <1>1, <1>9, EnviarAKernelVisto
<1>29. HaciaCpuVisto' = HaciaCpuVisto
  BY <1>9, VistosLosCanales
<1>30. V!Fallar(c)
  BY <1>9, <1>10, <1>11, <1>12, <1>25, <1>27, <1>28, <1>29
  DEF V!Fallar, V!SinNombre, SinNombre, V!Nadie, Nadie
<1>31. \E o \in DeCpu \ (DeVariable \cup {"consulta"}) : \E n, p, k :
         EnviarAKernel(c, Mensaje(o, n, p, k))
  BY <1>6, <1>9, <1>26
<1>32. EnAcuerdo'
  BY <1>1, <1>9, <1>21, <1>23, <1>31, LineaSinPedir
<1> QED
  BY <1>1, <1>30, <1>32

\* A channel seen empty is.
LEMMA CanalVacio ==
  ASSUME NEW s, EsCanal(s)
  PROVE  CanalVisto(s) = <<>> <=> s = <<>>
<1>1. PICK S : s \in Seq(S)
  BY DEF EsCanal
<1>2. PICK T : CanalVisto(s) \in Seq(T) /\ Len(CanalVisto(s)) = Len(s) /\ Len(s) \in Nat
  BY <1>1, CanalVistoEs
<1>3. PICK t : t = CanalVisto(s)
  OBVIOUS
<1>4. (t = <<>> <=> Len(t) = 0) /\ (s = <<>> <=> Len(s) = 0)
  BY <1>1, <1>2, <1>3, EmptySeq
<1> QED
  BY <1>2, <1>3, <1>4

\* A CPU that has asked, and its thread: they agree on what.
LEMMA AcordeTrasPedir ==
  ASSUME FormaHilos, FormaCanales, FormaCpus, \A x \in CPUs : Acorde(x), NEW c \in CPUs,
         UNCHANGED <<hilo, haciaCpu, conectada>>, cpu[c].paso = "ejecutar",
         NEW p \in {"respuesta", "respuestaValor"}, NEW l, l = ProximaLinea(c),
         cpu' = Pidiendo(cpu, c, p, cpu[c].pc + 1), NEW m, EnviarAKernel(c, m), m.op \in DeCpu,
         p = "respuesta" => l.op \notin {"leer", "escribir"},
         p = "respuestaValor" => l.op \in {"leer", "escribir"} /\ haciaCpu[c] = <<>>,
         m.op = "obtenerValorVarCompartida" => p = "respuestaValor" /\ l.op = "leer",
         m.op = "asignarValorVarCompartida" => p = "respuestaValor" /\ l.op = "escribir",
         m.op = "consulta" => p = "respuesta"
  PROVE  EnAcuerdo'
<1>1. UNCHANGED HilosVistos /\ FormaHilos'
  BY HilosIguales
<1>2. /\ FormaCpus' /\ \A x \in CPUs \ {c} : cpu'[x] = cpu[x]
      /\ cpu'[c].paso = p /\ cpu'[c].pc = cpu[c].pc + 1 /\ cpu'[c].pid = cpu[c].pid
  BY PidiendoVista
<1>3. LineaActual(c)' = l
  BY <1>2 DEF LineaActual, ProximaLinea
<1>4. /\ ~Leyendo(c) /\ ~Escribiendo(c)
      /\ Leyendo(c)' <=> p = "respuestaValor" /\ l.op = "leer"
      /\ Escribiendo(c)' <=> p = "respuestaValor" /\ l.op = "escribir"
  BY <1>2, <1>3 DEF Leyendo, Escribiendo
<1>5. CpuAcorde(c)'
  BY <1>2, <1>3 DEF CpuAcorde
<1>6. AcordeHilo(c)'
  BY <1>4 DEF Acorde, AcordeHilo
<1>7. /\ EsCanales(haciaKernel') /\ \A x \in CPUs \ {c} : haciaKernel'[x] = haciaKernel[x]
      /\ EnCola(haciaKernel'[c]) = EnCola(haciaKernel[c]) \cup {m}
  BY EnviarAKernelVisto
<1>8. FormaCanales'
  BY <1>7 DEF FormaCanales, EsCanales
<1>9. PICK K, C : K = EnCola(haciaKernel'[c]) /\ C = EnCola(haciaCpu'[c])
  OBVIOUS
<1>10. ASSUME NEW n \in K PROVE PedidoAcorde(c, n)'
  <2>1. CASE n \in EnCola(haciaKernel[c])
    BY <1>4, <2>1 DEF Acorde, PedidoAcorde
  <2>2. CASE n = m
    BY <1>2, <1>4, <2>2 DEF PedidoAcorde
  <2> QED
    BY <1>7, <1>9, <2>1, <2>2
<1>11. ASSUME NEW n \in C PROVE RespuestaAcorde(c, n)'
  <2>1. n \in EnCola(haciaCpu[c])
    BY <1>9
  <2>2. p = "respuestaValor" => FALSE
    <3>1. EnCola(<<>>) = {}
      BY DEF EnCola
    <3> QED
      BY <2>1, <3>1
  <2> QED
    BY <1>4, <2>1, <2>2 DEF Acorde, RespuestaAcorde
<1>12. \A x \in CPUs \ {c} : haciaCpu'[x] = haciaCpu[x] /\ haciaKernel'[x] = haciaKernel[x]
  BY <1>7
<1>13. \A x \in CPUs : Acorde(x)'
  BY <1>2, <1>5, <1>6, <1>9, <1>10, <1>11, <1>12, AcordeTrasCpu
<1> QED
  BY <1>1, <1>2, <1>8, <1>13 DEF EnAcuerdo

\* A CPU makes a call that waits for the kernel.
LEMMA PedirVisto ==
  ASSUME TextosEnRegla, InvVisto, NEW c \in CPUs, Pedir(c), UNCHANGED hilo
  PROVE  V!Pedir(c) /\ UNCHANGED HilosVistos /\ EnAcuerdo'
<1>1. /\ FormaHilos /\ FormaCanales /\ FormaCpus /\ \A x \in CPUs : Acorde(x)
      /\ UNCHANGED HilosVistos
  BY HilosIguales DEF InvVisto
<1>2. V!FaseCpu(c)
  BY FaseCpuVista
<1>3. PICK n : n = cpu[c].pc + 1
  OBVIOUS
<1>4. /\ cpu[c].paso = "ejecutar" /\ puedeSeguirEjecutando(c)
      /\ haciaCpu' = haciaCpu /\ conectada' = conectada
      /\ cpu' = Pidiendo(cpu, c, "respuesta", n)
  BY <1>3 DEF Pedir, Pidiendo
<1>5. V!puedeSeguirEjecutando(c) /\ V!ProximaLinea(c) = LineaVista(ProximaLinea(c))
  BY <1>1, <1>2, <1>4, ProximaLineaVista
<1>6. PICK l : l = ProximaLinea(c)
  OBVIOUS
<1>7. PICK op, p, k :
        /\ EnviarAKernel(c, Mensaje(op, l.nombre, p, k))
        /\ \/ l.op = "consulta" /\ op = "consulta" /\ p = Nadie /\ k = 0
           \/ l.op = "wait" /\ op = "waitKernel" /\ p = cpu[c].pid /\ k = n
           \/ l.op = "signal" /\ op = "signalKernel" /\ p = Nadie /\ k = 0
  BY <1>3, <1>6 DEF Pedir
<1>8. V!ProximaLinea(c) = l
  BY <1>5, <1>6, <1>7 DEF LineaVista
<1>9. op \in {"consulta", "waitKernel", "signalKernel"}
  BY <1>7
<1>10. op \notin DeVariable \cup {"valorCompartida"} /\ op \in DeCpu
  BY <1>9 DEF DeVariable, DeCpu
<1>11. PICK m : m = Mensaje(op, l.nombre, p, k)
  OBVIOUS
<1>12. MensajeVisto(m) = V!Mensaje(op, l.nombre, p, k) /\ m.op = op
  BY <1>10, <1>11, RespuestaVista
<1>13. V!EnviarAKernel(c, V!Mensaje(op, l.nombre, p, k))
  BY <1>1, <1>7, <1>11, <1>12, EnviarAKernelVisto
<1>14. /\ CpusVistas[c].paso = "ejecutar" /\ CpusVistas[c].pc = cpu[c].pc
       /\ CpusVistas[c].pid = cpu[c].pid
  BY <1>1, <1>4, CpuVistaEs
<1>15. CpusVistas' = Pidiendo(CpusVistas, c, "respuesta", n)
  BY <1>1, <1>4, PidiendoVista
<1>16. CpusVistas' = [CpusVistas EXCEPT ![c].paso = "respuesta", ![c].pc = n]
  BY <1>15 DEF Pidiendo
<1>17. HaciaCpuVisto' = HaciaCpuVisto
  BY <1>4, VistosLosCanales
<1>18. \/ /\ l.op = "consulta"
          /\ V!EnviarAKernel(c, V!Mensaje("consulta", l.nombre, V!Nadie, 0))
       \/ /\ l.op = "wait"
          /\ V!EnviarAKernel(c, V!Mensaje("waitKernel", l.nombre, CpusVistas[c].pid, n))
       \/ /\ l.op = "signal"
          /\ V!EnviarAKernel(c, V!Mensaje("signalKernel", l.nombre, V!Nadie, 0))
  BY <1>7, <1>13, <1>14 DEF V!Nadie, Nadie
<1>19. V!Pedir(c)
  BY <1>3, <1>4, <1>5, <1>8, <1>14, <1>16, <1>17, <1>18 DEF V!Pedir
<1>20. EnAcuerdo'
  <2>1. EnviarAKernel(c, m) /\ m.op \in DeCpu
    BY <1>7, <1>10, <1>11, <1>12
  <2>2. /\ l.op \notin {"leer", "escribir"}
        /\ m.op # "obtenerValorVarCompartida" /\ m.op # "asignarValorVarCompartida"
    BY <1>7, <1>9, <1>12
  <2>3. cpu' = Pidiendo(cpu, c, "respuesta", cpu[c].pc + 1)
    BY <1>3, <1>4
  <2> QED
    BY <1>1, <1>4, <1>6, <2>1, <2>2, <2>3, AcordeTrasPedir
<1> QED
  BY <1>1, <1>19, <1>20

\* The assumptions on the other constants hold of what is seen: it is the same constants.
LEMMA DemasParametros == V!ParametrosConexion /\ V!ParametrosPCP
BY ParametrosConexion, ParametrosPCP DEF ParametrosConexion, ParametrosPCP,
   V!ParametrosConexion, V!ParametrosPCP, IsFiniteSet, V!IsFiniteSet, SinNombre, V!SinNombre

\* What the protocol gives a CPU that executes, and one that has an answer to read.
LEMMA DeCpuVisto ==
  ASSUME TextosEnRegla, InvVisto, NEW c \in CPUs
  PROVE  /\ CpusVistas[c].paso = "ejecutar" /\ ~V!Ociosa(c) /\ CpusVistas[c].estadoRafaga \in
              {"notificarPorFinRafaga", "notificarPorFinPrograma"} => V!Corre(c)
         /\ CpusVistas[c].paso = "respuesta" /\ HaciaCpuVisto[c] # <<>> =>
              \/ HilosVistos[c].paso \in V!PasosLibres /\ V!TrasWait(c)
                   /\ HaciaKernelVisto[c] = <<>>
              \/ HilosVistos[c].paso = "recibir" /\ V!Dada(c) /\ V!EnWait(c)
              \/ HilosVistos[c].paso = "recibir" /\ V!Contestada(c)
<1>1. V!InvPCP
  BY DEF InvVisto
<1>2. V!ParametrosCpu
  BY ParametrosVistos
<1> QED
  BY <1>1, <1>2, DemasParametros, V!DeCpuEnRegla

\* A CPU asks for a variable: seen as a request that changes nothing, or as a signal of
\* no semaphore.
LEMMA PedirCompartidaVisto ==
  ASSUME TextosEnRegla, InvVisto, NEW c \in CPUs, PedirCompartida(c), UNCHANGED hilo
  PROVE  V!Pedir(c) /\ UNCHANGED HilosVistos /\ EnAcuerdo'
<1>1. /\ FormaHilos /\ FormaCanales /\ FormaCpus /\ \A x \in CPUs : Acorde(x)
      /\ UNCHANGED HilosVistos
  BY HilosIguales DEF InvVisto
<1>2. V!FaseCpu(c)
  BY FaseCpuVista
<1>3. PICK n : n = cpu[c].pc + 1
  OBVIOUS
<1>4. /\ cpu[c].paso = "ejecutar" /\ puedeSeguirEjecutando(c)
      /\ haciaCpu' = haciaCpu /\ conectada' = conectada
      /\ cpu' = Pidiendo(cpu, c, "respuestaValor", n)
  BY <1>3 DEF PedirCompartida, Pidiendo
<1>5. V!puedeSeguirEjecutando(c) /\ V!ProximaLinea(c) = LineaVista(ProximaLinea(c))
  BY <1>1, <1>2, <1>4, ProximaLineaVista
<1>6. PICK l : l = ProximaLinea(c)
  OBVIOUS
<1>7. PICK m : /\ EnviarAKernel(c, m) /\ m.nombre = l.nombre /\ m.pid = Nadie /\ m.pc = 0
               /\ \/ l.op = "leer" /\ m.op = "obtenerValorVarCompartida"
                  \/ l.op = "escribir" /\ m.op = "asignarValorVarCompartida"
  <2>1. CASE l.op = "leer"
    <3>1. PICK m : m = Mensaje("obtenerValorVarCompartida", l.nombre, Nadie, 0)
      OBVIOUS
    <3>2. EnviarAKernel(c, m)
      BY <1>6, <2>1, <3>1 DEF PedirCompartida
    <3> QED
      BY <2>1, <3>1, <3>2 DEF Mensaje
  <2>2. CASE l.op = "escribir"
    <3>1. PICK m : m = MensajeValor("asignarValorVarCompartida", l.nombre, propia[cpu[c].pid] + 1)
      OBVIOUS
    <3>2. EnviarAKernel(c, m)
      BY <1>6, <2>2, <3>1 DEF PedirCompartida
    <3> QED
      BY <2>2, <3>1, <3>2 DEF MensajeValor
  <2> QED
    BY <1>6, <2>1, <2>2 DEF PedirCompartida
<1>8. MensajeVisto(m) = IF l.nombre \in VariablesCompartidas
                        THEN V!Mensaje("consulta", l.nombre, V!Nadie, 0)
                        ELSE V!Mensaje("signalKernel", V!SinNombre, V!Nadie, 0)
  BY <1>7 DEF MensajeVisto, DeVariable, Mensaje, V!Mensaje, V!Nadie, Nadie, V!SinNombre, SinNombre
<1>9. V!EnviarAKernel(c, MensajeVisto(m))
  BY <1>1, <1>7, EnviarAKernelVisto
<1>10. PICK k : k = V!ProximaLinea(c)
  OBVIOUS
<1>11. /\ l.nombre \in VariablesCompartidas => k.op = "consulta" /\ k.nombre = l.nombre
       /\ l.nombre \notin VariablesCompartidas => k.op = "signal" /\ k.nombre = SinNombre
  BY <1>5, <1>6, <1>7, <1>10 DEF LineaVista, Linea
<1>12. CpusVistas[c].paso = "ejecutar" /\ CpusVistas[c].pc = cpu[c].pc
  BY <1>1, <1>4, CpuVistaEs
<1>13. CpusVistas' = Pidiendo(CpusVistas, c, "respuesta", n)
  BY <1>1, <1>4, PidiendoVista
<1>14. CpusVistas' = [CpusVistas EXCEPT ![c].paso = "respuesta", ![c].pc = n]
  BY <1>13 DEF Pidiendo
<1>15. HaciaCpuVisto' = HaciaCpuVisto
  BY <1>4, VistosLosCanales
<1>16. \/ /\ k.op = "consulta"
          /\ V!EnviarAKernel(c, V!Mensaje("consulta", k.nombre, V!Nadie, 0))
       \/ /\ k.op = "signal"
          /\ V!EnviarAKernel(c, V!Mensaje("signalKernel", k.nombre, V!Nadie, 0))
  BY <1>8, <1>9, <1>11 DEF V!SinNombre, SinNombre
<1>17. V!Pedir(c)
  BY <1>3, <1>4, <1>5, <1>10, <1>12, <1>14, <1>15, <1>16 DEF V!Pedir
<1>18. haciaCpu[c] = <<>>
  <2>2. /\ CpusVistas[c].paso = "ejecutar" /\ CpusVistas[c].estadoRafaga = "notificarPorFinRafaga"
    BY <1>5, <1>12 DEF V!puedeSeguirEjecutando
  <2>3. ~V!Ociosa(c)
    BY <2>2 DEF V!Ociosa
  <2>4. V!Corre(c)
    BY <2>2, <2>3, DeCpuVisto
  <2>5. CanalVisto(haciaCpu[c]) = <<>>
    BY <2>4 DEF V!Corre, HaciaCpuVisto
  <2>6. EsCanal(haciaCpu[c])
    BY <1>1 DEF FormaCanales, EsCanales
  <2> QED
    BY <2>5, <2>6, CanalVacio
<1>19. EnAcuerdo'
  <2>1. m.op \in DeCpu /\ m.op # "consulta" /\ l.op \in {"leer", "escribir"}
    BY <1>7 DEF DeCpu
  <2>2. cpu' = Pidiendo(cpu, c, "respuestaValor", cpu[c].pc + 1)
    BY <1>3, <1>4
  <2>3. /\ m.op = "obtenerValorVarCompartida" => l.op = "leer"
        /\ m.op = "asignarValorVarCompartida" => l.op = "escribir"
    BY <1>7
  <2> QED
    BY <1>1, <1>4, <1>6, <1>7, <1>18, <2>1, <2>2, <2>3, AcordeTrasPedir
<1> QED
  BY <1>1, <1>17, <1>19

\* While a CPU has an answer to read its thread has no request to handle.
LEMMA SinPedidos ==
  ASSUME TextosEnRegla, InvVisto, NEW c \in CPUs, haciaCpu[c] # <<>>,
         cpu[c].paso \in {"respuesta", "respuestaValor"}
  PROVE  /\ haciaKernel[c] = <<>> /\ hilo[c].paso \notin DosPasos \cup {"consulta"}
         /\ CpusVistas[c].paso = "respuesta" /\ HaciaCpuVisto[c] # <<>>
<1>1. FormaHilos /\ FormaCanales /\ FormaCpus
  BY DEF InvVisto
<1>2. CpusVistas[c].paso = "respuesta"
  BY <1>1, CpuVistaEs
<1>3. EsCanal(haciaCpu[c]) /\ EsCanal(haciaKernel[c])
  BY <1>1 DEF FormaCanales, EsCanales
<1>4. HaciaCpuVisto[c] # <<>>
  BY <1>3, CanalVacio DEF HaciaCpuVisto
<1>5. HaciaKernelVisto[c] = <<>> /\ HilosVistos[c].paso \in V!PasosLibres \cup {"recibir"}
  BY <1>2, <1>4, DeCpuVisto DEF V!Dada, V!Contestada
<1>6. haciaKernel[c] = <<>>
  BY <1>3, <1>5, CanalVacio DEF HaciaKernelVisto
<1>7. HilosVistos[c].paso \notin {"consulta", "signalInexistente"}
  BY <1>5 DEF V!PasosLibres
<1>8. HilosVistos[c] = HiloVisto(hilo[c])
  BY <1>1, VistosEnteros
<1>9. hilo[c].paso \notin DosPasos
  BY <1>7, <1>8 DEF HiloVisto, DosPasos
<1>10. HilosVistos[c].paso = hilo[c].paso
  BY <1>1, <1>9, HiloDeSiempre
<1> QED
  BY <1>2, <1>4, <1>6, <1>7, <1>9, <1>10

\* A CPU that has read its answer, and its thread: they agree, if no answer is left
\* that only a read of a variable waits for.
LEMMA AcordeTrasResponder ==
  ASSUME TextosEnRegla, InvVisto, NEW c \in CPUs, haciaCpu[c] # <<>>,
         UNCHANGED <<hilo, haciaKernel>>, cpu[c].paso \in {"respuesta", "respuestaValor"},
         NEW i, NEW e, cpu' = Respondida(cpu, c, i, e), EsCanales(haciaCpu'),
         \A x \in CPUs \ {c} : haciaCpu'[x] = haciaCpu[x],
         \A m \in EnCola(haciaCpu'[c]) : m.op # "valorCompartida"
  PROVE  EnAcuerdo'
<1>1. /\ FormaHilos /\ FormaCanales /\ FormaCpus /\ \A x \in CPUs : Acorde(x)
      /\ FormaHilos'
  BY HilosIguales DEF InvVisto
<1>2. /\ FormaCpus' /\ \A x \in CPUs \ {c} : cpu'[x] = cpu[x]
      /\ cpu'[c].paso = "ejecutar"
  BY <1>1, RespondidaVista
<1>3. haciaKernel[c] = <<>> /\ hilo[c].paso \notin DosPasos \cup {"consulta"}
  BY SinPedidos
<1>4. ~Leyendo(c)' /\ CpuAcorde(c)'
  BY <1>2 DEF Leyendo, CpuAcorde
<1>5. AcordeHilo(c)'
  BY <1>3 DEF AcordeHilo, DosPasos
<1>6. FormaCanales'
  BY <1>1 DEF FormaCanales, EsCanales
<1>7. PICK K, C : K = EnCola(haciaKernel'[c]) /\ C = EnCola(haciaCpu'[c])
  OBVIOUS
<1>8. K = {}
  BY <1>3, <1>7 DEF EnCola
<1>9. ASSUME NEW n \in C PROVE RespuestaAcorde(c, n)'
  BY <1>4, <1>7 DEF RespuestaAcorde
<1>10. \A x \in CPUs \ {c} : haciaCpu'[x] = haciaCpu[x] /\ haciaKernel'[x] = haciaKernel[x]
  OBVIOUS
<1>11. \A x \in CPUs : Acorde(x)'
  BY <1>1, <1>2, <1>4, <1>5, <1>7, <1>8, <1>9, <1>10, AcordeTrasCpu
<1> QED
  BY <1>1, <1>2, <1>6, <1>11 DEF EnAcuerdo

\* A CPU reads the answer to a call without a value.
LEMMA RecibirRespuestaVista ==
  ASSUME TextosEnRegla, InvVisto, NEW c \in CPUs, RecibirRespuesta(c), UNCHANGED hilo
  PROVE  V!RecibirRespuesta(c) /\ UNCHANGED HilosVistos /\ EnAcuerdo'
<1>1. /\ FormaHilos /\ FormaCanales /\ FormaCpus /\ Acorde(c)
      /\ UNCHANGED HilosVistos
  BY HilosIguales DEF InvVisto
<1>2. PICK l, m, i, e :
        l = LineaActual(c) /\ m = Head(haciaCpu[c]) /\ i = cpu[c].i + 1 /\ e = EstadoTras(l.op, m.op)
  OBVIOUS
<1>3. /\ cpu[c].paso = "respuesta" /\ haciaCpu[c] # <<>>
      /\ haciaCpu' \in {[haciaCpu EXCEPT ![c] = r] : r \in Restos(haciaCpu[c])}
      /\ haciaKernel' = haciaKernel /\ conectada' = conectada
      /\ cpu' = Respondida(cpu, c, i, e)
  BY <1>2 DEF RecibirRespuesta, Respondida
<1>4. /\ HaciaCpuVisto[c] # <<>> /\ Head(HaciaCpuVisto[c]) = MensajeVisto(m)
      /\ HaciaCpuVisto' \in
           {[HaciaCpuVisto EXCEPT ![c] = r] : r \in V!Restos(HaciaCpuVisto[c])}
      /\ EsCanales(haciaCpu')
      /\ \A x \in CPUs \ {c} : haciaCpu'[x] = haciaCpu[x]
      /\ EnCola(haciaCpu'[c]) \subseteq EnCola(haciaCpu[c])
  BY <1>1, <1>2, <1>3, RecibeCpuVisto
<1>5. l.op \notin {"leer", "escribir"}
  BY <1>1, <1>2, <1>3 DEF Acorde, CpuAcorde
<1>6. V!LineaActual(c) = l
  <2>1. V!FaseCpu(c)
    BY FaseCpuVista
  <2>2. V!LineaActual(c) = LineaVista(l)
    BY <1>1, <1>2, <1>3, <2>1, LineaActualVista
  <2> QED
    BY <1>5, <2>2 DEF LineaVista
<1>7. \A n \in EnCola(haciaCpu[c]) : n.op # "valorCompartida"
  BY <1>1, <1>3 DEF Acorde, RespuestaAcorde, Leyendo
<1>8. m.op # "valorCompartida"
  BY <1>1, <1>2, <1>3, <1>7, RecibeCpuVisto
<1>9. V!EstadoTras(l.op, MensajeVisto(m).op) = e
  <2>1. /\ MensajeVisto(m).op = "terminar" <=> m.op = "terminar"
        /\ MensajeVisto(m).op = "continuar" <=> m.op = "continuar"
    BY <1>8, OpVista
  <2> QED
    BY <1>2, <2>1 DEF V!EstadoTras, EstadoTras
<1>10. CpusVistas[c].paso = "respuesta" /\ CpusVistas[c].i = cpu[c].i
  BY <1>1, <1>3, CpuVistaEs
<1>11. CpusVistas' = Respondida(CpusVistas, c, i, e)
  BY <1>1, <1>3, RespondidaVista
<1>12. V!RecibirRespuesta(c)
  <2>1. HaciaKernelVisto' = HaciaKernelVisto
    BY <1>3, VistosLosCanales
  <2>2. CpusVistas' = [CpusVistas EXCEPT ![c].paso = "ejecutar", ![c].i = i, ![c].estadoRafaga = e]
    BY <1>11 DEF Respondida
  <2> QED
    BY <1>2, <1>3, <1>4, <1>6, <1>9, <1>10, <2>1, <2>2 DEF V!RecibirRespuesta
<1>13. EnAcuerdo'
  BY <1>3, <1>4, <1>7, AcordeTrasResponder
<1> QED
  BY <1>1, <1>12, <1>13

\* A CPU reads the answer to a request for a variable, which is seen as the answer to
\* the call the request is seen as: it was not refused if and only if it is the one
\* expected.
LEMMA RecibirValorVisto ==
  ASSUME TextosEnRegla, InvVisto, NEW c \in CPUs, RecibirValor(c), UNCHANGED hilo
  PROVE  V!RecibirRespuesta(c) /\ UNCHANGED HilosVistos /\ EnAcuerdo'
<1>1. /\ FormaHilos /\ FormaCanales /\ FormaCpus /\ Acorde(c)
      /\ UNCHANGED HilosVistos
  BY HilosIguales DEF InvVisto
<1>2. PICK l, m, esperada :
        /\ l = LineaActual(c) /\ m = Head(haciaCpu[c])
        /\ esperada = IF l.op = "leer" THEN "valorCompartida" ELSE "continuar"
  OBVIOUS
<1>3. PICK i, e :
        /\ i = cpu[c].i + 1
        /\ e = IF m.op = esperada THEN cpu[c].estadoRafaga ELSE "notificarPorFinPrograma"
  OBVIOUS
<1>4. /\ cpu[c].paso = "respuestaValor" /\ haciaCpu[c] # <<>>
      /\ haciaCpu' \in {[haciaCpu EXCEPT ![c] = r] : r \in Restos(haciaCpu[c])}
      /\ haciaKernel' = haciaKernel /\ conectada' = conectada
      /\ cpu' = Respondida(cpu, c, i, e)
  BY <1>2, <1>3 DEF RecibirValor, Respondida
<1>5. /\ HaciaCpuVisto[c] # <<>> /\ Head(HaciaCpuVisto[c]) = MensajeVisto(m)
      /\ HaciaCpuVisto' \in
           {[HaciaCpuVisto EXCEPT ![c] = r] : r \in V!Restos(HaciaCpuVisto[c])}
      /\ EsCanales(haciaCpu')
      /\ \A x \in CPUs \ {c} : haciaCpu'[x] = haciaCpu[x]
      /\ m \in EnCola(haciaCpu[c])
  BY <1>1, <1>2, <1>4, RecibeCpuVisto
<1>6. l.op \in {"leer", "escribir"}
  BY <1>1, <1>2, <1>4 DEF Acorde, CpuAcorde
<1>7. V!FaseCpu(c)
  BY FaseCpuVista
<1>8. PICK k : k = V!LineaActual(c) /\ k.op \in {"consulta", "signal"}
  <2>1. V!LineaActual(c) = LineaVista(l)
    BY <1>1, <1>2, <1>4, <1>7, LineaActualVista
  <2> QED
    BY <1>6, <2>1 DEF LineaVista, Linea
<1>9. /\ CpusVistas[c].paso = "respuesta" /\ CpusVistas[c].i = cpu[c].i
      /\ CpusVistas[c].estadoRafaga = cpu[c].estadoRafaga
  BY <1>1, <1>4, CpuVistaEs
<1>10. V!Contestada(c)
  BY <1>5, <1>8, <1>9, DeCpuVisto DEF V!TrasWait, V!EnWait
<1>11. PICK op \in {"continuar", "terminar"} : HaciaCpuVisto[c] = <<V!Respuesta(op)>>
  BY <1>10 DEF V!Contestada
<1>12. MensajeVisto(m).op = op
  BY <1>5, <1>11 DEF V!Respuesta, V!Mensaje
<1>13. m.op = esperada <=> op = "continuar"
  <2>1. RespuestaAcorde(c, m)
    BY <1>1, <1>5 DEF Acorde
  <2>2. Leyendo(c) <=> l.op = "leer"
    BY <1>2, <1>4 DEF Leyendo
  <2>3. op = "continuar" <=> m.op \in {"continuar", "valorCompartida"}
    BY <1>12, OpVista
  <2> QED
    BY <1>2, <2>1, <2>2, <2>3 DEF RespuestaAcorde
<1>14. cpu[c].estadoRafaga = "notificarPorFinRafaga"
  BY <1>7, <1>9 DEF V!FaseCpu
<1>15. V!EstadoTras(k.op, MensajeVisto(m).op) = e
  BY <1>3, <1>8, <1>11, <1>12, <1>13, <1>14 DEF V!EstadoTras
<1>16. CpusVistas' = Respondida(CpusVistas, c, i, e)
  BY <1>1, <1>4, RespondidaVista
<1>17. V!RecibirRespuesta(c)
  <2>1. HaciaKernelVisto' = HaciaKernelVisto
    BY <1>4, VistosLosCanales
  <2>2. CpusVistas' = [CpusVistas EXCEPT ![c].paso = "ejecutar", ![c].i = i, ![c].estadoRafaga = e]
    BY <1>16 DEF Respondida
  <2> QED
    BY <1>3, <1>4, <1>5, <1>8, <1>9, <1>15, <2>1, <2>2 DEF V!RecibirRespuesta
<1>18. haciaCpu'[c] = <<>>
  <2>1. PICK a, s : a = V!Respuesta(op) /\ s = HaciaCpuVisto[c]
    OBVIOUS
  <2>2. s \in Seq({a}) /\ Len(s) = 1
    BY <1>11, <2>1
  <2>3. \A r \in V!Restos(s) : r = <<>>
    BY <2>2, DemasParametros, ParametrosVistos, V!RestosDeUno
  <2>4. PICK r : r \in V!Restos(s) /\ HaciaCpuVisto' = [HaciaCpuVisto EXCEPT ![c] = r]
    BY <1>5, <2>1
  <2>5. HaciaCpuVisto'[c] = <<>>
    BY <2>3, <2>4 DEF HaciaCpuVisto
  <2>6. PICK G : G = haciaCpu'
    OBVIOUS
  <2>7. HaciaCpuVisto'[c] = CanalVisto(G[c])
    BY <2>6, VistosLosCanales DEF CanalesVistos
  <2>8. EsCanal(G[c])
    BY <1>5, <2>6 DEF EsCanales
  <2> QED
    BY <2>5, <2>6, <2>7, <2>8, CanalVacio
<1>19. EnCola(haciaCpu'[c]) = {}
  BY <1>18 DEF EnCola
<1>20. EnAcuerdo'
  BY <1>4, <1>5, <1>19, AcordeTrasResponder
<1> QED
  BY <1>1, <1>17, <1>20

-----------------------------------------------------------------------------
(* The steps. *)

\* What is seen of a step of a CPU is a step of the CPU.
LEMMA RafagaDeCpuVista ==
  ASSUME TextosEnRegla, InvVisto, NEW c \in CPUs, UNCHANGED hilo,
         EjecutarRafaga(c) \/ PedirCompartida(c) \/ RecibirValor(c)
  PROVE  V!EjecutarRafaga(c) /\ UNCHANGED HilosVistos /\ EnAcuerdo'
<1>1. CASE RecibirPcb(c)
  BY <1>1, RecibirPcbVisto DEF V!EjecutarRafaga
<1>2. CASE EjecutarLinea(c)
  BY <1>2, EjecutarLineaVista DEF V!EjecutarRafaga
<1>3. CASE Pedir(c)
  BY <1>3, PedirVisto DEF V!EjecutarRafaga
<1>4. CASE RecibirRespuesta(c)
  BY <1>4, RecibirRespuestaVista DEF V!EjecutarRafaga
<1>5. CASE Fallar(c)
  BY <1>5, FallarVisto DEF V!EjecutarRafaga
<1>6. CASE TerminarRafaga(c)
  BY <1>6, TerminarRafagaVista DEF V!EjecutarRafaga
<1>7. CASE PedirCompartida(c)
  BY <1>7, PedirCompartidaVisto DEF V!EjecutarRafaga
<1>8. CASE RecibirValor(c)
  BY <1>8, RecibirValorVisto DEF V!EjecutarRafaga
<1> QED
  BY <1>1, <1>2, <1>3, <1>4, <1>5, <1>6, <1>7, <1>8 DEF EjecutarRafaga

\* The rest of the kernel does not depend on what is seen.
LEMMA KernelQuieto ==
  ASSUME UNCHANGED varsPCP, UNCHANGED HilosVistos
  PROVE  UNCHANGED V!varsPCP
BY DEF varsPCP, V!varsPCP, plp, V!plp, ready, V!ready, colas, V!colas

\* What is seen of a step is a step of PCPCpu.
LEMMA SiguienteVisto ==
  ASSUME TextosEnRegla, InvVisto, NextCompartidas
  PROVE  /\ \/ V!NextPCP /\ UNCHANGED CpusVistas
            \/ V!NextCpu /\ UNCHANGED V!varsPCP
         /\ EnAcuerdo'
<1>1. CASE NextPCP /\ UNCHANGED cpu
  <2>1. V!NextPCP /\ UNCHANGED CpusVistas /\ EnAcuerdo'
    BY <1>1, KernelVisto
  <2> QED
    BY <2>1
<1>2. ASSUME NEW c \in CPUs, UNCHANGED varsPCP,
             EjecutarRafaga(c) \/ PedirCompartida(c) \/ RecibirValor(c)
      PROVE  V!NextCpu /\ UNCHANGED V!varsPCP /\ EnAcuerdo'
  <2>1. UNCHANGED hilo
    BY <1>2 DEF varsPCP
  <2>2. V!EjecutarRafaga(c) /\ UNCHANGED HilosVistos /\ EnAcuerdo'
    BY <1>2, <2>1, RafagaDeCpuVista
  <2> QED
    BY <1>2, <2>2, KernelQuieto DEF V!NextCpu
<1>3. CASE NextCpu /\ UNCHANGED varsPCP
  <2>1. PICK c \in CPUs : EjecutarRafaga(c) \/ signal_handler(c)
    BY <1>3 DEF NextCpu
  <2>2. ~signal_handler(c)
    BY DEF signal_handler, TextosEnRegla
  <2> QED
    BY <1>2, <1>3, <2>1, <2>2
<1>4. ASSUME NEW c \in CPUs, Atender(c)
      PROVE  V!NextPCP /\ UNCHANGED CpusVistas /\ EnAcuerdo'
  <2>1. CASE pfnControladorConexion(c) /\ UNCHANGED <<cpu, compartidas>>
    BY <2>1, HiloDeCpuVisto DEF V!NextPCP
  <2>2. CASE /\ vivo
             /\ obtenerVariable(c) \/ asignarVariable(c)
             /\ UNCHANGED <<haciaKernel, conectada, cpu, propia>>
    BY <2>2, AtenderVariableVisto DEF V!NextPCP
  <2> QED
    BY <1>4, <2>1, <2>2 DEF Atender
<1>5. ASSUME NEW c \in CPUs, Ejecutar(c)
      PROVE  V!NextCpu /\ UNCHANGED V!varsPCP /\ EnAcuerdo'
  BY <1>2, <1>5 DEF Ejecutar
<1> QED
  BY <1>1, <1>3, <1>4, <1>5 DEF NextCompartidas, Next

\* What is seen of a step in which nothing moves.
LEMMA QuietoVisto ==
  ASSUME EnAcuerdo, UNCHANGED varsCompartidas
  PROVE  UNCHANGED V!vars /\ EnAcuerdo'
<1>1. UNCHANGED varsPCP /\ UNCHANGED <<hilo, haciaCpu, haciaKernel, conectada, cpu>>
  BY DEF varsCompartidas, vars, varsPCP, canales
<1>2. /\ UNCHANGED <<HilosVistos, HaciaCpuVisto, HaciaKernelVisto, CpusVistas>>
      /\ EnAcuerdo'
  BY <1>1, VistosIguales
<1>3. UNCHANGED V!varsPCP
  BY <1>1, <1>2, KernelQuieto
<1> QED
  BY <1>1, <1>2, <1>3 DEF V!vars, V!canales

-----------------------------------------------------------------------------
(* The initial states. *)

\* At the start every channel is empty,
LEMMA InicioDeCanales ==
  ASSUME InitConexion
  PROVE  /\ V!InitConexion /\ FormaCanales
         /\ \A c \in CPUs : haciaCpu[c] = <<>> /\ haciaKernel[c] = <<>>
<1>1. /\ haciaCpu = [c \in CPUs |-> <<>>] /\ haciaKernel = [c \in CPUs |-> <<>>]
      /\ conectada = [c \in CPUs |-> TRUE]
  BY DEF InitConexion
<1>2. PICK s : s = <<>>
  OBVIOUS
<1>3. EsCanal(s) /\ CanalVisto(s) = <<>>
  <2>1. s \in Seq({})
    BY <1>2
  <2>2. EsCanal(s)
    BY <2>1 DEF EsCanal
  <2> QED
    BY <1>2, <2>2, CanalVacio
<1>4. FormaCanales
  BY <1>1, <1>2, <1>3 DEF FormaCanales, EsCanales
<1>5. HaciaCpuVisto = [c \in CPUs |-> <<>>] /\ HaciaKernelVisto = [c \in CPUs |-> <<>>]
  BY <1>1, <1>2, <1>3 DEF HaciaCpuVisto, HaciaKernelVisto
<1> QED
  BY <1>1, <1>4, <1>5 DEF V!InitConexion

\* no thread has a request,
LEMMA InicioDeHilos ==
  ASSUME InitPCP
  PROVE  V!InitPCP /\ FormaHilos /\ \A c \in CPUs : hilo[c].paso = "esperar"
<1>1. PICK h : h = Hilo("esperar", Nadie)
  OBVIOUS
<1>2. hilo = [c \in CPUs |-> h]
  BY <1>1 DEF InitPCP
<1>3. /\ h.paso = "esperar" /\ h.prog = Nadie /\ h.leido = 0 /\ h.otro = Nadie
      /\ h.msg = Respuesta("ninguno") /\ h.msg.op = "ninguno"
  BY <1>1 DEF Hilo, Respuesta, Mensaje
<1>4. HiloEntero(h)
  <2>1. h = [paso |-> h.paso, prog |-> h.prog, msg |-> h.msg, leido |-> h.leido,
             otro |-> h.otro]
    BY <1>1 DEF Hilo
  <2> QED
    BY <1>3, <2>1 DEF HiloEntero
<1>5. MensajeVisto(Respuesta("ninguno")) = V!Respuesta("ninguno")
  BY RespuestaVista DEF DeVariable
<1>6. HiloVisto(h) = V!Hilo("esperar", Nadie)
  BY <1>3, <1>5 DEF HiloVisto, V!Hilo, V!Nadie, Nadie
<1>7. HilosVistos = [c \in CPUs |-> V!Hilo("esperar", V!Nadie)]
  BY <1>2, <1>6 DEF HilosVistos, V!Nadie, Nadie
<1>8. FormaHilos
  BY <1>2, <1>4 DEF FormaHilos
<1> QED
  BY <1>2, <1>3, <1>7, <1>8
     DEF InitPCP, V!InitPCP, V!Programas, Programas, V!Nadie, Nadie

\* and every CPU waits for a PCB.
LEMMA InicioDeCpus ==
  ASSUME InitCpu
  PROVE  V!InitCpu /\ FormaCpus /\ \A c \in CPUs : cpu[c].paso = "recibirPcb"
<1>1. PICK b, x :
        b = FALSE /\ x = RecCpu("recibirPcb", Nadie, 0, 0, "notificarPorFinRafaga", 0, b)
  OBVIOUS
<1>2. cpu = [c \in CPUs |-> x]
  BY <1>1 DEF InitCpu, RecCpu
<1>3. CpuEntera(x) /\ x.paso = "recibirPcb"
  BY <1>1, CamposDeCpu
<1>4. CpuVista(x) = x
  BY <1>3, CpuVistaIgual
<1>5. CpusVistas = [c \in CPUs |-> x]
  BY <1>2, <1>4 DEF CpusVistas
<1>6. FormaCpus
  BY <1>2, <1>3 DEF FormaCpus
<1> QED
  BY <1>1, <1>2, <1>3, <1>5, <1>6 DEF V!InitCpu, RecCpu, V!Nadie, Nadie

\* The initial states are seen as those of PCPCpu.
LEMMA InicioVisto ==
  ASSUME TextosEnRegla, InitCompartidas
  PROVE  V!Init /\ InvVisto
<1>1. InitConexion /\ InitPCP /\ InitCpu
  BY DEF InitCompartidas, Init
<1>2. /\ V!InitConexion /\ FormaCanales
      /\ \A c \in CPUs : haciaCpu[c] = <<>> /\ haciaKernel[c] = <<>>
  BY <1>1, InicioDeCanales
<1>3. V!InitPCP /\ FormaHilos /\ \A c \in CPUs : hilo[c].paso = "esperar"
  BY <1>1, InicioDeHilos
<1>4. V!InitCpu /\ FormaCpus /\ \A c \in CPUs : cpu[c].paso = "recibirPcb"
  BY <1>1, InicioDeCpus
<1>5. V!Init
  BY <1>2, <1>3, <1>4 DEF V!Init
<1>6. V!InvPCP
  BY <1>5, ProgramasVistos, ParametrosVistos, DemasParametros, V!InvInicial
<1>7. \A c \in CPUs : Acorde(c)
  <2> SUFFICES ASSUME NEW c \in CPUs PROVE Acorde(c)
    OBVIOUS
  <2>1. EnCola(haciaCpu[c]) = {} /\ EnCola(haciaKernel[c]) = {}
    BY <1>2 DEF EnCola
  <2>2. AcordeHilo(c) /\ CpuAcorde(c)
    BY <1>3, <1>4 DEF AcordeHilo, CpuAcorde
  <2> QED
    BY <2>1, <2>2 DEF Acorde
<1> QED
  BY <1>2, <1>3, <1>4, <1>5, <1>6, <1>7 DEF InvVisto

-----------------------------------------------------------------------------
(* The theorems. *)

\* What is seen of a step is a step of PCPCpu or none.
LEMMA PasoSinValores ==
  ASSUME TextosEnRegla, InvVisto, [NextCompartidas]_varsCompartidas
  PROVE  [V!Next]_(V!vars) /\ InvVisto'
<1> USE ProgramasVistos, ParametrosVistos, DemasParametros
<1>1. V!InvPCP /\ EnAcuerdo
  BY DEF InvVisto, EnAcuerdo
<1>2. CASE UNCHANGED varsCompartidas
  <2>1. UNCHANGED V!vars /\ EnAcuerdo'
    BY <1>1, <1>2, QuietoVisto
  <2>2. V!InvPCP'
    BY <1>1, <2>1, V!QuietoPuesto
  <2> QED
    BY <2>1, <2>2 DEF InvVisto, EnAcuerdo
<1>3. CASE NextCompartidas
  <2>1. /\ \/ V!NextPCP /\ UNCHANGED CpusVistas
           \/ V!NextCpu /\ UNCHANGED V!varsPCP
        /\ EnAcuerdo'
    BY <1>3, SiguienteVisto
  <2>2. V!Next
    BY <2>1 DEF V!Next
  <2>3. V!InvPCP'
    BY <1>1, <2>1, V!KernelPuesto, V!CpuPuesta
  <2> QED
    BY <2>1, <2>2, <2>3 DEF InvVisto, EnAcuerdo
<1> QED
  BY <1>2, <1>3

\* Threads, channels and CPUs agree on who has asked for a variable, and without the
\* values they keep what those of PCPCpu do.
THEOREM InvarianteVisto == TextosEnRegla /\ SpecCompartidas => []InvVisto
<1> SUFFICES ASSUME TextosEnRegla PROVE SpecCompartidas => []InvVisto
  OBVIOUS
<1>1. InitCompartidas => InvVisto
  BY InicioVisto
<1>2. InvVisto /\ [NextCompartidas]_varsCompartidas => InvVisto'
  BY PasoSinValores
<1> QED
  BY <1>1, <1>2, PTL DEF SpecCompartidas

\* What is seen is a behaviour of PCPCpu.
LEMMA VistoEsPCPCpu == TextosEnRegla /\ SpecCompartidas => V!Spec
<1> SUFFICES ASSUME TextosEnRegla PROVE SpecCompartidas => V!Spec
  OBVIOUS
<1>1. InitCompartidas => V!Init
  BY InicioVisto
<1>2. InvVisto /\ [NextCompartidas]_varsCompartidas => [V!Next]_(V!vars)
  BY PasoSinValores
<1>3. SpecCompartidas => []InvVisto
  BY InvarianteVisto
<1> QED
  BY <1>1, <1>2, <1>3, PTL DEF SpecCompartidas, V!Spec

\* PCPCpu taken with its proofs or without them is the same.
LEMMA VistoOSinValores == V!Spec <=> SinValores!Spec
BY DEF V!Programas, SinValores!Programas, V!Nadie, SinValores!Nadie, V!SinNombre,
   SinValores!SinNombre, V!canales, SinValores!canales, V!Mensaje, SinValores!Mensaje,
   V!Respuesta, SinValores!Respuesta, V!InitConexion, SinValores!InitConexion,
   V!EnviarACpu, SinValores!EnviarACpu, V!EnviarAKernel, SinValores!EnviarAKernel,
   V!Restos, SinValores!Restos, V!ready, SinValores!ready, V!plp, SinValores!plp, V!colas,
   SinValores!colas, V!varsPCP, SinValores!varsPCP, V!Hilo, SinValores!Hilo, V!InitPCP,
   SinValores!InitPCP, V!Seguir, SinValores!Seguir, V!Volver, SinValores!Volver,
   V!Encolar, SinValores!Encolar, V!EnExec, SinValores!EnExec, V!Sin, SinValores!Sin,
   V!PcbDe, SinValores!PcbDe, V!NullEn, SinValores!NullEn, V!PonerEnReady,
   SinValores!PonerEnReady, V!PostProductor, SinValores!PostProductor, V!EsperarReady,
   SinValores!EsperarReady, V!SacarReady, SinValores!SacarReady, V!CargarExec,
   SinValores!CargarExec, V!Responder, SinValores!Responder, V!EnviarPcb,
   SinValores!EnviarPcb, V!PasoPara, SinValores!PasoPara, V!RecibirMensaje,
   SinValores!RecibirMensaje, V!RecibirFin, SinValores!RecibirFin, V!RespuestasConsulta,
   SinValores!RespuestasConsulta, V!Consulta, SinValores!Consulta, V!WaitInexistente,
   SinValores!WaitInexistente, V!WaitLeer, SinValores!WaitLeer, V!WaitEscribir,
   SinValores!WaitEscribir, V!WaitProbar, SinValores!WaitProbar, V!SacarSiEsta,
   SinValores!SacarSiEsta, V!WaitSacar, SinValores!WaitSacar, V!WaitEncolar,
   SinValores!WaitEncolar, V!WaitBloquear, SinValores!WaitBloquear, V!SignalInexistente,
   SinValores!SignalInexistente, V!SignalLeer, SinValores!SignalLeer, V!SignalEscribir,
   SinValores!SignalEscribir, V!SignalProbar, SinValores!SignalProbar, V!SignalSacar,
   SinValores!SignalSacar, V!SignalReady, SinValores!SignalReady, V!SignalPost,
   SinValores!SignalPost, V!SignalResponder, SinValores!SignalResponder, V!IoPcb,
   SinValores!IoPcb, V!IoEncolar, SinValores!IoEncolar, V!IoSacar, SinValores!IoSacar,
   V!IoPost, SinValores!IoPost, V!RecargarSacar, SinValores!RecargarSacar,
   V!RecargarReady, SinValores!RecargarReady, V!RecargarPost, SinValores!RecargarPost,
   V!ExitSacar, SinValores!ExitSacar, V!ExitAgregar, SinValores!ExitAgregar,
   V!DispEsperar, SinValores!DispEsperar, V!DispSacar, SinValores!DispSacar, V!DispReady,
   SinValores!DispReady, V!DispPost, SinValores!DispPost, V!Recibir, SinValores!Recibir,
   V!Enviar, SinValores!Enviar, V!Interno, SinValores!Interno, V!pfnControladorConexion,
   SinValores!pfnControladorConexion, V!fnDispositivos, SinValores!fnDispositivos,
   V!Admision, SinValores!Admision, V!NextPCP, SinValores!NextPCP, V!Linea,
   SinValores!Linea, V!InitCpu, SinValores!InitCpu, V!ProximaLinea,
   SinValores!ProximaLinea, V!LineaActual, SinValores!LineaActual, V!RecibirPcb,
   SinValores!RecibirPcb, V!puedeSeguirEjecutando, SinValores!puedeSeguirEjecutando,
   V!EjecutarLinea, SinValores!EjecutarLinea, V!Pedir, SinValores!Pedir, V!EstadoTras,
   SinValores!EstadoTras, V!RecibirRespuesta, SinValores!RecibirRespuesta, V!Fallar,
   SinValores!Fallar, V!TerminarRafaga, SinValores!TerminarRafaga, V!signal_handler,
   SinValores!signal_handler, V!EjecutarRafaga, SinValores!EjecutarRafaga, V!NextCpu,
   SinValores!NextCpu, V!vars, SinValores!vars, V!Init, SinValores!Init, V!Next,
   SinValores!Next, V!Spec, SinValores!Spec

\* Every step of kernel and CPUs with the shared variables is, without the values, a
\* step of PCPCpu.
THEOREM RefinaSinValores == TextosEnRegla /\ SpecCompartidas => ImplementaPCPCpu
BY VistoEsPCPCpu, VistoOSinValores DEF ImplementaPCPCpu

UnaCpu == \A c, d \in CPUs : c = d
InicialesNoNegativos == \A s \in Semaforos : ValorInicial[s] >= 0

\* With one CPU no thread dereferences a NULL, whatever the programs read and write.
THEOREM VivoConVariables == TextosEnRegla /\ UnaCpu /\ SpecCompartidas => []KernelVivo
<1> SUFFICES ASSUME TextosEnRegla, UnaCpu PROVE SpecCompartidas => []KernelVivo
  OBVIOUS
<1>1. V!ProgramasEnRegla /\ V!UnaCpu /\ V!Spec => []V!KernelVivo
  BY ParametrosVistos, DemasParametros, V!VivoConUnaCpu
<1>2. V!ProgramasEnRegla /\ V!UnaCpu
  BY ProgramasVistos DEF UnaCpu, V!UnaCpu
<1>3. V!KernelVivo <=> KernelVivo
  BY DEF V!KernelVivo, KernelVivo
<1>4. SpecCompartidas => V!Spec
  BY VistoEsPCPCpu
<1> QED
  BY <1>1, <1>2, <1>3, <1>4, PTL

\* A thread in the middle of a wait or a signal is seen there.
LEMMA EnSemaforoVisto ==
  ASSUME FormaHilos
  PROVE  V!HilosEn(V!PasosWait \cup V!PasosSignal) = HilosEn(PasosWait \cup PasosSignal)
<1>1. ASSUME NEW c \in CPUs
      PROVE  HilosVistos[c].paso \in V!PasosWait \cup V!PasosSignal <=>
               hilo[c].paso \in PasosWait \cup PasosSignal
  <2>1. HilosVistos[c] = HiloVisto(hilo[c])
    BY VistosEnteros
  <2> QED
    BY <2>1 DEF HiloVisto, V!PasosWait, V!PasosSignal, PasosWait, PasosSignal
<1> QED
  BY <1>1 DEF HilosEn, V!HilosEn

\* With one CPU every semaphore agrees with its queue, whatever the programs read and
\* write.
THEOREM CoherenteConVariables ==
  TextosEnRegla /\ InicialesNoNegativos /\ UnaCpu /\ SpecCompartidas => []SemaforoCoherente
<1> SUFFICES ASSUME TextosEnRegla, InicialesNoNegativos, UnaCpu
             PROVE  SpecCompartidas => []SemaforoCoherente
  OBVIOUS
<1>1. /\ V!ProgramasEnRegla /\ V!InicialesNoNegativos /\ V!UnaCpu /\ V!Spec
           => []V!SemaforoCoherente
  BY ParametrosVistos, DemasParametros, V!CoherenteConUnaCpu
<1>2. V!ProgramasEnRegla /\ V!UnaCpu /\ V!InicialesNoNegativos
  BY ProgramasVistos DEF UnaCpu, V!UnaCpu, InicialesNoNegativos, V!InicialesNoNegativos
<1>3. InvVisto /\ V!SemaforoCoherente => SemaforoCoherente
  BY EnSemaforoVisto DEF InvVisto, V!SemaforoCoherente, SemaforoCoherente
<1>4. SpecCompartidas => V!Spec
  BY VistoEsPCPCpu
<1>5. SpecCompartidas => []InvVisto
  BY InvarianteVisto
<1> QED
  BY <1>1, <1>2, <1>3, <1>4, <1>5, PTL

\* What is executed of a program is seen as it is.
LEMMA AvanceVisto ==
  ASSUME FormaCpus, NEW p
  PROVE  V!Avance(p) = Avance(p)
<1>1. \A d \in CPUs : CpusVistas[d].pid = cpu[d].pid /\ CpusVistas[d].pc = cpu[d].pc
  BY CpuVistaEs
<1>2. {CpusVistas[c].pc : c \in {d \in CPUs : CpusVistas[d].pid = p}} =
      {cpu[c].pc : c \in {d \in CPUs : cpu[d].pid = p}}
  BY <1>1
<1> QED
  BY <1>2 DEF V!Avance, Avance

\* Whatever the number of CPUs, the PCB a CPU gets is up to date.
THEOREM NuncaRetrocedeConVariables == TextosEnRegla /\ SpecCompartidas => []SinRetroceso
<1> SUFFICES ASSUME TextosEnRegla PROVE SpecCompartidas => []SinRetroceso
  OBVIOUS
<1>1. V!ProgramasEnRegla /\ V!Spec => []V!SinRetroceso
  BY ParametrosVistos, DemasParametros, V!NuncaRetrocede
<1>2. V!ProgramasEnRegla
  BY ProgramasVistos
<1>3. ASSUME InvVisto, V!SinRetroceso PROVE SinRetroceso
  <2> SUFFICES ASSUME NEW c \in CPUs, cpu[c].paso = "ejecutar", puedeSeguirEjecutando(c)
               PROVE  cpu[c].pc = Avance(cpu[c].pid)
    BY DEF SinRetroceso
  <2>1. FormaCpus
    BY <1>3 DEF InvVisto
  <2>2. /\ CpusVistas[c].paso = "ejecutar" /\ CpusVistas[c].pid = cpu[c].pid
        /\ CpusVistas[c].pc = cpu[c].pc
    BY <2>1, CpuVistaEs
  <2>3. V!puedeSeguirEjecutando(c)
    BY <2>1, CpuVistaEs DEF puedeSeguirEjecutando, V!puedeSeguirEjecutando
  <2>4. PICK p : p = cpu[c].pid
    OBVIOUS
  <2>5. V!Avance(p) = Avance(p)
    BY <2>1, AvanceVisto
  <2> QED
    BY <1>3, <2>2, <2>3, <2>4, <2>5 DEF V!SinRetroceso
<1>4. SpecCompartidas => V!Spec
  BY VistoEsPCPCpu
<1>5. SpecCompartidas => []InvVisto
  BY InvarianteVisto
<1>6. InvVisto /\ V!SinRetroceso => SinRetroceso
  BY <1>3
<1> QED
  BY <1>1, <1>2, <1>4, <1>5, <1>6, PTL

\* The cardinality of a set does not depend on what is seen.
LEMMA CardinalidadVista == \A S : V!Cardinality(S) = Cardinality(S)
BY DEF V!Cardinality, Cardinality, V!IsFiniteSet, IsFiniteSet

\* The threads that carry a program between two lists are seen carrying it.
LEMMA LlevanVisto ==
  ASSUME FormaHilos, NEW p
  PROVE  V!Llevan(p) = Llevan(p) /\ V!EntreDosListas(p) = EntreDosListas(p)
<1>1. ASSUME NEW c \in CPUs
      PROVE  /\ HilosVistos[c].prog = hilo[c].prog /\ HilosVistos[c].otro = hilo[c].otro
             /\ \A x \in {"cargar", "waitEncolar", "signalReady", "recargarReady", "exitAgregar",
                          "ioSacar"} : HilosVistos[c].paso = x <=> hilo[c].paso = x
  <2>1. /\ HilosVistos[c] = HiloVisto(hilo[c])
        /\ HilosVistos[c].prog = hilo[c].prog /\ HilosVistos[c].otro = hilo[c].otro
    BY VistosEnteros
  <2> QED
    BY <2>1 DEF HiloVisto
<1> QED
  BY <1>1 DEF V!Llevan, Llevan, V!EntreDosListas, EntreDosListas, V!HilosEn, HilosEn

\* A program that is seen in one place is in it.
LEMMA LugarVisto ==
  ASSUME FormaHilos, V!UnSoloLugar
  PROVE  UnSoloLugar
<1> SUFFICES ASSUME NEW p \in 1..admitidos
             PROVE  Veces(listaReady, p) + Veces(listaExec, p) + Veces(exitProcesos, p)
                      + Cardinality(Encolado(p))
                      + Cardinality({d \in Dispositivos : dispositivo[d].prog = p})
                      + Cardinality(Llevan(p))
                    = 1 + Cardinality(EntreDosListas(p))
  BY DEF UnSoloLugar
<1>1. \A s : V!Veces(s, p) = Veces(s, p)
  BY CardinalidadVista DEF V!Veces, Veces
<1>2. V!Encolado(p) = Encolado(p)
  BY DEF V!Encolado, Encolado
<1>3. V!Llevan(p) = Llevan(p) /\ V!EntreDosListas(p) = EntreDosListas(p)
  BY LlevanVisto
<1> QED
  BY <1>1, <1>2, <1>3, CardinalidadVista DEF V!UnSoloLugar

\* Whatever the number of CPUs, no program is lost or in two places.
THEOREM UnSoloLugarConVariables == TextosEnRegla /\ SpecCompartidas => []UnSoloLugar
<1> SUFFICES ASSUME TextosEnRegla PROVE SpecCompartidas => []UnSoloLugar
  OBVIOUS
<1>1. V!ProgramasEnRegla /\ V!Spec => []V!UnSoloLugar
  BY ParametrosVistos, DemasParametros, V!SiempreUnSoloLugar
<1>2. V!ProgramasEnRegla
  BY ProgramasVistos
<1>3. InvVisto /\ V!UnSoloLugar => UnSoloLugar
  BY LugarVisto DEF InvVisto
<1>4. SpecCompartidas => V!Spec
  BY VistoEsPCPCpu
<1>5. SpecCompartidas => []InvVisto
  BY InvarianteVisto
<1> QED
  BY <1>1, <1>2, <1>3, <1>4, <1>5, PTL

-----------------------------------------------------------------------------
(* The places and counters of the programs are seen as they are: with the     *)
(* variables, too, a program is executed as CortoPlazo has it, and is alone   *)
(* in its section.                                                            *)

\* The place of a program does not depend on the values.
LEMMA SitioVisto ==
  ASSUME FormaHilos
  PROVE  \A p : V!Lugar(p) = Lugar(p)
<1> SUFFICES ASSUME NEW p PROVE V!Lugar(p) = Lugar(p)
  OBVIOUS
<1>1. (\E c \in V!HilosEn({"signalReady"}) : HilosVistos[c].otro = p)
        <=> (\E c \in HilosEn({"signalReady"}) : hilo[c].otro = p)
  <2>1. ASSUME NEW c \in CPUs
        PROVE  /\ HilosVistos[c].otro = hilo[c].otro
               /\ HilosVistos[c].paso = "signalReady" <=> hilo[c].paso = "signalReady"
    <3>1. HilosVistos[c] = HiloVisto(hilo[c]) /\ HilosVistos[c].otro = hilo[c].otro
      BY VistosEnteros
    <3> QED
      BY <3>1 DEF HiloVisto
  <2> QED
    BY <2>1 DEF V!HilosEn, HilosEn
<1>2. \A s : V!EnCola(s) = EnCola(s)
  BY DEF V!EnCola, EnCola
<1> QED
  BY <1>1, <1>2 DEF V!Lugar, Lugar

\* Nor does its counter.
LEMMA ContadorVisto ==
  ASSUME FormaHilos, FormaCpus
  PROVE  V!AvanceHastaElFin = AvanceHastaElFin
<1>1. \A p : V!Lugar(p) = Lugar(p) /\ V!Avance(p) = Avance(p)
  BY SitioVisto, AvanceVisto
<1> QED
  BY <1>1 DEF V!AvanceHastaElFin, AvanceHastaElFin, V!Programas, Programas

\* A line that may end a program as it is seen may end it.
LEMMA FinalesVistos ==
  ASSUME TextosEnRegla, NEW p \in Programas
  PROVE  V!Finales[p] \subseteq FinalesCompartidas[p]
<1> SUFFICES ASSUME NEW n, n \in V!Finales[p] PROVE n \in FinalesCompartidas[p]
  OBVIOUS
<1>1. n \in DOMAIN CodigoVisto[p] /\ V!PuedeTerminar(CodigoVisto[p][n])
  BY DEF V!Finales, V!Programas, Programas
<1>2. /\ n \in 1..Termina(p) /\ CodigoVisto[p][n] = LineaVista(Codigo[p][n])
      /\ n \in DOMAIN Codigo[p]
  BY <1>1, CodigoVistoEs, TerminaEs
<1>3. PICK l : l = Codigo[p][n]
  OBVIOUS
<1>4. V!PuedeTerminar(LineaVista(l))
  BY <1>1, <1>2, <1>3
<1>5. \/ PuedeTerminar(l)
      \/ l.op \in {"leer", "escribir"} /\ l.nombre \notin VariablesCompartidas
  BY <1>4 DEF LineaVista, Linea, V!PuedeTerminar, PuedeTerminar
<1>6. /\ FinalesCompartidas[p] = Finales[p] \cup
           {i \in DOMAIN Codigo[p] : /\ Codigo[p][i].op \in {"leer", "escribir"}
                                     /\ Codigo[p][i].nombre \notin VariablesCompartidas}
      /\ Finales[p] = {i \in DOMAIN Codigo[p] : PuedeTerminar(Codigo[p][i])}
  BY DEF FinalesCompartidas, Finales
<1> QED
  BY <1>2, <1>3, <1>5, <1>6

\* The semaphores that the programs wait on exist.
LEMMA SemaforosVistos ==
  ASSUME TextosEnRegla, SemaforosExisten
  PROVE  V!SemaforosExisten
<1> SUFFICES ASSUME NEW p \in Programas, NEW i \in DOMAIN CodigoVisto[p],
                    CodigoVisto[p][i].op = "wait"
             PROVE  CodigoVisto[p][i].nombre \in Semaforos
  BY DEF V!SemaforosExisten, V!Programas, Programas
<1>1. /\ i \in 1..Termina(p) /\ CodigoVisto[p][i] = LineaVista(Codigo[p][i])
      /\ i \in DOMAIN Codigo[p]
  BY CodigoVistoEs, TerminaEs
<1>2. Codigo[p][i].op = "wait" /\ CodigoVisto[p][i] = Codigo[p][i]
  BY <1>1 DEF LineaVista, Linea
<1> QED
  BY <1>1, <1>2 DEF SemaforosExisten

\* No two threads are in fnLock or fnUnlock of the same semaphore.
EnFn(c, s) == hilo[c].paso \in PasosWait \cup PasosSignal /\ hilo[c].msg.nombre = s
SinCarreras == \A s \in Semaforos : \A c, d \in CPUs : EnFn(c, s) /\ EnFn(d, s) => c = d

LEMMA CarrerasVistas ==
  ASSUME TextosEnRegla, FormaHilos, SinCarreras
  PROVE  V!SinCarreras
<1>1. ASSUME NEW s \in Semaforos, NEW c \in CPUs, V!EnFn(c, s) PROVE EnFn(c, s)
  <2>1. HilosVistos[c] = HiloVisto(hilo[c]) /\ HilosVistos[c].msg = MensajeVisto(hilo[c].msg)
    BY VistosEnteros
  <2>2. HilosVistos[c].paso \in PasosWait \cup PasosSignal /\ HilosVistos[c].msg.nombre = s
    BY <1>1 DEF V!EnFn, V!PasosWait, PasosWait, V!PasosSignal, PasosSignal
  <2>3. hilo[c].paso \in PasosWait \cup PasosSignal
    BY <2>1, <2>2 DEF HiloVisto, PasosWait, PasosSignal
  <2>4. s # SinNombre
    BY DEF TextosEnRegla
  <2>5. PICK m : m = hilo[c].msg
    OBVIOUS
  <2>6. MensajeVisto(m).nombre = s => m.nombre = s
    BY <2>4 DEF MensajeVisto, Mensaje
  <2> QED
    BY <2>1, <2>2, <2>3, <2>5, <2>6 DEF EnFn
<1> QED
  BY <1>1 DEF SinCarreras, V!SinCarreras

\* What CortoPlazo sees of the programs is the same with the values and without.
SeVeIgual ==
  /\ [p \in Programas |-> V!Lugar(p)] = [p \in Programas |-> Lugar(p)]
  /\ V!AvanceHastaElFin = AvanceHastaElFin

\* A step of the abstract scheduler with fewer lines to end at is one with more.
LEMMA AbstractoVisto ==
  ASSUME TextosEnRegla, SeVeIgual, SeVeIgual',
         [V!Abstracto!NextCP]_(V!Abstracto!varsCP)
  PROVE  [AbstractoCompartidas!NextCP]_(AbstractoCompartidas!varsCP)
<1>1. V!Programas = Programas
  BY DEF V!Programas, Programas
<1>2. PICK L, L1, N, N1 :
        /\ L = [p \in Programas |-> Lugar(p)] /\ L1 = [p \in Programas |-> Lugar(p)]'
        /\ N = AvanceHastaElFin /\ N1 = AvanceHastaElFin'
  OBVIOUS
<1>3. /\ [p \in V!Programas |-> V!Lugar(p)] = L /\ [p \in V!Programas |-> V!Lugar(p)]' = L1
      /\ V!AvanceHastaElFin = N /\ V!AvanceHastaElFin' = N1
  BY <1>1, <1>2 DEF SeVeIgual
<1>4. CASE UNCHANGED V!Abstracto!varsCP
  BY <1>2, <1>3, <1>4 DEF V!Abstracto!varsCP, AbstractoCompartidas!varsCP
<1>5. ASSUME NEW p \in Programas,
             \/ V!Abstracto!Admitir(p) \/ V!Abstracto!Despachar(p) \/ V!Abstracto!Volver(p)
             \/ V!Abstracto!Bloquear(p) \/ V!Abstracto!Despertar(p) \/ V!Abstracto!Avanzar(p)
      PROVE  AbstractoCompartidas!NextCP
  <2>1. \/ AbstractoCompartidas!Admitir(p) \/ AbstractoCompartidas!Despachar(p)
        \/ AbstractoCompartidas!Volver(p) \/ AbstractoCompartidas!Bloquear(p)
        \/ AbstractoCompartidas!Despertar(p) \/ AbstractoCompartidas!Avanzar(p)
    BY <1>1, <1>2, <1>3, <1>5
       DEF V!Abstracto!Admitir, AbstractoCompartidas!Admitir, V!Abstracto!Despachar,
           AbstractoCompartidas!Despachar, V!Abstracto!Volver, AbstractoCompartidas!Volver,
           V!Abstracto!Bloquear, AbstractoCompartidas!Bloquear, V!Abstracto!Despertar,
           AbstractoCompartidas!Despertar, V!Abstracto!Avanzar, AbstractoCompartidas!Avanzar,
           V!Abstracto!Mudar, AbstractoCompartidas!Mudar
  <2> QED
    BY <2>1 DEF AbstractoCompartidas!NextCP
<1>6. ASSUME NEW p \in Programas, V!Abstracto!Terminar(p)
      PROVE  AbstractoCompartidas!NextCP
  <2>1. N[p] \in V!Finales[p]
    BY <1>3, <1>6 DEF V!Abstracto!Terminar
  <2>2. N[p] \in FinalesCompartidas[p]
    BY <2>1, FinalesVistos
  <2>3. AbstractoCompartidas!Terminar(p)
    BY <1>2, <1>3, <1>6, <2>2
       DEF V!Abstracto!Terminar, AbstractoCompartidas!Terminar, V!Abstracto!Mudar,
           AbstractoCompartidas!Mudar
  <2> QED
    BY <2>3 DEF AbstractoCompartidas!NextCP
<1> QED
  BY <1>1, <1>4, <1>5, <1>6 DEF V!Abstracto!NextCP

\* While no two CPUs are in fnLock or fnUnlock of the same semaphore at once, kernel and
\* CPUs implement the abstract short-term scheduler with the shared variables too: a
\* request for a variable is one more line, and one for a variable that does not exist
\* ends its program there.
THEOREM CortoPlazoSinCarreras ==
  TextosEnRegla /\ SemaforosExisten /\ SpecCompartidas /\ []SinCarreras
    => ImplementanCortoPlazo
<1> SUFFICES ASSUME TextosEnRegla, SemaforosExisten
             PROVE  SpecCompartidas /\ []SinCarreras => ImplementanCortoPlazo
  OBVIOUS
<1>1. V!ProgramasEnRegla /\ V!SemaforosExisten
  BY ProgramasVistos, SemaforosVistos
<1>2. V!ProgramasEnRegla /\ V!SemaforosExisten /\ V!Spec /\ []V!SinCarreras
        => V!ImplementaCortoPlazo
  BY ParametrosVistos, DemasParametros, V!RefinaSinCarreras
<1>3. InvVisto /\ SinCarreras => V!SinCarreras
  BY CarrerasVistas DEF InvVisto
<1>4. InvVisto => SeVeIgual
  BY SitioVisto, ContadorVisto DEF InvVisto, SeVeIgual
<1>5. SeVeIgual /\ V!Abstracto!InitCP => AbstractoCompartidas!InitCP
  BY DEF SeVeIgual, V!Abstracto!InitCP, AbstractoCompartidas!InitCP, V!Programas, Programas
<1>6. SeVeIgual /\ SeVeIgual' /\ [V!Abstracto!NextCP]_(V!Abstracto!varsCP)
        => [AbstractoCompartidas!NextCP]_(AbstractoCompartidas!varsCP)
  BY AbstractoVisto
<1>7. SpecCompartidas => V!Spec
  BY VistoEsPCPCpu
<1>8. SpecCompartidas => []InvVisto
  BY InvarianteVisto
<1> QED
  BY <1>1, <1>2, <1>3, <1>4, <1>5, <1>6, <1>7, <1>8, PTL
     DEF V!ImplementaCortoPlazo, V!Abstracto!SpecCP, ImplementanCortoPlazo,
         AbstractoCompartidas!SpecCP

\* With one CPU, always.
THEOREM CortoPlazoConVariables ==
  TextosEnRegla /\ SemaforosExisten /\ UnaCpu /\ SpecCompartidas => ImplementanCortoPlazo
<1> SUFFICES ASSUME TextosEnRegla, SemaforosExisten, UnaCpu
             PROVE  SpecCompartidas => ImplementanCortoPlazo
  OBVIOUS
<1>1. SinCarreras
  BY DEF UnaCpu, SinCarreras
<1>2. SpecCompartidas => []SinCarreras
  BY <1>1, PTL
<1> QED
  BY <1>2, CortoPlazoSinCarreras

\* Sections are seen as they are, up to the line that ends the text.
LEMMA SeccionVista ==
  ASSUME TextosEnRegla, NEW p \in Programas, NEW s \in Semaforos, NEW n \in 0..Termina(p)
  PROVE  V!EnSeccion(p, s, n) <=> EnSeccion(p, s, n)
<1>1. s # SinNombre
  BY DEF TextosEnRegla
<1>2. Termina(p) \in Nat
  BY CodigoVistoEs
<1>3. ASSUME NEW k \in 1..n
      PROVE  /\ CodigoVisto[p][k].op = "wait" /\ CodigoVisto[p][k].nombre = s
                  <=> Codigo[p][k].op = "wait" /\ Codigo[p][k].nombre = s
             /\ CodigoVisto[p][k].op = "signal" /\ CodigoVisto[p][k].nombre = s
                  <=> Codigo[p][k].op = "signal" /\ Codigo[p][k].nombre = s
  <2>1. k \in 1..Termina(p)
    BY <1>2
  <2>2. CodigoVisto[p][k] = LineaVista(Codigo[p][k])
    BY <2>1, CodigoVistoEs
  <2>3. PICK l : l = Codigo[p][k]
    OBVIOUS
  <2>4. /\ LineaVista(l).op = "wait" /\ LineaVista(l).nombre = s <=> l.op = "wait" /\ l.nombre = s
        /\ LineaVista(l).op = "signal" /\ LineaVista(l).nombre = s
             <=> l.op = "signal" /\ l.nombre = s
    BY <1>1 DEF LineaVista, Linea
  <2> QED
    BY <2>2, <2>3, <2>4
<1>4. \A w \in 1..n : \A k \in (w + 1)..n : k \in 1..n
  BY <1>2
<1> QED
  BY <1>3, <1>4 DEF V!EnSeccion, EnSeccion

\* Who waits for a semaphore is seen waiting for it.
LEMMA EsperaVista ==
  ASSUME InvVisto, NEW p, NEW s \in Semaforos
  PROVE  V!EsperaA(p, s) <=> EsperaA(p, s)
<1>1. ASSUME NEW c \in CPUs PROVE V!PideEntrar(c, s) <=> PideEntrar(c, s)
  <2>1. /\ FormaHilos /\ HilosVistos[c] = HiloVisto(hilo[c])
        /\ hilo[c].paso \notin DosPasos => HilosVistos[c].msg.nombre = hilo[c].msg.nombre
    BY VistosEnteros, HiloDeSiempre DEF InvVisto
  <2>2. /\ HilosVistos[c].paso \in PasosWait \ {"waitBloquear"}
             <=> hilo[c].paso \in PasosWait \ {"waitBloquear"}
        /\ HilosVistos[c].paso = "recibir" <=> hilo[c].paso = "recibir"
        /\ hilo[c].paso \in PasosWait => hilo[c].paso \notin DosPasos
    BY <2>1 DEF HiloVisto, PasosWait, DosPasos
  <2>3. PICK x : x = haciaKernel[c]
    OBVIOUS
  <2>4. EsCanal(x) /\ HaciaKernelVisto[c] = CanalVisto(x)
    BY <2>3 DEF InvVisto, FormaCanales, EsCanales, HaciaKernelVisto
  <2>5. PICK S : x \in Seq(S)
    BY <2>4 DEF EsCanal
  <2>6. /\ Len(CanalVisto(x)) = Len(x)
        /\ \A i \in 1..Len(x) : CanalVisto(x)[i] = MensajeVisto(x[i])
    BY <2>5, CanalVistoEs
  <2>7. V!EnCola(CanalVisto(x)) = {MensajeVisto(m) : m \in EnCola(x)}
    BY <2>6 DEF V!EnCola, EnCola
  <2>8. \A m : /\ MensajeVisto(m).op = "waitKernel" <=> m.op = "waitKernel"
               /\ m.op = "waitKernel" => MensajeVisto(m).nombre = m.nombre
    BY DEF MensajeVisto, DeVariable, Mensaje
  <2>9. (\E m \in V!EnCola(CanalVisto(x)) : m.op = "waitKernel" /\ m.nombre = s)
          <=> \E m \in EnCola(x) : m.op = "waitKernel" /\ m.nombre = s
    BY <2>7, <2>8
  <2> QED
    BY <2>1, <2>2, <2>3, <2>4, <2>9 DEF V!PideEntrar, PideEntrar, V!PasosWait, PasosWait
<1>2. \A c \in CPUs : HilosVistos[c].prog = hilo[c].prog
  BY VistosEnteros DEF InvVisto
<1> QED
  BY <1>1, <1>2 DEF V!EsperaA, EsperaA, V!EnCola, EnCola

\* Who is in a section is seen in it.
LEMMA AdentroVisto ==
  ASSUME TextosEnRegla, InvVisto, V!AvanceEnTexto, NEW p \in Programas, NEW s \in Semaforos
  PROVE  V!Adentro(p, s) <=> Adentro(p, s)
<1>1. PICK n : n = AvanceHastaElFin[p]
  OBVIOUS
<1>2. V!AvanceHastaElFin[p] = n
  BY <1>1, ContadorVisto DEF InvVisto
<1>3. n \in 0..Termina(p)
  BY <1>2, CodigoVistoEs DEF V!AvanceEnTexto, V!Final, V!Programas, Programas
<1>4. V!EnSeccion(p, s, n) <=> EnSeccion(p, s, n)
  BY <1>3, SeccionVista
<1> QED
  BY <1>1, <1>2, <1>4, EsperaVista DEF V!Adentro, Adentro

\* The semaphores that exclude do so in the texts that are seen.
LEMMA ExclusivosVistos ==
  ASSUME TextosEnRegla
  PROVE  Exclusivos \subseteq V!Exclusivos
<1> SUFFICES ASSUME NEW s \in Exclusivos PROVE s \in V!Exclusivos
  OBVIOUS
<1>1. s \in Semaforos /\ ValorInicial[s] <= 1 /\ s # SinNombre
  BY DEF Exclusivos, TextosEnRegla
<1>2. ASSUME NEW p \in Programas, NEW n \in DOMAIN CodigoVisto[p],
             CodigoVisto[p][n].op = "signal", CodigoVisto[p][n].nombre = s
      PROVE  V!EnSeccion(p, s, n - 1)
  <2>1. n \in 1..Termina(p) /\ Termina(p) \in Nat /\ n \in DOMAIN Codigo[p]
    BY CodigoVistoEs, TerminaEs
  <2>2. CodigoVisto[p][n] = LineaVista(Codigo[p][n])
    BY <2>1, CodigoVistoEs
  <2>3. PICK l : l = Codigo[p][n]
    OBVIOUS
  <2>4. LineaVista(l).op = "signal" /\ LineaVista(l).nombre = s => l.op = "signal" /\ l.nombre = s
    BY <1>1 DEF LineaVista, Linea
  <2>5. EnSeccion(p, s, n - 1)
    BY <1>2, <2>1, <2>2, <2>3, <2>4 DEF Exclusivos
  <2>6. n - 1 \in 0..Termina(p)
    BY <2>1
  <2> QED
    BY <1>1, <2>5, <2>6, SeccionVista
<1> QED
  BY <1>1, <1>2 DEF V!Exclusivos, V!Programas, Programas

\* With the shared variables, too, two programs are never at once between a wait and a
\* signal of the same semaphore of initial value 1, while no two CPUs are in fnLock or
\* fnUnlock of it at once.
THEOREM ExclusionConVariables ==
  TextosEnRegla /\ SemaforosExisten /\ InicialesNoNegativos /\ SpecCompartidas /\ []SinCarreras
    => []ExclusionMutua
<1> SUFFICES ASSUME TextosEnRegla, SemaforosExisten, InicialesNoNegativos
             PROVE  SpecCompartidas /\ []SinCarreras => []ExclusionMutua
  OBVIOUS
<1>1. V!ProgramasEnRegla /\ V!SemaforosExisten /\ V!InicialesNoNegativos
  BY ProgramasVistos, SemaforosVistos DEF InicialesNoNegativos, V!InicialesNoNegativos
<1>2. V!ProgramasEnRegla /\ V!SemaforosExisten /\ V!InicialesNoNegativos /\ V!Spec
        /\ []V!SinCarreras => []V!ExclusionMutua
  BY ParametrosVistos, DemasParametros, V!ExclusionSinCarreras
<1>3. V!ProgramasEnRegla /\ V!SemaforosExisten /\ V!Spec => []V!AvanceEnTexto
  BY ParametrosVistos, DemasParametros, V!SiempreEnTexto
<1>4. InvVisto /\ SinCarreras => V!SinCarreras
  BY CarrerasVistas DEF InvVisto
<1>5. ASSUME InvVisto, V!AvanceEnTexto, V!ExclusionMutua PROVE ExclusionMutua
  <2>1. \A s \in Exclusivos : s \in V!Exclusivos /\ s \in Semaforos
    BY ExclusivosVistos DEF Exclusivos
  <2> QED
    BY <1>5, <2>1, AdentroVisto DEF V!ExclusionMutua, ExclusionMutua, V!Programas, Programas
<1>6. SpecCompartidas => V!Spec
  BY VistoEsPCPCpu
<1>7. SpecCompartidas => []InvVisto
  BY InvarianteVisto
<1>8. InvVisto /\ V!AvanceEnTexto /\ V!ExclusionMutua => ExclusionMutua
  BY <1>5
<1> QED
  BY <1>1, <1>2, <1>3, <1>4, <1>6, <1>7, <1>8, PTL

\* With one CPU, always.
THEOREM ExclusionConVariablesConUnaCpu ==
  TextosEnRegla /\ SemaforosExisten /\ InicialesNoNegativos /\ UnaCpu /\ SpecCompartidas
    => []ExclusionMutua
<1> SUFFICES ASSUME TextosEnRegla, SemaforosExisten, InicialesNoNegativos, UnaCpu
             PROVE  SpecCompartidas => []ExclusionMutua
  OBVIOUS
<1>1. SinCarreras
  BY DEF UnaCpu, SinCarreras
<1>2. SpecCompartidas => []SinCarreras
  BY <1>1, PTL
<1> QED
  BY <1>2, ExclusionConVariables

-----------------------------------------------------------------------------
(* Each update of a variable is done alone: who has read it and has not       *)
(* written it yet is in the section of the semaphore that takes care of it.   *)

\* Before its first line a program has read nothing; a line of another name changes
\* nothing; to write ends the update.
LEMMA LineaDeVariable ==
  ASSUME NEW p, NEW v, NEW n \in Nat
  PROVE  LET l == Codigo[p][n + 1]
         IN  /\ ~Actualiza(p, v, 0) /\ ~TieneLeido(p, v, 0)
             /\ l.op = "leer" /\ l.nombre = v => TieneLeido(p, v, n + 1)
             /\ l.op = "escribir" /\ l.nombre = v => ~TieneLeido(p, v, n + 1)
             /\ ~(l.op \in {"leer", "escribir"} /\ l.nombre = v) =>
                  (TieneLeido(p, v, n + 1) <=> TieneLeido(p, v, n))
<1> DEFINE l == Codigo[p][n + 1]
<1>1. ~Actualiza(p, v, 0) /\ ~TieneLeido(p, v, 0)
  BY DEF Actualiza, TieneLeido
<1>2. ASSUME l.op = "leer", l.nombre = v PROVE TieneLeido(p, v, n + 1)
  BY <1>2 DEF TieneLeido
<1>3. ASSUME l.op = "escribir", l.nombre = v, TieneLeido(p, v, n + 1) PROVE FALSE
  <2>1. PICK r \in 1..(n + 1) :
          /\ Codigo[p][r].op = "leer"
          /\ \A k \in (r + 1)..(n + 1) : ~(Codigo[p][k].op = "escribir" /\ Codigo[p][k].nombre = v)
    BY <1>3 DEF TieneLeido
  <2>2. r # n + 1
    BY <1>3, <2>1
  <2>3. n + 1 \in (r + 1)..(n + 1)
    BY <2>2
  <2> QED
    BY <1>3, <2>1, <2>3
<1>4. ASSUME ~(l.op \in {"leer", "escribir"} /\ l.nombre = v)
      PROVE  TieneLeido(p, v, n + 1) <=> TieneLeido(p, v, n)
  <2>1. ASSUME TieneLeido(p, v, n + 1) PROVE TieneLeido(p, v, n)
    <3>1. PICK r \in 1..(n + 1) :
            /\ Codigo[p][r].op = "leer" /\ Codigo[p][r].nombre = v
            /\ \A k \in (r + 1)..(n + 1) :
                 ~(Codigo[p][k].op = "escribir" /\ Codigo[p][k].nombre = v)
      BY <2>1 DEF TieneLeido
    <3>2. r \in 1..n
      BY <1>4, <3>1
    <3>3. \A k \in (r + 1)..n : k \in (r + 1)..(n + 1)
      OBVIOUS
    <3> QED
      BY <3>1, <3>2, <3>3 DEF TieneLeido
  <2>2. ASSUME TieneLeido(p, v, n) PROVE TieneLeido(p, v, n + 1)
    <3>1. PICK r \in 1..n :
            /\ Codigo[p][r].op = "leer" /\ Codigo[p][r].nombre = v
            /\ \A k \in (r + 1)..n : ~(Codigo[p][k].op = "escribir" /\ Codigo[p][k].nombre = v)
      BY <2>2 DEF TieneLeido
    <3>2. \A k \in (r + 1)..(n + 1) : k \in (r + 1)..n \/ k = n + 1
      OBVIOUS
    <3>3. r \in 1..(n + 1)
      OBVIOUS
    <3> QED
      BY <1>4, <3>1, <3>2, <3>3 DEF TieneLeido
  <2> QED
    BY <2>1, <2>2
<1> QED
  BY <1>1, <1>2, <1>3, <1>4

\* The semaphore that takes care of v.
Cuida(v) == CHOOSE s \in Exclusivos : Protege(s, v)

\* There is one, for the texts of ActualizacionesEnRegla.
LEMMA CuidaEs ==
  ASSUME ActualizacionesEnRegla, NEW v \in VariablesCompartidas
  PROVE  Cuida(v) \in Exclusivos /\ Cuida(v) \in Semaforos /\ Protege(Cuida(v), v)
BY DEF ActualizacionesEnRegla, Cuida, Exclusivos

\* Up to the line that ends it, a text reads a variable before it writes it.
LEMMA EscribeLoLeido ==
  ASSUME ActualizacionesEnRegla, NEW p \in Programas, NEW v \in VariablesCompartidas,
         NEW n \in 1..Termina(p), Actualiza(p, v, n)
  PROVE  \E i \in 1..n : Codigo[p][i].op = "leer" /\ Codigo[p][i].nombre = v
<1>1. CASE TieneLeido(p, v, n)
  BY <1>1 DEF TieneLeido
<1>2. CASE Codigo[p][n].op = "escribir" /\ Codigo[p][n].nombre = v
  <2>1. TieneLeido(p, v, n - 1)
    BY <1>2 DEF ActualizacionesEnRegla
  <2>2. PICK i \in 1..(n - 1) : Codigo[p][i].op = "leer" /\ Codigo[p][i].nombre = v
    BY <2>1 DEF TieneLeido
  <2>3. i \in 1..n
    BY <2>2
  <2> QED
    BY <2>2, <2>3
<1> QED
  BY <1>1, <1>2 DEF Actualiza

\* What is known of kernel and CPUs.
InvTodo == InvVisto /\ V!InvAvance /\ V!InvCorto /\ V!AvanceEnTexto /\ SeVeIgual

\* Nobody waits for the semaphore that takes care of what it is updating.
SinEsperar ==
  \A v \in VariablesCompartidas : \A p \in Programas : \A n \in 1..Termina(p) :
    n = AvanceHastaElFin[p] /\ Actualiza(p, v, n) => ~V!EsperaA(p, Cuida(v))

\* It gets to wait for a semaphore only by a wait, which is not a line of an update.
LEMMA SinEsperarSigue ==
  ASSUME TextosEnRegla, ActualizacionesEnRegla, InvTodo, InvTodo', [V!Next]_(V!vars), SinEsperar
  PROVE  SinEsperar'
<1> SUFFICES ASSUME NEW v \in VariablesCompartidas, NEW p \in Programas, NEW m \in 1..Termina(p),
                    m = AvanceHastaElFin'[p], Actualiza(p, v, m), V!EsperaA(p, Cuida(v))'
             PROVE  FALSE
  BY DEF SinEsperar
<1>1. PICK s \in Semaforos : s = Cuida(v) /\ Protege(s, v)
  BY CuidaEs
<1>2. V!EsperaA(p, s)'
  BY <1>1
<1>3. V!AvanceHastaElFin = AvanceHastaElFin /\ V!AvanceHastaElFin' = AvanceHastaElFin'
  BY DEF InvTodo, SeVeIgual
<1>4. PICK n : n = AvanceHastaElFin[p]
  OBVIOUS
<1>5. \/ m = n /\ (V!EsperaA(p, s)' => V!EsperaA(p, s))
      \/ m = 0
      \/ /\ m \in DOMAIN CodigoVisto[p]
         /\ V!EsperaA(p, s)' => CodigoVisto[p][m].op = "wait" /\ CodigoVisto[p][m].nombre = s
  BY <1>3, <1>4, ProgramasVistos, ParametrosVistos, DemasParametros, V!LoQueAvanza
     DEF InvTodo, InvVisto, V!Programas, Programas
<1>6. CASE m = n /\ V!EsperaA(p, s)
  BY <1>1, <1>4, <1>6 DEF SinEsperar
<1>7. CASE CodigoVisto[p][m].op = "wait" /\ CodigoVisto[p][m].nombre = s
  <2>1. CodigoVisto[p][m] = LineaVista(Codigo[p][m])
    BY CodigoVistoEs
  <2>2. PICK l : l = Codigo[p][m]
    OBVIOUS
  <2>3. l.op = "wait" /\ l.nombre = s
    BY <1>7, <2>1, <2>2 DEF LineaVista, Linea
  <2> QED
    BY <1>1, <2>2, <2>3 DEF Protege
<1> QED
  BY <1>2, <1>5, <1>6, <1>7

\* No two programs are updating the same variable.
Solos ==
  \A v \in VariablesCompartidas : \A p, q \in Programas :
    \A n \in 1..Termina(p), m \in 1..Termina(q) :
      /\ n = AvanceHastaElFin[p] /\ Actualiza(p, v, n)
      /\ m = AvanceHastaElFin[q] /\ Actualiza(q, v, m)
      => p = q

\* So whoever is at an update is inside the section, where the semaphore lets one.
LEMMA EstanSolos ==
  ASSUME TextosEnRegla, ActualizacionesEnRegla, InvVisto, ExclusionMutua, SinEsperar
  PROVE  Solos
<1>1. ASSUME NEW v \in VariablesCompartidas, NEW p \in Programas, NEW n \in 1..Termina(p),
             n = AvanceHastaElFin[p], Actualiza(p, v, n)
      PROVE  Adentro(p, Cuida(v))
  <2>1. PICK s \in Semaforos : s = Cuida(v) /\ Protege(s, v)
    BY CuidaEs
  <2>2. EnSeccion(p, s, n)
    BY <1>1, <2>1 DEF Protege
  <2>3. ~V!EsperaA(p, s)
    BY <1>1, <2>1 DEF SinEsperar
  <2>4. ~EsperaA(p, s)
    BY <2>3, EsperaVista
  <2> QED
    BY <1>1, <2>1, <2>2, <2>4 DEF Adentro
<1>2. \A v \in VariablesCompartidas : Cuida(v) \in Exclusivos
  BY CuidaEs
<1> QED
  BY <1>1, <1>2 DEF Solos, ExclusionMutua

-----------------------------------------------------------------------------
(* Who reads and who writes a variable that exists.                           *)

Lee(c, v) == Leyendo(c) /\ LineaActual(c).nombre = v
Escribe(c, v) == Escribiendo(c) /\ LineaActual(c).nombre = v

\* A CPU that waits for the answer about a variable that exists has the newest counter of
\* its program, no other CPU has; its thread is in recv or at the request; and the answer
\* to a read is not a refusal.
LEMMA EnVariable ==
  ASSUME TextosEnRegla, InvTodo, NEW c \in CPUs, NEW v \in VariablesCompartidas,
         Lee(c, v) \/ Escribe(c, v)
  PROVE  /\ cpu[c].pid \in Programas /\ cpu[c].pc \in 1..Termina(cpu[c].pid)
         /\ cpu[c].pc = AvanceHastaElFin[cpu[c].pid]
         /\ hilo[c].paso \in DosPasos \cup {"recibir"}
         /\ hilo[c].paso \in DosPasos =>
              hilo[c].msg.nombre = v /\ haciaCpu[c] = <<>> /\ conectada[c]
         /\ Lee(c, v) /\ haciaCpu[c] # <<>> => Head(haciaCpu[c]).op = "valorCompartida"
         /\ V!EnCurso(c) /\ HilosVistos[c].prog = cpu[c].pid
         /\ HilosVistos[c].paso \in {"recibir", "consulta"}
<1>1. /\ FormaHilos /\ FormaCanales /\ FormaCpus /\ Acorde(c) /\ V!InvPCP /\ InvVisto
      /\ cpu[c].paso = "respuestaValor"
  BY DEF InvTodo, InvVisto, Lee, Escribe, Leyendo, Escribiendo
<1>2. V!FaseCpu(c) /\ V!Fase(c)
  BY <1>1, FaseCpuVista DEF V!InvPCP, V!Protocolo
<1>3. /\ cpu[c].pid \in Programas /\ cpu[c].pc \in 1..Termina(cpu[c].pid)
      /\ V!LineaActual(c) = LineaVista(LineaActual(c))
  BY <1>1, <1>2, LineaActualVista
<1>4. PICK l, k : l = LineaActual(c) /\ k = V!LineaActual(c)
  OBVIOUS
<1>5. k.op = "consulta" /\ k.nombre = v
  <2>1. l.op \in {"leer", "escribir"} /\ l.nombre = v
    BY <1>4 DEF Lee, Escribe, Leyendo, Escribiendo
  <2> QED
    BY <1>3, <1>4, <2>1 DEF LineaVista, Linea
<1>6. /\ CpusVistas[c].paso = "respuesta" /\ CpusVistas[c].pid = cpu[c].pid
      /\ CpusVistas[c].pc = cpu[c].pc
  BY <1>1, CpuVistaEs
<1>7. ~V!Ociosa(c) /\ ~V!EnWait(c) /\ ~V!Ejecuta(c)
  BY <1>4, <1>5, <1>6 DEF V!Ociosa, V!EnWait, V!Ejecuta
<1>8. PICK h : h = HilosVistos[c]
  OBVIOUS
<1>9. HilosVistos[c] = HiloVisto(hilo[c]) /\ HiloEntero(hilo[c])
  BY <1>1, VistosEnteros DEF FormaHilos
<1>10. h.paso \in V!PasosPedido \cup {"recibir"}
  <2>1. h.paso \in V!PasosHilo /\ h.paso # "terminado"
    BY <1>1, <1>2, <1>8, V!DeHilo, ProgramasVistos, ParametrosVistos, DemasParametros
       DEF V!TipoHilo, V!Fase, V!InvPCP, V!Tipos
  <2>2. h.paso \in V!PasosLibres \cup V!PasosPedido \cup V!PasosFin \cup {"recibir"}
    BY <2>1, V!PasosPorFase, ParametrosVistos, DemasParametros
  <2>3. h.paso \notin V!PasosLibres \cup V!PasosFin
    BY <1>2, <1>7, <1>8 DEF V!Fase, V!FaseLibre, V!FaseFin, V!TrasWait
  <2> QED
    BY <2>2, <2>3
<1>11. h.paso \in V!PasosPedido =>
         /\ h.paso = "consulta" /\ V!Pregunta(c) /\ haciaCpu[c] = <<>> /\ conectada[c]
         /\ hilo[c].paso \in DosPasos /\ hilo[c].msg.nombre = v
  <2> SUFFICES ASSUME h.paso \in V!PasosPedido
               PROVE  /\ h.paso = "consulta" /\ V!Pregunta(c) /\ haciaCpu[c] = <<>> /\ conectada[c]
                      /\ hilo[c].paso \in DosPasos /\ hilo[c].msg.nombre = v
    OBVIOUS
  <2>1. /\ V!Pregunta(c) /\ HaciaCpuVisto[c] = <<>> /\ h.msg = V!Pedido(c)
        /\ h.paso = "consulta"
    BY <1>2, <1>4, <1>5, <1>8 DEF V!Fase, V!FasePedido, V!PasosPedido
  <2>2. haciaCpu[c] = <<>> /\ conectada[c]
    BY <1>1, <1>2, <2>1, CanalVacio DEF HaciaCpuVisto, FormaCanales, EsCanales, V!FaseCpu
  <2>3. h.msg.nombre = v
    <3>1. V!Pedido(c) = V!Mensaje("consulta", v, V!Nadie, 0)
      BY <1>4, <1>5 DEF V!Pedido
    <3> QED
      BY <2>1, <3>1 DEF V!Mensaje
  <2>4. PICK g : g = hilo[c]
    OBVIOUS
  <2>5. g.paso \in DosPasos /\ g.msg.nombre \in VariablesCompartidas
    <3>1. g.paso # "consulta"
      BY <1>1, <2>4 DEF Acorde, AcordeHilo
    <3> QED
      BY <1>8, <1>9, <2>1, <2>4, <3>1 DEF HiloVisto, DosPasos
  <2>6. h.msg = MensajeVisto(g.msg) /\ g.msg.op \in DeVariable
    BY <1>8, <1>9, <2>4, <2>5 DEF HiloVisto, HiloEntero, DosPasos, DeVariable
  <2>7. h.msg.nombre = g.msg.nombre
    BY <2>5, <2>6 DEF MensajeVisto, Mensaje
  <2> QED
    BY <2>1, <2>2, <2>3, <2>4, <2>5, <2>7
<1>12. h.paso = "recibir" => hilo[c].paso = "recibir" /\ (V!Pide(c) \/ V!Contestada(c))
  <2>1. ASSUME h.paso = "recibir" PROVE hilo[c].paso = "recibir"
    BY <1>8, <1>9, <2>1 DEF HiloVisto
  <2>2. ASSUME h.paso = "recibir" PROVE V!Pide(c) \/ V!Contestada(c)
    BY <1>2, <1>7, <1>8, <2>2 DEF V!Fase, V!FaseRecibir, V!Dada, V!Perdida, V!Corre, V!Devuelta
  <2> QED
    BY <2>1, <2>2
<1>13. V!EnCurso(c) /\ h.prog = cpu[c].pid /\ h.paso \in {"recibir", "consulta"}
  <2>1. V!Pregunta(c)
    BY <1>10, <1>11, <1>12 DEF V!Pide, V!Contestada
  <2> QED
    BY <1>6, <1>8, <1>10, <1>11, <1>12, <2>1 DEF V!Pregunta, V!EnCurso, V!PasosCurso
<1>14. cpu[c].pc = AvanceHastaElFin[cpu[c].pid]
  <2>1. V!AvanceHastaElFin[h.prog] = CpusVistas[c].pc
    BY <1>1, <1>8, <1>13, V!ContadorEnCurso, ProgramasVistos, ParametrosVistos, DemasParametros
       DEF InvTodo
  <2> QED
    BY <1>6, <1>13, <2>1 DEF InvTodo, SeVeIgual
<1>15. Lee(c, v) /\ haciaCpu[c] # <<>> => Head(haciaCpu[c]).op = "valorCompartida"
  <2> SUFFICES ASSUME Lee(c, v), haciaCpu[c] # <<>>
               PROVE  Head(haciaCpu[c]).op = "valorCompartida"
    OBVIOUS
  <2>1. EsCanal(haciaCpu[c]) /\ HaciaCpuVisto[c] = CanalVisto(haciaCpu[c])
    BY <1>1 DEF FormaCanales, EsCanales, HaciaCpuVisto
  <2>2. HaciaCpuVisto[c] # <<>>
    BY <2>1, CanalVacio
  <2>3. h.paso = "recibir" /\ V!Contestada(c)
    BY <1>1, <1>6, <1>7, <1>8, <2>2, DeCpuVisto DEF V!TrasWait
  <2>4. PICK op \in {"continuar", "terminar"} : HaciaCpuVisto[c] = <<V!Respuesta(op)>>
    BY <2>3 DEF V!Contestada
  <2>5. op = "continuar"
    <3>1. ASSUME op = "terminar" PROVE FALSE
      <4>1. V!Muere(c)
        BY <1>8, <2>3, <2>4, <3>1 DEF V!Muere
      <4>2. cpu[c].pc \in V!Finales[cpu[c].pid]
        BY <1>6, <1>8, <1>13, <4>1 DEF InvTodo, V!InvCorto, V!FinEnRegla, V!LineaFinal
      <4>3. V!PuedeTerminar(k)
        BY <1>3, <1>4, <1>6, <4>2 DEF V!Finales, V!Programas, Programas, V!LineaActual
      <4> QED
        BY <1>5, <4>3 DEF V!PuedeTerminar
    <3> QED
      BY <3>1
  <2>6. PICK m : m = Head(haciaCpu[c])
    OBVIOUS
  <2>7. MensajeVisto(m) = Head(HaciaCpuVisto[c]) /\ m \in EnCola(haciaCpu[c])
    <3>1. PICK s : s = haciaCpu[c] /\ EsCanal(s) /\ s # <<>>
      BY <2>1
    <3>2. Head(CanalVisto(s)) = MensajeVisto(Head(s)) /\ Head(s) \in EnCola(s)
      BY <3>1, RestosVistos, EnColaCambia
    <3> QED
      BY <2>1, <2>6, <3>1, <3>2
  <2>8. MensajeVisto(m).op = "continuar"
    BY <2>4, <2>5, <2>7 DEF V!Respuesta, V!Mensaje
  <2>9. m.op \in {"continuar", "valorCompartida"}
    BY <2>8, OpVista
  <2>10. m.op # "continuar"
    BY <1>1, <2>7 DEF Acorde, RespuestaAcorde, Lee
  <2> QED
    BY <2>6, <2>9, <2>10
<1> QED
  BY <1>3, <1>8, <1>10, <1>11, <1>12, <1>13, <1>14, <1>15 DEF DosPasos

\* What a thread is asked for is what its CPU waits for.
LEMMA EnPedido ==
  ASSUME TextosEnRegla, InvTodo, NEW c \in CPUs, hilo[c].paso \in DosPasos,
         hilo[c].msg.nombre \in VariablesCompartidas
  PROVE  /\ hilo[c].paso = "obtener" => Lee(c, hilo[c].msg.nombre)
         /\ hilo[c].paso = "asignar" => Escribe(c, hilo[c].msg.nombre)
<1>1. /\ FormaHilos /\ FormaCpus /\ Acorde(c) /\ V!InvPCP /\ InvVisto
  BY DEF InvTodo, InvVisto
<1>2. V!FaseCpu(c) /\ V!Fase(c)
  BY <1>1, FaseCpuVista DEF V!InvPCP, V!Protocolo
<1>3. /\ hilo[c].paso = "obtener" => Leyendo(c)
      /\ hilo[c].paso = "asignar" => Escribiendo(c)
  BY <1>1 DEF Acorde, AcordeHilo
<1>4. cpu[c].paso = "respuestaValor"
  BY <1>3 DEF Leyendo, Escribiendo, DosPasos
<1>5. PICK l, k : l = LineaActual(c) /\ k = V!LineaActual(c)
  OBVIOUS
<1>6. k = LineaVista(l) /\ l.op \in {"leer", "escribir"}
  BY <1>1, <1>2, <1>3, <1>4, <1>5, LineaActualVista DEF Leyendo, Escribiendo, DosPasos
<1>7. PICK g, h : g = hilo[c] /\ h = HilosVistos[c]
  OBVIOUS
<1>8. /\ h.paso = "consulta" /\ h.msg = MensajeVisto(g.msg) /\ g.msg.op \in DeVariable
  <2>1. h = HiloVisto(g) /\ HiloEntero(g)
    BY <1>1, <1>7, VistosEnteros DEF FormaHilos
  <2>2. g.paso \in DosPasos /\ g.msg.nombre \in VariablesCompartidas
    BY <1>7
  <2> QED
    BY <2>1, <2>2 DEF HiloEntero, HiloVisto, DosPasos, DeVariable
<1>9. h.msg = V!Pedido(c) /\ k.op = "consulta"
  BY <1>2, <1>5, <1>7, <1>8 DEF V!Fase, V!FasePedido, V!PasosPedido
<1>10. V!Pedido(c) = V!Mensaje("consulta", k.nombre, V!Nadie, 0)
  BY <1>5, <1>9 DEF V!Pedido
<1>11. h.msg.nombre = k.nombre
  BY <1>9, <1>10 DEF V!Mensaje
<1>12. h.msg.nombre = g.msg.nombre
  BY <1>7, <1>8 DEF MensajeVisto, Mensaje
<1>13. l.nombre = k.nombre
  BY <1>6, <1>9 DEF LineaVista, Linea
<1> QED
  BY <1>3, <1>5, <1>7, <1>11, <1>12, <1>13 DEF Lee, Escribe

\* No two CPUs wait for a variable for the same program.
LEMMA EnVariableUnico ==
  ASSUME TextosEnRegla, InvTodo, NEW c \in CPUs, NEW d \in CPUs, NEW v \in VariablesCompartidas,
         NEW w \in VariablesCompartidas, Lee(c, v) \/ Escribe(c, v), Lee(d, w) \/ Escribe(d, w),
         cpu[c].pid = cpu[d].pid
  PROVE  c = d
<1>1. /\ V!EnCurso(c) /\ HilosVistos[c].prog = cpu[c].pid
      /\ HilosVistos[c].paso \in {"recibir", "consulta"}
  BY EnVariable
<1>2. V!EnCurso(d) /\ HilosVistos[d].prog = cpu[c].pid
  BY EnVariable
<1>3. V!InvPCP /\ V!InvAvance
  BY DEF InvTodo, InvVisto
<1> QED
  BY <1>1, <1>2, <1>3, V!ContadorEnCurso, ProgramasVistos, ParametrosVistos, DemasParametros

-----------------------------------------------------------------------------
(* The values: a program that has read and has not written has the value of   *)
(* the variable, and whoever has read before has a lesser one.                *)

\* p is at an update of v: it has asked for its value, and the request to write it, if
\* there has been one, has not been answered.
HaLeido(p, v) == \E n \in 0..Termina(p) : n = AvanceHastaElFin[p] /\ TieneLeido(p, v, n)
Pendiente(c, v) == Escribe(c, v) /\ haciaCpu[c] = <<>>
Abierta(p, v) == HaLeido(p, v) \/ \E c \in CPUs : cpu[c].pid = p /\ Pendiente(c, v)
Leida(p, v) == Abierta(p, v) /\ \A c \in CPUs : cpu[c].pid = p => ~Lee(c, v)

PedidoConValor(c, v) ==
  Escribe(c, v) =>
    /\ \A m \in EnCola(haciaKernel[c]) : m.valor = propia[cpu[c].pid] + 1
    /\ hilo[c].paso = "asignar" => hilo[c].msg.valor = propia[cpu[c].pid] + 1
RespuestaConValor(c, v) ==
  Lee(c, v) => \A m \in EnCola(haciaCpu[c]) : m.valor = variables_compartidas[v]
AlDia(p, v) == Leida(p, v) => propia[p] = variables_compartidas[v]
Atras(p, v) ==
  p \in Leidas(v) =>
    /\ propia[p] \in Int /\ propia[p] <= variables_compartidas[v]
    /\ propia[p] = variables_compartidas[v] => Abierta(p, v)

InvValores ==
  /\ variables_compartidas \in [VariablesCompartidas -> Int]
  /\ propia = [p \in Programas |-> propia[p]]
  /\ \A v \in VariablesCompartidas :
       /\ \A c \in CPUs : PedidoConValor(c, v) /\ RespuestaConValor(c, v)
       /\ \A p \in Programas : AlDia(p, v) /\ Atras(p, v)
  /\ CadaUnoSuStep

\* Who is at an update is where its text updates.
LEMMA AbiertaActualiza ==
  ASSUME TextosEnRegla, InvTodo, NEW p \in Programas, NEW v \in VariablesCompartidas,
         Abierta(p, v)
  PROVE  \E n \in 1..Termina(p) : n = AvanceHastaElFin[p] /\ Actualiza(p, v, n)
<1>1. ASSUME NEW n \in 0..Termina(p), n = AvanceHastaElFin[p], TieneLeido(p, v, n)
      PROVE  n \in 1..Termina(p) /\ Actualiza(p, v, n)
  <2>1. n # 0
    BY <1>1, LineaDeVariable
  <2> QED
    BY <1>1, <2>1 DEF Actualiza
<1>2. ASSUME NEW c \in CPUs, cpu[c].pid = p, Escribe(c, v)
      PROVE  \E n \in 1..Termina(p) : n = AvanceHastaElFin[p] /\ Actualiza(p, v, n)
  <2>1. PICK n \in 1..Termina(p) : n = cpu[c].pc /\ n = AvanceHastaElFin[p]
    BY <1>2, EnVariable
  <2>2. Codigo[p][n].op = "escribir" /\ Codigo[p][n].nombre = v
    BY <1>2, <2>1 DEF Escribe, Escribiendo, LineaActual
  <2> QED
    BY <2>1, <2>2 DEF Actualiza
<1> QED
  BY <1>1, <1>2 DEF Abierta, HaLeido, Pendiente

\* Who waits for a value is at an update.
LEMMA LeeActualiza ==
  ASSUME TextosEnRegla, InvTodo, NEW c \in CPUs, NEW v \in VariablesCompartidas, Lee(c, v)
  PROVE  \E p \in Programas : \E n \in 1..Termina(p) :
           /\ p = cpu[c].pid /\ n = cpu[c].pc /\ n = AvanceHastaElFin[p]
           /\ Codigo[p][n].op = "leer" /\ Codigo[p][n].nombre = v
           /\ TieneLeido(p, v, n) /\ Actualiza(p, v, n) /\ Abierta(p, v)
<1>1. PICK p \in Programas : p = cpu[c].pid
  BY EnVariable
<1>2. PICK n \in 1..Termina(p) : n = cpu[c].pc /\ n = AvanceHastaElFin[p]
  BY <1>1, EnVariable
<1>3. Codigo[p][n].op = "leer" /\ Codigo[p][n].nombre = v
  BY <1>1, <1>2 DEF Lee, Leyendo, LineaActual
<1>4. TieneLeido(p, v, n)
  BY <1>3 DEF TieneLeido
<1>5. Actualiza(p, v, n) /\ Abierta(p, v)
  BY <1>2, <1>4 DEF Actualiza, Abierta, HaLeido
<1> QED
  BY <1>1, <1>2, <1>3, <1>4, <1>5

\* A CPU that does not step waits for what it waited.
LEMMA VariableIgual ==
  ASSUME NEW x, cpu'[x] = cpu[x], NEW v
  PROVE  (Lee(x, v)' <=> Lee(x, v)) /\ (Escribe(x, v)' <=> Escribe(x, v))
<1>1. LineaActual(x)' = LineaActual(x)
  BY DEF LineaActual
<1> QED
  BY <1>1 DEF Lee, Escribe, Leyendo, Escribiendo

\* Nor do its messages change.
LEMMA ValorIgual ==
  ASSUME NEW x \in CPUs, NEW v \in VariablesCompartidas, cpu'[x] = cpu[x], hilo'[x] = hilo[x],
         haciaCpu'[x] = haciaCpu[x], haciaKernel'[x] = haciaKernel[x],
         Escribe(x, v) => propia'[cpu[x].pid] = propia[cpu[x].pid],
         Lee(x, v) => variables_compartidas'[v] = variables_compartidas[v],
         PedidoConValor(x, v), RespuestaConValor(x, v)
  PROVE  PedidoConValor(x, v)' /\ RespuestaConValor(x, v)'
<1>1. (Lee(x, v)' <=> Lee(x, v)) /\ (Escribe(x, v)' <=> Escribe(x, v))
  BY VariableIgual
<1>2. PICK K, C : K = EnCola(haciaKernel[x]) /\ C = EnCola(haciaCpu[x])
  OBVIOUS
<1>3. EnCola(haciaKernel[x])' = K /\ EnCola(haciaCpu[x])' = C
  BY <1>2 DEF EnCola
<1>4. PedidoConValor(x, v)'
  BY <1>1, <1>2, <1>3 DEF PedidoConValor
<1>5. RespuestaConValor(x, v)'
  BY <1>1, <1>2, <1>3 DEF RespuestaConValor
<1> QED
  BY <1>4, <1>5

-----------------------------------------------------------------------------
(* What a step does to the updates.                                           *)

\* The counter of a program, before a step and after it, is in its text.
LEMMA ContadorEnTexto ==
  ASSUME TextosEnRegla, InvTodo, InvTodo', NEW p \in Programas
  PROVE  /\ AvanceHastaElFin[p] \in 0..Termina(p) /\ AvanceHastaElFin'[p] \in 0..Termina(p)
         /\ Termina(p) \in Nat
<1>1. V!Final(p) = Termina(p) /\ Termina(p) \in Nat
  BY CodigoVistoEs DEF V!Final
<1>2. /\ V!AvanceHastaElFin[p] \in 0..V!Final(p)
      /\ V!AvanceHastaElFin'[p] \in 0..V!Final(p)
  BY DEF InvTodo, V!AvanceEnTexto, V!Programas, Programas
<1>3. V!AvanceHastaElFin = AvanceHastaElFin /\ V!AvanceHastaElFin' = AvanceHastaElFin'
  BY DEF InvTodo, SeVeIgual
<1> QED
  BY <1>1, <1>2, <1>3

\* What has been read depends on the counter only.
LEMMA HaLeidoPorContador ==
  ASSUME TextosEnRegla, InvTodo, InvTodo', NEW p \in Programas, NEW v,
         NEW n, n = AvanceHastaElFin[p], NEW m, m = AvanceHastaElFin'[p]
  PROVE  (HaLeido(p, v) <=> TieneLeido(p, v, n)) /\ (HaLeido(p, v)' <=> TieneLeido(p, v, m))
<1>1. n \in 0..Termina(p) /\ m \in 0..Termina(p)
  BY ContadorEnTexto
<1>2. HaLeido(p, v) <=> TieneLeido(p, v, n)
  BY <1>1 DEF HaLeido
<1>3. HaLeido(p, v)' <=> \E k \in 0..Termina(p) : k = AvanceHastaElFin'[p] /\ TieneLeido(p, v, k)
  BY DEF HaLeido, TieneLeido
<1> QED
  BY <1>1, <1>2, <1>3

\* Who had not read has not, who was at an update is.
Nada(p, v) == (Leida(p, v)' => Leida(p, v)) /\ (Abierta(p, v) => Abierta(p, v)')

\* CPU d does the same about v for program p.
IgualPara(d, p, v) ==
  /\ (cpu'[d].pid = p /\ Pendiente(d, v)') <=> (cpu[d].pid = p /\ Pendiente(d, v))
  /\ (cpu'[d].pid = p /\ Lee(d, v)') <=> (cpu[d].pid = p /\ Lee(d, v))

\* So it does if it neither steps nor is answered;
LEMMA IgualQuieta ==
  ASSUME NEW d, cpu'[d] = cpu[d], NEW p, NEW v, Escribe(d, v) => haciaCpu'[d] = haciaCpu[d]
  PROVE  IgualPara(d, p, v)
<1>1. (Lee(d, v)' <=> Lee(d, v)) /\ (Escribe(d, v)' <=> Escribe(d, v))
  BY VariableIgual
<1> QED
  BY <1>1 DEF IgualPara, Pendiente

\* and if all do, and the program has read what it had, its update is where it was.
LEMMA NadaCambia ==
  ASSUME NEW p, NEW v, HaLeido(p, v)' <=> HaLeido(p, v), \A d \in CPUs : IgualPara(d, p, v)
  PROVE  Nada(p, v)
<1>1. Abierta(p, v)' <=> Abierta(p, v)
  BY DEF Abierta, IgualPara
<1>2. (\A d \in CPUs : cpu[d].pid = p => ~Lee(d, v))'
        <=> (\A d \in CPUs : cpu[d].pid = p => ~Lee(d, v))
  BY DEF IgualPara
<1> QED
  BY <1>1, <1>2 DEF Nada, Leida

\* A step that changes no value and no update keeps the invariant, if what is sent
\* carries the values.
LEMMA ValoresQuietos ==
  ASSUME InvValores, UNCHANGED compartidas,
         \A v \in VariablesCompartidas :
           /\ \A c \in CPUs : PedidoConValor(c, v)' /\ RespuestaConValor(c, v)'
           /\ \A p \in Programas : Nada(p, v)
  PROVE  InvValores'
<1>1. variables_compartidas' = variables_compartidas /\ propia' = propia
  BY DEF compartidas
<1>2. \A v : Leidas(v)' = Leidas(v)
  BY <1>1 DEF Leidas
<1>3. ASSUME NEW v \in VariablesCompartidas, NEW p \in Programas
      PROVE  AlDia(p, v)' /\ Atras(p, v)'
  <2>1. Nada(p, v) /\ AlDia(p, v) /\ Atras(p, v)
    BY <1>3 DEF InvValores
  <2>2. AlDia(p, v)'
    BY <1>1, <2>1 DEF AlDia, Nada
  <2>3. Atras(p, v)'
    BY <1>1, <1>2, <2>1 DEF Atras, Nada
  <2> QED
    BY <2>2, <2>3
<1>4. CadaUnoSuStep'
  BY <1>1, <1>2 DEF InvValores, CadaUnoSuStep
<1>5. /\ variables_compartidas' \in [VariablesCompartidas -> Int]
      /\ (propia = [p \in Programas |-> propia[p]])'
  BY <1>1 DEF InvValores
<1> QED
  BY <1>3, <1>4, <1>5 DEF InvValores

-----------------------------------------------------------------------------
(* The kernel's steps that assign no variable.                                *)

\* The kernel leaves the counter of a program where it is, or ends the program.
LEMMA ContadorDelKernel ==
  ASSUME TextosEnRegla, InvTodo, InvTodo', V!NextPCP, UNCHANGED CpusVistas, NEW p \in Programas
  PROVE  \/ AvanceHastaElFin'[p] = AvanceHastaElFin[p]
         \/ AvanceHastaElFin'[p] = 0 /\ AvanceHastaElFin[p] \in FinalesCompartidas[p]
<1>1. V!InvPCP /\ V!InvPCP' /\ V!InvAvance /\ V!InvCorto /\ p \in V!Programas
  BY DEF InvTodo, InvVisto, V!Programas, Programas
<1>2. \/ V!AvanceHastaElFin'[p] = V!AvanceHastaElFin[p]
      \/ V!AvanceHastaElFin'[p] = 0 /\ V!AvanceHastaElFin[p] \in V!Finales[p]
  BY <1>1, V!FinDelKernel, ProgramasVistos, ParametrosVistos, DemasParametros
<1>3. V!AvanceHastaElFin = AvanceHastaElFin /\ V!AvanceHastaElFin' = AvanceHastaElFin'
  BY DEF InvTodo, SeVeIgual
<1> QED
  BY <1>2, <1>3, FinalesVistos

\* It ends none that has read a variable and has not written it.
LEMMA LeidoDelKernel ==
  ASSUME TextosEnRegla, ActualizacionesEnRegla, InvTodo, InvTodo', V!NextPCP,
         UNCHANGED CpusVistas, NEW p \in Programas, NEW v \in VariablesCompartidas
  PROVE  HaLeido(p, v)' <=> HaLeido(p, v)
<1>1. PICK n, m : n = AvanceHastaElFin[p] /\ m = AvanceHastaElFin'[p]
  OBVIOUS
<1>2. (HaLeido(p, v) <=> TieneLeido(p, v, n)) /\ (HaLeido(p, v)' <=> TieneLeido(p, v, m))
  BY <1>1, HaLeidoPorContador
<1>3. m = n \/ (m = 0 /\ n \in FinalesCompartidas[p])
  BY <1>1, ContadorDelKernel
<1>4. CASE m = n
  BY <1>2, <1>4
<1>5. CASE m = 0 /\ n \in FinalesCompartidas[p]
  <2>1. ~TieneLeido(p, v, 0)
    BY LineaDeVariable
  <2>2. ASSUME TieneLeido(p, v, n) PROVE FALSE
    <3>1. n \in 0..Termina(p) /\ n # 0
      BY <1>1, <2>1, <2>2, ContadorEnTexto
    <3>2. n \in 1..Termina(p) /\ Actualiza(p, v, n)
      BY <2>2, <3>1 DEF Actualiza
    <3>3. Protege(Cuida(v), v)
      BY CuidaEs
    <3> QED
      BY <1>5, <3>2, <3>3 DEF Protege
  <2> QED
    BY <1>2, <1>5, <2>1, <2>2
<1> QED
  BY <1>3, <1>4, <1>5

\* So such a step keeps the values, if what it sends carries them.
LEMMA ValoresDelKernel ==
  ASSUME TextosEnRegla, ActualizacionesEnRegla, InvTodo, InvTodo', InvValores, V!NextPCP,
         UNCHANGED CpusVistas, UNCHANGED <<cpu, compartidas>>,
         \A d \in CPUs : \A v \in VariablesCompartidas :
           /\ PedidoConValor(d, v)' /\ RespuestaConValor(d, v)'
           /\ Escribe(d, v) => haciaCpu'[d] = haciaCpu[d]
  PROVE  InvValores'
<1>1. ASSUME NEW v \in VariablesCompartidas, NEW p \in Programas PROVE Nada(p, v)
  <2>1. \A d \in CPUs : IgualPara(d, p, v)
    BY IgualQuieta
  <2>2. HaLeido(p, v)' <=> HaLeido(p, v)
    BY LeidoDelKernel
  <2> QED
    BY <2>1, <2>2, NadaCambia
<1> QED
  BY <1>1, ValoresQuietos

\* What a thread does that handles another message.
LEMMA MensajesDeHilo ==
  ASSUME TextosEnRegla, InvTodo, InvValores, NEW c \in CPUs, pfnControladorConexion(c),
         UNCHANGED <<cpu, compartidas>>, NEW d \in CPUs, NEW v \in VariablesCompartidas
  PROVE  /\ PedidoConValor(d, v)' /\ RespuestaConValor(d, v)'
         /\ Escribe(d, v) => haciaCpu'[d] = haciaCpu[d]
<1>1. /\ FormaHilos /\ FormaCanales /\ Acorde(c)
      /\ PedidoConValor(d, v) /\ RespuestaConValor(d, v)
      /\ cpu' = cpu /\ propia' = propia /\ variables_compartidas' = variables_compartidas
  BY DEF InvTodo, InvVisto, InvValores, compartidas
<1>2. (Lee(d, v)' <=> Lee(d, v)) /\ (Escribe(d, v)' <=> Escribe(d, v))
  BY <1>1, VariableIgual
<1>3. ASSUME NEW x \in CPUs \ {c}
      PROVE  hilo'[x] = hilo[x] /\ haciaCpu'[x] = haciaCpu[x] /\ haciaKernel'[x] = haciaKernel[x]
  <2>1. CASE Recibir(c)
    BY <1>1, <2>1, RecibirVisto DEF Queda
  <2>2. CASE Enviar(c)
    <3>1. UNCHANGED haciaKernel
      BY <2>2 DEF Enviar
    <3> QED
      BY <1>1, <2>2, <3>1, EnviarVisto DEF Queda, Contesta
  <2>3. CASE Interno(c)
    <3>1. UNCHANGED <<haciaCpu, haciaKernel>>
      BY <2>3 DEF Interno, canales
    <3> QED
      BY <1>1, <2>3, <3>1, InternoVisto DEF Queda
  <2> QED
    BY <2>1, <2>2, <2>3 DEF pfnControladorConexion
<1>4. CASE d # c
  BY <1>1, <1>3, <1>4, ValorIgual
<1>5. CASE d = c /\ ~Lee(c, v) /\ ~Escribe(c, v)
  BY <1>2, <1>5 DEF PedidoConValor, RespuestaConValor
<1>6. CASE d = c /\ (Lee(c, v) \/ Escribe(c, v))
  <2>1. hilo[c].paso \in {"obtener", "asignar", "recibir"}
    BY <1>6, EnVariable DEF DosPasos
  <2>2. ~Enviar(c)
    BY <2>1 DEF Enviar, EnviarPcb, Consulta, WaitInexistente, WaitProbar, WaitBloquear,
       SignalInexistente, SignalResponder
  <2>3. ~Interno(c)
    BY <2>1 DEF Interno, EsperarReady, SacarReady, CargarExec, WaitLeer, WaitEscribir, WaitSacar,
       WaitEncolar, SignalLeer, SignalEscribir, SignalProbar, SignalSacar, SignalReady,
       SignalPost, IoPcb, IoEncolar, IoSacar, IoPost, RecargarSacar, RecargarReady,
       RecargarPost, ExitSacar, ExitAgregar
  <2>4. haciaCpu' = haciaCpu /\ (RecibirMensaje(c) \/ RecibirFin(c))
    BY <2>2, <2>3 DEF pfnControladorConexion, Recibir
  <2>5. PICK C, K, K1 : C = EnCola(haciaCpu[c]) /\ K = EnCola(haciaKernel[c])
                          /\ K1 = EnCola(haciaKernel'[c])
    OBVIOUS
  <2>6. EnCola(haciaCpu[c])' = C /\ EnCola(haciaKernel[c])' = K1
    BY <2>4, <2>5 DEF EnCola
  <2>7. RespuestaConValor(c, v)'
    BY <1>1, <1>2, <1>6, <2>5, <2>6 DEF RespuestaConValor
  <2>8. K1 \subseteq K /\ (hilo'[c].paso = "asignar" => hilo'[c].msg \in K)
    <3>1. CASE RecibirMensaje(c)
      <4>1. PICK m, p : m = Head(haciaKernel[c]) /\ p = PasoPara(m)
        OBVIOUS
      <4>2. /\ haciaKernel[c] # <<>>
            /\ haciaKernel' \in {[haciaKernel EXCEPT ![c] = r] : r \in Restos(haciaKernel[c])}
            /\ hilo' = [hilo EXCEPT ![c].msg = m, ![c].paso = p]
        BY <3>1, <4>1 DEF RecibirMensaje
      <4>3. K1 \subseteq K /\ m \in K
        BY <1>1, <2>5, <4>1, <4>2, RecibeKernelVisto
      <4>4. HiloEntero(hilo[c]) /\ hilo = [x \in CPUs |-> hilo[x]]
        BY <1>1 DEF FormaHilos
      <4>5. hilo'[c].msg = m
        BY <4>2, <4>4 DEF HiloEntero
      <4> QED
        BY <4>3, <4>5
    <3>2. CASE RecibirFin(c)
      <4>1. haciaKernel' = haciaKernel
        BY <3>2 DEF RecibirFin
      <4>2. PICK m : m = Respuesta("desconexion")
        OBVIOUS
      <4>3. hilo' = [hilo EXCEPT ![c].msg = m, ![c].paso = "exitSacar"]
        BY <3>2, <4>2 DEF RecibirFin
      <4>4. HiloEntero(hilo[c]) /\ hilo = [x \in CPUs |-> hilo[x]]
        BY <1>1 DEF FormaHilos
      <4>5. hilo'[c].paso = "exitSacar"
        BY <4>3, <4>4 DEF HiloEntero
      <4> QED
        BY <2>5, <4>1, <4>5
    <3> QED
      BY <2>4, <3>1, <3>2
  <2>9. PedidoConValor(c, v)'
    <3>1. PICK x : x = propia[cpu[c].pid] + 1
      OBVIOUS
    <3>2. (propia[cpu[c].pid] + 1)' = x
      BY <1>1, <3>1
    <3>3. Escribe(c, v) => \A m \in K : m.valor = x
      BY <1>1, <1>6, <2>5, <3>1 DEF PedidoConValor
    <3>4. ASSUME Escribe(c, v)' PROVE \A m \in K : m.valor = x
      BY <1>2, <1>6, <3>3, <3>4
    <3>5. ASSUME Escribe(c, v)'
          PROVE  /\ \A m \in K1 : m.valor = x
                 /\ hilo'[c].paso = "asignar" => hilo'[c].msg.valor = x
      BY <2>8, <3>4, <3>5
    <3> QED
      BY <2>6, <3>2, <3>5 DEF PedidoConValor
  <2> QED
    BY <1>6, <2>4, <2>7, <2>9
<1> QED
  BY <1>4, <1>5, <1>6

\* What a thread does that answers about a variable and assigns none that exists.
LEMMA MensajesDeVariable ==
  ASSUME TextosEnRegla, InvTodo, InvValores, NEW c \in CPUs,
         \/ obtenerVariable(c)
         \/ asignarVariable(c) /\ hilo[c].msg.nombre \notin VariablesCompartidas,
         UNCHANGED <<haciaKernel, conectada, cpu, propia>>,
         NEW d \in CPUs, NEW v \in VariablesCompartidas
  PROVE  /\ PedidoConValor(d, v)' /\ RespuestaConValor(d, v)'
         /\ Escribe(d, v) => haciaCpu'[d] = haciaCpu[d]
         /\ UNCHANGED compartidas
<1>1. /\ FormaHilos /\ FormaCanales /\ Acorde(c)
      /\ PedidoConValor(d, v) /\ RespuestaConValor(d, v)
      /\ cpu' = cpu /\ propia' = propia /\ haciaKernel' = haciaKernel
  BY DEF InvTodo, InvVisto, InvValores
<1>2. UNCHANGED compartidas /\ variables_compartidas' = variables_compartidas
  BY <1>1 DEF obtenerVariable, asignarVariable, compartidas
<1>3. (Lee(d, v)' <=> Lee(d, v)) /\ (Escribe(d, v)' <=> Escribe(d, v))
  BY <1>1, VariableIgual
<1>4. /\ Queda(c, "recibir") /\ \A x \in CPUs \ {c} : haciaCpu'[x] = haciaCpu[x]
      /\ hilo[c].paso \in DosPasos
  BY <1>1, VariableVista DEF Contesta, obtenerVariable, asignarVariable, DosPasos
<1>5. CASE d # c
  BY <1>1, <1>2, <1>4, <1>5, ValorIgual DEF Queda
<1>6. CASE d = c /\ ~Lee(c, v) /\ ~Escribe(c, v)
  BY <1>2, <1>3, <1>6 DEF PedidoConValor, RespuestaConValor
<1>7. CASE d = c /\ (Lee(c, v) \/ Escribe(c, v))
  <2>1. hilo[c].msg.nombre = v /\ haciaCpu[c] = <<>>
    BY <1>4, <1>7, EnVariable
  <2>2. obtenerVariable(c) /\ hilo[c].paso = "obtener"
    BY <2>1 DEF obtenerVariable
  <2>3. Leyendo(c) /\ ~Escribiendo(c)
    BY <1>1, <2>2 DEF Acorde, AcordeHilo, Leyendo, Escribiendo
  <2>4. ~Escribe(c, v)
    BY <2>3 DEF Escribe
  <2>5. PICK x, m : /\ x = variables_compartidas[v]
                    /\ m = MensajeValor("valorCompartida", SinNombre, x)
    OBVIOUS
  <2>6. Responder(c, m)
    BY <2>1, <2>2, <2>5 DEF obtenerVariable
  <2>7. PICK C, C1 : C = EnCola(haciaCpu[c]) /\ C1 = EnCola(haciaCpu'[c])
    OBVIOUS
  <2>8. C1 \subseteq C \cup {m} /\ C = {}
    <3>1. EnCola(haciaCpu'[c]) \subseteq EnCola(haciaCpu[c]) \cup {m}
      BY <1>1, <2>6, ResponderVisto
    <3>2. EnCola(<<>>) = {}
      BY DEF EnCola
    <3> QED
      BY <2>1, <2>7, <3>1, <3>2
  <2>9. m.valor = x
    BY <2>5 DEF MensajeValor
  <2>10. EnCola(haciaCpu[c])' = C1 /\ variables_compartidas[v]' = x
    BY <1>2, <2>5, <2>7 DEF EnCola
  <2>11. RespuestaConValor(c, v)'
    BY <2>8, <2>9, <2>10 DEF RespuestaConValor
  <2>12. PedidoConValor(c, v)'
    BY <1>3, <1>7, <2>4 DEF PedidoConValor
  <2> QED
    BY <1>2, <1>7, <2>4, <2>11, <2>12
<1> QED
  BY <1>5, <1>6, <1>7

\* What the PLP and the devices do, too.
LEMMA MensajesQuietos ==
  ASSUME InvValores, UNCHANGED <<hilo, haciaCpu, haciaKernel, cpu, compartidas>>,
         NEW d \in CPUs, NEW v \in VariablesCompartidas
  PROVE  /\ PedidoConValor(d, v)' /\ RespuestaConValor(d, v)'
         /\ Escribe(d, v) => haciaCpu'[d] = haciaCpu[d]
<1>1. PedidoConValor(d, v) /\ RespuestaConValor(d, v)
  BY DEF InvValores
<1>2. /\ cpu'[d] = cpu[d] /\ hilo'[d] = hilo[d] /\ haciaCpu'[d] = haciaCpu[d]
      /\ haciaKernel'[d] = haciaKernel[d]
      /\ propia' = propia /\ variables_compartidas' = variables_compartidas
  BY DEF compartidas
<1> QED
  BY <1>1, <1>2, ValorIgual

\* Every step of the kernel but an assignment.
LEMMA KernelConValores ==
  ASSUME TextosEnRegla, ActualizacionesEnRegla, InvTodo, InvTodo', InvValores,
         \/ NextPCP /\ UNCHANGED <<cpu, compartidas>>
         \/ \E c \in CPUs :
              /\ vivo /\ UNCHANGED <<haciaKernel, conectada, cpu, propia>>
              /\ \/ obtenerVariable(c)
                 \/ asignarVariable(c) /\ hilo[c].msg.nombre \notin VariablesCompartidas
  PROVE  InvValores'
<1>1. InvVisto
  BY DEF InvTodo
<1>2. CASE NextPCP /\ UNCHANGED <<cpu, compartidas>>
  <2>1. V!NextPCP /\ UNCHANGED CpusVistas
    BY <1>1, <1>2, KernelVisto
  <2>2. \A d \in CPUs : \A v \in VariablesCompartidas :
           /\ PedidoConValor(d, v)' /\ RespuestaConValor(d, v)'
           /\ Escribe(d, v) => haciaCpu'[d] = haciaCpu[d]
    <3>1. CASE Admision
      <4>1. UNCHANGED <<hilo, haciaCpu, haciaKernel>>
        BY <3>1 DEF Admision, canales, PonerEnReady, PostProductor
      <4> QED
        BY <1>2, <4>1, MensajesQuietos
    <3>2. ASSUME NEW x \in Dispositivos, fnDispositivos(x)
          PROVE  UNCHANGED <<hilo, haciaCpu, haciaKernel>>
      BY <3>2 DEF fnDispositivos, canales, DispEsperar, DispSacar, DispReady, DispPost
    <3>3. CASE \E x \in Dispositivos : fnDispositivos(x)
      BY <1>2, <3>2, <3>3, MensajesQuietos
    <3>4. CASE \E c \in CPUs : pfnControladorConexion(c)
      BY <1>2, <3>4, MensajesDeHilo
    <3> QED
      BY <1>2, <3>1, <3>3, <3>4 DEF NextPCP
  <2> QED
    BY <1>2, <2>1, <2>2, ValoresDelKernel
<1>3. ASSUME NEW c \in CPUs, vivo, UNCHANGED <<haciaKernel, conectada, cpu, propia>>,
             \/ obtenerVariable(c)
             \/ asignarVariable(c) /\ hilo[c].msg.nombre \notin VariablesCompartidas
      PROVE  InvValores'
  <2>1. V!pfnControladorConexion(c) /\ UNCHANGED CpusVistas
    BY <1>1, <1>3, AtenderVariableVisto
  <2>2. V!NextPCP
    BY <2>1 DEF V!NextPCP
  <2>3. UNCHANGED <<cpu, compartidas>>
    <3>1. variables_compartidas' = variables_compartidas
      BY <1>3 DEF obtenerVariable, asignarVariable
    <3> QED
      BY <1>3, <3>1 DEF compartidas
  <2>4. \A d \in CPUs : \A v \in VariablesCompartidas :
           /\ PedidoConValor(d, v)' /\ RespuestaConValor(d, v)'
           /\ Escribe(d, v) => haciaCpu'[d] = haciaCpu[d]
    BY <1>3, MensajesDeVariable
  <2> QED
    BY <2>1, <2>2, <2>3, <2>4, ValoresDelKernel
<1> QED
  BY <1>2, <1>3

-----------------------------------------------------------------------------
(* The assignment.                                                            *)

\* No two programs are at an update of the same variable.
LEMMA AbiertaSola ==
  ASSUME TextosEnRegla, InvTodo, Solos, NEW v \in VariablesCompartidas,
         NEW p \in Programas, NEW q \in Programas, Abierta(p, v), Abierta(q, v)
  PROVE  p = q
<1>1. PICK n \in 1..Termina(p) : n = AvanceHastaElFin[p] /\ Actualiza(p, v, n)
  BY AbiertaActualiza
<1>2. PICK m \in 1..Termina(q) : m = AvanceHastaElFin[q] /\ Actualiza(q, v, m)
  BY AbiertaActualiza
<1> QED
  BY <1>1, <1>2 DEF Solos

\* A variable is assigned by the only program that has read it and not written it, whose
\* value is the variable's: the new value is one more, and the program is done.
LEMMA AsignarConValores ==
  ASSUME TextosEnRegla, ActualizacionesEnRegla, InvTodo, InvTodo', InvValores, Solos,
         NEW c \in CPUs, asignarVariable(c), hilo[c].msg.nombre \in VariablesCompartidas,
         vivo, UNCHANGED <<haciaKernel, conectada, cpu, propia>>
  PROVE  InvValores'
<1>1. /\ FormaHilos /\ FormaCanales /\ InvVisto
      /\ cpu' = cpu /\ propia' = propia /\ haciaKernel' = haciaKernel
      /\ variables_compartidas \in [VariablesCompartidas -> Int]
      /\ (propia = [q \in Programas |-> propia[q]])'
  BY DEF InvTodo, InvVisto, InvValores
<1>2. PICK w \in VariablesCompartidas : w = hilo[c].msg.nombre
  OBVIOUS
<1>3. hilo[c].paso = "asignar" /\ Escribe(c, w)
  BY <1>2, EnPedido DEF asignarVariable, DosPasos
<1>4. (\A v : ~Lee(c, v)) /\ (\A v : v # w => ~Escribe(c, v))
  BY <1>3 DEF Lee, Leyendo, Escribe, Escribiendo
<1>5. PICK p \in Programas : p = cpu[c].pid
  BY <1>3, EnVariable
<1>6. PICK n \in 1..Termina(p) : n = cpu[c].pc /\ n = AvanceHastaElFin[p]
  BY <1>3, <1>5, EnVariable
<1>7. haciaCpu[c] = <<>> /\ conectada[c]
  BY <1>3, EnVariable DEF DosPasos
<1>8. PICK x : x = hilo[c].msg.valor /\ x = propia[p] + 1
  <2>1. PedidoConValor(c, w)
    BY DEF InvValores
  <2> QED
    BY <1>3, <1>5, <2>1 DEF PedidoConValor
<1>9. \A d \in CPUs : \A v \in VariablesCompartidas :
        cpu[d].pid = p /\ (Lee(d, v) \/ Escribe(d, v)) => d = c
  BY <1>3, <1>5, EnVariableUnico
<1>10. Abierta(p, w) /\ propia[p] = variables_compartidas[w]
  <2>1. Abierta(p, w)
    BY <1>3, <1>5, <1>7 DEF Abierta, Pendiente
  <2>2. Leida(p, w)
    BY <1>4, <1>9, <2>1 DEF Leida
  <2>3. AlDia(p, w)
    BY DEF InvValores
  <2> QED
    BY <2>1, <2>2, <2>3 DEF AlDia
<1>11. /\ variables_compartidas' = [variables_compartidas EXCEPT ![w] = x]
       /\ Responder(c, MensajeValor("continuar", SinNombre, x))
  BY <1>2, <1>8 DEF asignarVariable
<1>12. /\ variables_compartidas[w] \in Int
       /\ variables_compartidas'[w] = variables_compartidas[w] + 1
       /\ variables_compartidas' \in [VariablesCompartidas -> Int]
       /\ \A v \in VariablesCompartidas : v # w =>
            variables_compartidas'[v] = variables_compartidas[v]
  <2>1. variables_compartidas[w] \in Int /\ x = variables_compartidas[w] + 1
    BY <1>1, <1>8, <1>10
  <2> QED
    BY <1>1, <1>11, <2>1
<1>13. /\ Queda(c, "recibir") /\ \A d \in CPUs \ {c} : haciaCpu'[d] = haciaCpu[d]
       /\ haciaCpu'[c] # <<>>
  <2>1. Queda(c, "recibir") /\ \A d \in CPUs \ {c} : haciaCpu'[d] = haciaCpu[d]
    BY <1>1, VariableVista DEF Contesta
  <2>2. PICK m : m = MensajeValor("continuar", SinNombre, x)
    OBVIOUS
  <2>3. PICK F, G : F = haciaCpu /\ G = haciaCpu'
    OBVIOUS
  <2>4. G = ConMensaje(F, c, m) /\ EsCanales(F)
    BY <1>1, <1>7, <1>11, <2>2, <2>3 DEF ConMensaje, Responder, EnviarACpu, FormaCanales
  <2>5. G[c] = Append(F[c], m) /\ EsCanal(F[c])
    BY <2>4, CanalEnviado DEF EsCanales
  <2>6. m \in EnCola(G[c])
    BY <2>5, EnColaCambia
  <2>7. EnCola(<<>>) = {}
    BY DEF EnCola
  <2> QED
    BY <2>1, <2>3, <2>6, <2>7
<1>14. V!NextPCP /\ UNCHANGED CpusVistas
  BY <1>1, AtenderVariableVisto DEF V!NextPCP
<1>15. ASSUME NEW q \in Programas, NEW v \in VariablesCompartidas, q # p \/ v # w
       PROVE  Nada(q, v)
  <2>1. ASSUME NEW d \in CPUs PROVE IgualPara(d, q, v)
    <3>1. CASE d # c \/ v # w
      BY <1>1, <1>4, <1>13, <3>1, IgualQuieta
    <3>2. CASE d = c /\ q # p
      BY <1>1, <1>5, <3>2 DEF IgualPara
    <3> QED
      BY <1>15, <3>1, <3>2
  <2>2. HaLeido(q, v)' <=> HaLeido(q, v)
    BY <1>14, LeidoDelKernel
  <2> QED
    BY <2>1, <2>2, NadaCambia
<1>16. ~Abierta(p, w)'
  <2>1. ~HaLeido(p, w)'
    <3>1. Codigo[p][n].op = "escribir" /\ Codigo[p][n].nombre = w
      BY <1>3, <1>5, <1>6 DEF Escribe, Escribiendo, LineaActual
    <3>2. PICK k \in Nat : n = k + 1
      <4>1. Termina(p) \in Nat
        BY ContadorEnTexto
      <4>2. n - 1 \in Nat /\ n = (n - 1) + 1
        BY <4>1
      <4> QED
        BY <4>2
    <3>3. ~TieneLeido(p, w, n)
      BY <3>1, <3>2, LineaDeVariable
    <3>4. HaLeido(p, w) <=> TieneLeido(p, w, n)
      <4>1. PICK m : m = AvanceHastaElFin'[p]
        OBVIOUS
      <4> QED
        BY <1>6, <4>1, HaLeidoPorContador
    <3> QED
      BY <1>14, <3>3, <3>4, LeidoDelKernel
  <2>2. ASSUME NEW d \in CPUs, cpu'[d].pid = p, Pendiente(d, w)' PROVE FALSE
    <3>1. Escribe(d, w)' <=> Escribe(d, w)
      BY <1>1, VariableIgual
    <3>2. Escribe(d, w) /\ haciaCpu'[d] = <<>> /\ cpu[d].pid = p
      BY <1>1, <2>2, <3>1 DEF Pendiente
    <3> QED
      BY <1>9, <1>13, <3>2
  <2> QED
    BY <2>1, <2>2 DEF Abierta
<1>17. \A v : Leidas(v)' = Leidas(v)
  BY <1>1 DEF Leidas
<1>18. ASSUME NEW v \in VariablesCompartidas, NEW q \in Programas
       PROVE  AlDia(q, v)' /\ Atras(q, v)'
  <2>1. AlDia(q, v) /\ Atras(q, v)
    BY DEF InvValores
  <2>2. CASE v # w
    <3>1. Nada(q, v)
      BY <1>15, <2>2
    <3>2. AlDia(q, v)'
      BY <1>1, <1>12, <2>1, <2>2, <3>1 DEF AlDia, Nada
    <3>3. Atras(q, v)'
      BY <1>1, <1>12, <1>17, <2>1, <2>2, <3>1 DEF Atras, Nada
    <3> QED
      BY <3>2, <3>3
  <2>3. CASE v = w
    <3>1. ~Leida(q, w)'
      <4>1. CASE q = p
        BY <1>16, <4>1 DEF Leida
      <4>2. CASE q # p
        <5>1. Leida(q, w)' => Abierta(q, w)
          BY <1>15, <4>2 DEF Nada, Leida
        <5> QED
          BY <1>10, <4>2, <5>1, AbiertaSola
      <4> QED
        BY <4>1, <4>2
    <3>2. AlDia(q, w)'
      BY <3>1 DEF AlDia
    <3>3. q \in Leidas(w) => propia[q] \in Int /\ propia[q] < variables_compartidas'[w]
      BY <1>12, <2>1, <2>3 DEF Atras
    <3>4. q \in Leidas(w) =>
            propia[q] <= variables_compartidas'[w] /\ propia[q] # variables_compartidas'[w]
      BY <1>12, <3>3
    <3>5. Atras(q, w)'
      BY <1>1, <1>17, <3>3, <3>4 DEF Atras
    <3> QED
      BY <2>3, <3>2, <3>5
  <2> QED
    BY <2>2, <2>3
<1>19. ASSUME NEW d \in CPUs, NEW v \in VariablesCompartidas
       PROVE  PedidoConValor(d, v)' /\ RespuestaConValor(d, v)'
  <2>1. (Lee(d, v)' <=> Lee(d, v)) /\ (Escribe(d, v)' <=> Escribe(d, v))
    BY <1>1, VariableIgual
  <2>2. PedidoConValor(d, v) /\ RespuestaConValor(d, v)
    BY DEF InvValores
  <2>3. PedidoConValor(d, v)'
    <3>1. PICK K, x1 : K = EnCola(haciaKernel[d]) /\ x1 = propia[cpu[d].pid] + 1
      OBVIOUS
    <3>2. EnCola(haciaKernel[d])' = K /\ (propia[cpu[d].pid] + 1)' = x1
      BY <1>1, <3>1 DEF EnCola
    <3>3. hilo'[d].paso = "asignar" => hilo'[d] = hilo[d]
      BY <1>13 DEF Queda
    <3> QED
      BY <2>1, <2>2, <3>1, <3>2, <3>3 DEF PedidoConValor
  <2>4. RespuestaConValor(d, v)'
    <3>1. CASE ~Lee(d, v)
      BY <2>1, <3>1 DEF RespuestaConValor
    <3>2. CASE Lee(d, v)
      <4>1. d # c
        BY <1>4, <3>2
      <4>2. v # w
        <5>1. ASSUME v = w PROVE FALSE
          <6>1. PICK q \in Programas : q = cpu[d].pid /\ Abierta(q, w)
            BY <3>2, <5>1, LeeActualiza
          <6>2. q = p
            BY <1>10, <6>1, AbiertaSola
          <6> QED
            BY <1>9, <3>2, <4>1, <6>1, <6>2
        <5> QED
          BY <5>1
      <4>3. PICK C, y : C = EnCola(haciaCpu[d]) /\ y = variables_compartidas[v]
        OBVIOUS
      <4>4. EnCola(haciaCpu[d])' = C /\ variables_compartidas[v]' = y
        BY <1>12, <1>13, <4>1, <4>2, <4>3 DEF EnCola
      <4> QED
        BY <2>1, <2>2, <4>3, <4>4 DEF RespuestaConValor
    <3> QED
      BY <3>1, <3>2
  <2> QED
    BY <2>3, <2>4
<1>20. CadaUnoSuStep'
  BY <1>1, <1>17 DEF InvValores, CadaUnoSuStep
<1> QED
  BY <1>1, <1>12, <1>18, <1>19, <1>20 DEF InvValores

-----------------------------------------------------------------------------
(* The steps of the CPUs that ask for no variable.                            *)

\* To receive, or to end the burst, moves no counter.
LEMMA ContadorQuieto ==
  ASSUME TextosEnRegla, InvTodo, InvTodo', NEW c \in CPUs, UNCHANGED V!varsPCP,
         V!RecibirPcb(c) \/ V!RecibirRespuesta(c) \/ V!TerminarRafaga(c)
  PROVE  AvanceHastaElFin' = AvanceHastaElFin
<1>1. V!InvPCP /\ V!InvPCP' /\ V!InvAvance /\ V!InvCorto
  BY DEF InvTodo, InvVisto
<1>2. UNCHANGED V!Abstracto!varsCP
  BY <1>1, V!CpuNoSeVe, ProgramasVistos, ParametrosVistos, DemasParametros
<1>3. V!AvanceHastaElFin' = V!AvanceHastaElFin
  BY <1>2 DEF V!Abstracto!varsCP
<1> QED
  BY <1>3 DEF InvTodo, SeVeIgual

\* A line moves the counter of the program of its CPU.
LEMMA ContadorDeLinea ==
  ASSUME TextosEnRegla, InvTodo, InvTodo', NEW c \in CPUs, UNCHANGED V!varsPCP,
         V!EjecutarLinea(c) \/ V!Pedir(c) \/ V!Fallar(c)
  PROVE  \E q \in Programas : \E n \in Nat :
           /\ cpu[c].pid = q /\ cpu[c].pc = n /\ n + 1 \in 1..Termina(q)
           /\ AvanceHastaElFin[q] = n /\ AvanceHastaElFin'[q] = n + 1
           /\ \A p \in Programas \ {q} : AvanceHastaElFin'[p] = AvanceHastaElFin[p]
           /\ HilosVistos[c].paso = "recibir"
<1>1. V!InvPCP /\ V!InvPCP' /\ V!InvAvance /\ V!InvAvance' /\ FormaCpus
  BY DEF InvTodo, InvVisto
<1>2. PICK q \in V!Programas, n \in Nat :
        /\ HilosVistos[c].paso = "recibir"
        /\ CpusVistas[c].pid = q /\ CpusVistas[c].pc = n
        /\ n + 1 \in DOMAIN CodigoVisto[q]
        /\ V!AvanceHastaElFin[q] = n /\ V!AvanceHastaElFin'[q] = n + 1
        /\ \A p \in V!Programas \ {q} : V!AvanceHastaElFin'[p] = V!AvanceHastaElFin[p]
  BY <1>1, V!QuienPide, ProgramasVistos, ParametrosVistos, DemasParametros
<1>3. V!Programas = Programas
  BY DEF V!Programas, Programas
<1>4. n + 1 \in 1..Termina(q)
  BY <1>2, <1>3, CodigoVistoEs
<1>5. cpu[c].pid = q /\ cpu[c].pc = n
  BY <1>1, <1>2, CpuVistaEs
<1>6. V!AvanceHastaElFin = AvanceHastaElFin /\ V!AvanceHastaElFin' = AvanceHastaElFin'
  BY DEF InvTodo, SeVeIgual
<1> QED
  BY <1>2, <1>3, <1>4, <1>5, <1>6

\* What has been read of v changes only with a line that reads or writes it.
LEMMA LeidoDeLinea ==
  ASSUME TextosEnRegla, InvTodo, InvTodo', NEW c \in CPUs, UNCHANGED V!varsPCP,
         V!EjecutarLinea(c) \/ V!Pedir(c) \/ V!Fallar(c),
         NEW p \in Programas, NEW v,
         cpu[c].pid = p =>
           ~(ProximaLinea(c).op \in {"leer", "escribir"} /\ ProximaLinea(c).nombre = v)
  PROVE  HaLeido(p, v)' <=> HaLeido(p, v)
<1>1. PICK q \in Programas, n \in Nat :
        /\ cpu[c].pid = q /\ cpu[c].pc = n
        /\ AvanceHastaElFin[q] = n /\ AvanceHastaElFin'[q] = n + 1
        /\ \A r \in Programas \ {q} : AvanceHastaElFin'[r] = AvanceHastaElFin[r]
  BY ContadorDeLinea
<1>2. PICK a, b : a = AvanceHastaElFin[p] /\ b = AvanceHastaElFin'[p]
  OBVIOUS
<1>3. (HaLeido(p, v) <=> TieneLeido(p, v, a)) /\ (HaLeido(p, v)' <=> TieneLeido(p, v, b))
  BY <1>2, HaLeidoPorContador
<1>4. CASE p = q
  <2>1. a = n /\ b = n + 1 /\ ProximaLinea(c) = Codigo[p][n + 1]
    BY <1>1, <1>2, <1>4 DEF ProximaLinea
  <2>2. TieneLeido(p, v, n + 1) <=> TieneLeido(p, v, n)
    BY <1>1, <1>4, <2>1, LineaDeVariable
  <2> QED
    BY <1>3, <2>1, <2>2
<1>5. CASE p # q
  BY <1>1, <1>2, <1>3, <1>5
<1> QED
  BY <1>4, <1>5

\* CPU c is the only one that steps.
SoloCpu(c) ==
  \A d \in CPUs \ {c} :
    cpu'[d] = cpu[d] /\ haciaCpu'[d] = haciaCpu[d] /\ haciaKernel'[d] = haciaKernel[d]

\* What a CPU does that is not about a variable disturbs no other CPU.
LEMMA PasoDeRafaga ==
  ASSUME InvVisto, NEW c \in CPUs, EjecutarRafaga(c)
  PROVE  SoloCpu(c) /\ cpu[c].paso # "respuestaValor" /\ cpu'[c].paso # "respuestaValor"
<1>1. /\ cpu = [d \in CPUs |-> cpu[d]] /\ CpuEntera(cpu[c])
      /\ haciaCpu = [d \in CPUs |-> haciaCpu[d]] /\ haciaKernel = [d \in CPUs |-> haciaKernel[d]]
  BY DEF InvVisto, FormaCpus, FormaCanales, EsCanales
<1>2. \A m : EnviarAKernel(c, m) => \A d \in CPUs \ {c} : haciaKernel'[d] = haciaKernel[d]
  BY <1>1 DEF EnviarAKernel
<1>3. (\E r : haciaCpu' = [haciaCpu EXCEPT ![c] = r]) =>
        \A d \in CPUs \ {c} : haciaCpu'[d] = haciaCpu[d]
  BY <1>1
<1>4. CASE RecibirPcb(c)
  <2>1. /\ \E r : haciaCpu' = [haciaCpu EXCEPT ![c] = r]
        /\ haciaKernel' = haciaKernel /\ cpu[c].paso = "recibirPcb"
    BY <1>4 DEF RecibirPcb
  <2>2. cpu'[c].paso # "respuestaValor" /\ \A d \in CPUs \ {c} : cpu'[d] = cpu[d]
    BY <1>1, <1>4 DEF RecibirPcb, CpuEntera
  <2> QED
    BY <1>3, <2>1, <2>2 DEF SoloCpu
<1>5. CASE EjecutarLinea(c)
  <2>1. haciaCpu' = haciaCpu /\ cpu[c].paso = "ejecutar"
    BY <1>5 DEF EjecutarLinea
  <2>2. cpu'[c].paso = "ejecutar" /\ \A d \in CPUs \ {c} : cpu'[d] = cpu[d]
    BY <1>1, <1>5 DEF EjecutarLinea, CpuEntera
  <2>3. \A d \in CPUs \ {c} : haciaKernel'[d] = haciaKernel[d]
    BY <1>2, <1>5 DEF EjecutarLinea
  <2> QED
    BY <2>1, <2>2, <2>3 DEF SoloCpu
<1>6. CASE Pedir(c)
  <2>1. haciaCpu' = haciaCpu /\ cpu[c].paso = "ejecutar"
    BY <1>6 DEF Pedir
  <2>2. cpu'[c].paso = "respuesta" /\ \A d \in CPUs \ {c} : cpu'[d] = cpu[d]
    BY <1>1, <1>6 DEF Pedir, CpuEntera
  <2>3. \A d \in CPUs \ {c} : haciaKernel'[d] = haciaKernel[d]
    BY <1>2, <1>6 DEF Pedir
  <2> QED
    BY <2>1, <2>2, <2>3 DEF SoloCpu
<1>7. CASE RecibirRespuesta(c)
  <2>1. /\ \E r : haciaCpu' = [haciaCpu EXCEPT ![c] = r]
        /\ haciaKernel' = haciaKernel /\ cpu[c].paso = "respuesta"
    BY <1>7 DEF RecibirRespuesta
  <2>2. cpu'[c].paso = "ejecutar" /\ \A d \in CPUs \ {c} : cpu'[d] = cpu[d]
    BY <1>1, <1>7 DEF RecibirRespuesta, CpuEntera
  <2> QED
    BY <1>3, <2>1, <2>2 DEF SoloCpu
<1>8. CASE Fallar(c)
  <2>1. haciaCpu' = haciaCpu /\ cpu[c].paso = "ejecutar"
    BY <1>8 DEF Fallar
  <2>2. cpu'[c].paso = "ejecutar" /\ \A d \in CPUs \ {c} : cpu'[d] = cpu[d]
    BY <1>1, <1>8 DEF Fallar, CpuEntera
  <2>3. \A d \in CPUs \ {c} : haciaKernel'[d] = haciaKernel[d]
    BY <1>2, <1>8 DEF Fallar
  <2> QED
    BY <2>1, <2>2, <2>3 DEF SoloCpu
<1>9. CASE TerminarRafaga(c)
  <2>1. haciaCpu' = haciaCpu /\ cpu[c].paso = "ejecutar"
    BY <1>9 DEF TerminarRafaga
  <2>2. cpu'[c].paso = "recibirPcb" /\ \A d \in CPUs \ {c} : cpu'[d] = cpu[d]
    BY <1>1, <1>9 DEF TerminarRafaga, CpuEntera
  <2>3. \A d \in CPUs \ {c} : haciaKernel'[d] = haciaKernel[d]
    BY <1>2, <1>9 DEF TerminarRafaga
  <2> QED
    BY <2>1, <2>2, <2>3 DEF SoloCpu
<1> QED
  BY <1>4, <1>5, <1>6, <1>7, <1>8, <1>9 DEF EjecutarRafaga

\* So it keeps the values.
LEMMA RafagaConValores ==
  ASSUME TextosEnRegla, InvTodo, InvTodo', InvValores, NEW c \in CPUs, EjecutarRafaga(c),
         UNCHANGED <<varsPCP, compartidas>>
  PROVE  InvValores'
<1>1. InvVisto /\ FormaCpus
  BY DEF InvTodo, InvVisto
<1>2. /\ UNCHANGED varsPCP /\ UNCHANGED compartidas /\ hilo' = hilo
      /\ propia' = propia /\ variables_compartidas' = variables_compartidas
  BY DEF varsPCP, compartidas
<1>3. SoloCpu(c) /\ cpu[c].paso # "respuestaValor" /\ cpu'[c].paso # "respuestaValor"
  BY <1>1, PasoDeRafaga
<1>4. \A v : /\ ~Lee(c, v) /\ ~Escribe(c, v) /\ ~Lee(c, v)' /\ ~Escribe(c, v)'
  BY <1>3 DEF Lee, Escribe, Leyendo, Escribiendo
<1>5. UNCHANGED HilosVistos /\ UNCHANGED V!varsPCP
  <2>1. UNCHANGED HilosVistos
    BY <1>1, <1>2, RafagaDeCpuVista
  <2> QED
    BY <1>2, <2>1, KernelQuieto
<1>6. ASSUME NEW p \in Programas, NEW v PROVE HaLeido(p, v)' <=> HaLeido(p, v)
  <2>1. CASE RecibirPcb(c) \/ RecibirRespuesta(c) \/ TerminarRafaga(c)
    <3>1. V!RecibirPcb(c) \/ V!RecibirRespuesta(c) \/ V!TerminarRafaga(c)
      BY <1>1, <1>2, <2>1, RecibirPcbVisto, RecibirRespuestaVista, TerminarRafagaVista
    <3>2. AvanceHastaElFin' = AvanceHastaElFin
      BY <1>5, <3>1, ContadorQuieto
    <3>3. PICK n : n = AvanceHastaElFin[p] /\ n = AvanceHastaElFin'[p]
      BY <3>2
    <3> QED
      BY <3>3, HaLeidoPorContador
  <2>2. CASE EjecutarLinea(c) \/ Pedir(c) \/ Fallar(c)
    <3>1. V!EjecutarLinea(c) \/ V!Pedir(c) \/ V!Fallar(c)
      BY <1>1, <1>2, <2>2, EjecutarLineaVista, PedirVisto, FallarVisto
    <3>2. cpu[c].fallas = 0
      <4>1. V!FaseCpu(c)
        BY <1>1, FaseCpuVista
      <4> QED
        BY <1>1, <4>1, CpuVistaEs DEF V!FaseCpu
    <3>3. PICK l : l = ProximaLinea(c)
      OBVIOUS
    <3>4. l.op \notin {"leer", "escribir"}
      BY <2>2, <3>2, <3>3 DEF EjecutarLinea, Pedir, Fallar
    <3> QED
      BY <1>5, <3>1, <3>3, <3>4, LeidoDeLinea
  <2> QED
    BY <2>1, <2>2 DEF EjecutarRafaga
<1>7. ASSUME NEW d \in CPUs, NEW p, NEW v PROVE IgualPara(d, p, v)
  <2>1. CASE d = c
    BY <1>4, <2>1 DEF IgualPara, Pendiente
  <2>2. CASE d # c
    BY <1>3, <2>2, IgualQuieta DEF SoloCpu
  <2> QED
    BY <2>1, <2>2
<1>8. ASSUME NEW v \in VariablesCompartidas, NEW d \in CPUs
      PROVE  PedidoConValor(d, v)' /\ RespuestaConValor(d, v)'
  <2>1. PedidoConValor(d, v) /\ RespuestaConValor(d, v)
    BY DEF InvValores
  <2>2. CASE d = c
    BY <1>4, <2>2 DEF PedidoConValor, RespuestaConValor
  <2>3. CASE d # c
    BY <1>2, <1>3, <2>1, <2>3, ValorIgual DEF SoloCpu
  <2> QED
    BY <2>2, <2>3
<1>9. \A v \in VariablesCompartidas : \A p \in Programas : Nada(p, v)
  BY <1>6, <1>7, NadaCambia
<1> QED
  BY <1>2, <1>8, <1>9, ValoresQuietos

-----------------------------------------------------------------------------
(* To ask for a variable.                                                     *)

\* To ask opens the update of a variable, with a read, or keeps it open, with a write
\* that carries what was read plus one.
LEMMA PedirConValores ==
  ASSUME TextosEnRegla, ActualizacionesEnRegla, InvTodo, InvTodo', InvValores,
         NEW c \in CPUs, PedirCompartida(c), UNCHANGED <<varsPCP, variables_compartidas>>
  PROVE  InvValores'
<1>1. InvVisto /\ FormaHilos /\ FormaCanales /\ FormaCpus
  BY DEF InvTodo, InvVisto
<1>2. /\ UNCHANGED varsPCP /\ UNCHANGED compartidas /\ hilo' = hilo
      /\ propia' = propia /\ variables_compartidas' = variables_compartidas
      /\ haciaCpu' = haciaCpu
  BY DEF varsPCP, compartidas, PedirCompartida
<1>3. V!Pedir(c) /\ UNCHANGED V!varsPCP
  <2>1. V!Pedir(c) /\ UNCHANGED HilosVistos
    BY <1>1, <1>2, PedirCompartidaVisto
  <2> QED
    BY <1>2, <2>1, KernelQuieto
<1>4. PICK q \in Programas, n \in Nat :
        /\ cpu[c].pid = q /\ cpu[c].pc = n /\ n + 1 \in 1..Termina(q)
        /\ AvanceHastaElFin[q] = n /\ AvanceHastaElFin'[q] = n + 1
        /\ HilosVistos[c].paso = "recibir"
  BY <1>3, ContadorDeLinea
<1>5. PICK l : l = ProximaLinea(c) /\ l = Codigo[q][n + 1]
  BY <1>4 DEF ProximaLinea
<1>6. /\ cpu[c].paso = "ejecutar" /\ puedeSeguirEjecutando(c)
      /\ cpu' = [cpu EXCEPT ![c].paso = "respuestaValor", ![c].pc = n + 1]
  BY <1>4 DEF PedirCompartida
<1>7. /\ \A d \in CPUs \ {c} : cpu'[d] = cpu[d]
      /\ cpu'[c].paso = "respuestaValor" /\ cpu'[c].pid = q /\ cpu'[c].pc = n + 1
  <2>1. cpu = [d \in CPUs |-> cpu[d]] /\ CpuEntera(cpu[c])
    BY <1>1 DEF FormaCpus
  <2> QED
    BY <1>4, <1>6, <2>1 DEF CpuEntera
<1>8. LineaActual(c)' = l
  BY <1>5, <1>7 DEF LineaActual
<1>9. ASSUME NEW v
      PROVE  /\ ~Lee(c, v) /\ ~Escribe(c, v)
             /\ Lee(c, v)' <=> l.op = "leer" /\ l.nombre = v
             /\ Escribe(c, v)' <=> l.op = "escribir" /\ l.nombre = v
  BY <1>6, <1>7, <1>8 DEF Lee, Escribe, Leyendo, Escribiendo
<1>10. haciaCpu[c] = <<>> /\ haciaKernel[c] = <<>>
  <2>1. V!FaseCpu(c)
    BY <1>1, FaseCpuVista
  <2>2. V!puedeSeguirEjecutando(c) /\ CpusVistas[c].paso = "ejecutar"
    BY <1>1, <1>6, <2>1, ProximaLineaVista, CpuVistaEs
  <2>3. CpusVistas[c].estadoRafaga = "notificarPorFinRafaga"
    BY <2>2 DEF V!puedeSeguirEjecutando
  <2>4. ~V!Ociosa(c)
    BY <2>2, <2>3 DEF V!Ociosa
  <2>5. V!Corre(c)
    BY <1>1, <2>2, <2>3, <2>4, DeCpuVisto
  <2>6. HaciaCpuVisto[c] = <<>> /\ HaciaKernelVisto[c] = <<>>
    BY <2>5 DEF V!Corre
  <2>7. EsCanal(haciaCpu[c]) /\ EsCanal(haciaKernel[c])
    BY <1>1 DEF FormaCanales, EsCanales
  <2> QED
    BY <2>6, <2>7, CanalVacio DEF HaciaCpuVisto, HaciaKernelVisto
<1>11. hilo[c].paso # "asignar"
  <2>1. HilosVistos[c] = HiloVisto(hilo[c])
    BY <1>1, VistosEnteros
  <2> QED
    BY <1>4, <2>1 DEF HiloVisto
<1>12. PICK m : /\ EnviarAKernel(c, m) /\ l.op \in {"leer", "escribir"}
                /\ l.op = "escribir" => m.valor = propia[q] + 1
  <2>1. CASE l.op = "leer"
    <3>1. PICK m : m = Mensaje("obtenerValorVarCompartida", l.nombre, Nadie, 0)
      OBVIOUS
    <3>2. EnviarAKernel(c, m)
      BY <1>5, <2>1, <3>1 DEF PedirCompartida
    <3> QED
      BY <2>1, <3>2
  <2>2. CASE l.op = "escribir"
    <3>1. PICK m : m = MensajeValor("asignarValorVarCompartida", l.nombre, propia[q] + 1)
      OBVIOUS
    <3>2. EnviarAKernel(c, m)
      BY <1>4, <1>5, <2>2, <3>1 DEF PedirCompartida
    <3> QED
      BY <2>2, <3>1, <3>2 DEF MensajeValor
  <2> QED
    BY <1>5, <2>1, <2>2 DEF PedirCompartida
<1>13. /\ \A d \in CPUs \ {c} : haciaKernel'[d] = haciaKernel[d]
       /\ EnCola(haciaKernel'[c]) = {m}
  <2>1. /\ \A d \in CPUs \ {c} : haciaKernel'[d] = haciaKernel[d]
        /\ EnCola(haciaKernel'[c]) = EnCola(haciaKernel[c]) \cup {m}
    BY <1>1, <1>12, EnviarAKernelVisto
  <2>2. EnCola(<<>>) = {}
    BY DEF EnCola
  <2> QED
    BY <1>10, <2>1, <2>2
<1>14. ASSUME NEW v \in VariablesCompartidas, NEW d \in CPUs
       PROVE  PedidoConValor(d, v)' /\ RespuestaConValor(d, v)'
  <2>1. PedidoConValor(d, v) /\ RespuestaConValor(d, v)
    BY DEF InvValores
  <2>2. CASE d # c
    BY <1>2, <1>7, <1>13, <2>1, <2>2, ValorIgual
  <2>3. CASE d = c
    <3>1. RespuestaConValor(c, v)'
      BY <1>2, <1>10 DEF RespuestaConValor, EnCola
    <3>2. PICK K, x : K = EnCola(haciaKernel'[c]) /\ x = propia[q] + 1
      OBVIOUS
    <3>3. EnCola(haciaKernel[c])' = K /\ (propia[cpu[c].pid] + 1)' = x
      BY <1>2, <1>7, <3>2 DEF EnCola
    <3>4. Escribe(c, v)' => \A k \in K : k.valor = x
      BY <1>9, <1>12, <1>13, <3>2
    <3>5. PedidoConValor(c, v)'
      BY <1>2, <1>11, <3>3, <3>4 DEF PedidoConValor
    <3> QED
      BY <2>3, <3>1, <3>5
  <2> QED
    BY <2>2, <2>3
<1>15. ASSUME NEW v \in VariablesCompartidas, NEW p \in Programas PROVE Nada(p, v)
  <2>1. ASSUME NEW d \in CPUs, d # c \/ p # q \/ l.nombre # v PROVE IgualPara(d, p, v)
    <3>1. CASE d # c
      BY <1>2, <1>7, <3>1, IgualQuieta
    <3>2. CASE d = c /\ p # q
      BY <1>4, <1>7, <3>2 DEF IgualPara
    <3>3. CASE d = c /\ l.nombre # v
      BY <1>9, <3>3 DEF IgualPara, Pendiente
    <3> QED
      BY <2>1, <3>1, <3>2, <3>3
  <2>2. CASE p # q \/ l.nombre # v
    <3>1. HaLeido(p, v)' <=> HaLeido(p, v)
      BY <1>3, <1>4, <1>5, <2>2, LeidoDeLinea
    <3> QED
      BY <2>1, <2>2, <3>1, NadaCambia
  <2>3. CASE p = q /\ l.nombre = v
    <3>1. /\ HaLeido(q, v) <=> TieneLeido(q, v, n)
          /\ HaLeido(q, v)' <=> TieneLeido(q, v, n + 1)
      BY <1>4, HaLeidoPorContador
    <3>2. CASE l.op = "leer"
      <4>1. ~Leida(q, v)'
        BY <1>7, <1>9, <2>3, <3>2 DEF Leida
      <4>2. TieneLeido(q, v, n + 1)
        BY <1>4, <1>5, <2>3, <3>2, LineaDeVariable
      <4>3. Abierta(q, v)'
        BY <3>1, <4>2 DEF Abierta
      <4> QED
        BY <2>3, <4>1, <4>3 DEF Nada
    <3>3. CASE l.op = "escribir"
      <4>1. Abierta(q, v)'
        <5>1. Pendiente(c, v)'
          BY <1>2, <1>9, <1>10, <2>3, <3>3 DEF Pendiente
        <5> QED
          BY <1>7, <5>1 DEF Abierta
      <4>2. TieneLeido(q, v, n)
        <5>1. TieneLeido(q, v, (n + 1) - 1)
          BY <1>4, <1>5, <2>3, <3>3 DEF ActualizacionesEnRegla
        <5>2. (n + 1) - 1 = n
          BY <1>4
        <5> QED
          BY <5>1, <5>2
      <4>3. Leida(q, v)' => Leida(q, v)
        <5> SUFFICES ASSUME Leida(q, v)', NEW d \in CPUs, cpu[d].pid = q, Lee(d, v) PROVE FALSE
          BY <3>1, <4>2 DEF Leida, Abierta
        <5>1. d # c
          BY <1>9
        <5>2. cpu'[d] = cpu[d]
          BY <1>7, <5>1
        <5>3. Lee(d, v)'
          BY <5>2, VariableIgual
        <5> QED
          BY <5>2, <5>3 DEF Leida
      <4> QED
        BY <2>3, <4>1, <4>3 DEF Nada
    <3> QED
      BY <1>12, <3>2, <3>3
  <2> QED
    BY <2>2, <2>3
<1> QED
  BY <1>2, <1>14, <1>15, ValoresQuietos

-----------------------------------------------------------------------------
(* To receive the answer.                                                     *)

\* A program has one variable: it updates no other.
LEMMA UnaPropia ==
  ASSUME TextosEnRegla, ActualizacionesEnRegla, InvTodo, NEW p \in Programas,
         NEW n \in 1..Termina(p), Codigo[p][n].op = "leer",
         NEW v \in VariablesCompartidas, v # Codigo[p][n].nombre
  PROVE  /\ ~Abierta(p, v) /\ \A d \in CPUs : cpu[d].pid = p => ~Escribe(d, v)
         /\ \A i \in DOMAIN Codigo[p] : Codigo[p][i] # Linea("leer", v)
<1>1. \A i \in 1..Termina(p) : i \in DOMAIN Codigo[p]
  BY TerminaEs
<1>2. \A i \in DOMAIN Codigo[p] : Codigo[p][i].op = "leer" => Codigo[p][i].nombre # v
  BY <1>1 DEF ActualizacionesEnRegla
<1>3. ASSUME NEW m \in 1..Termina(p), Actualiza(p, v, m) PROVE FALSE
  <2>1. PICK i \in 1..m : Codigo[p][i].op = "leer" /\ Codigo[p][i].nombre = v
    BY <1>3, EscribeLoLeido
  <2>2. i \in 1..Termina(p)
    <3>1. Termina(p) \in Nat
      BY TerminaEs
    <3> QED
      BY <2>1, <3>1
  <2> QED
    BY <1>1, <1>2, <2>1, <2>2
<1>4. ~Abierta(p, v)
  BY <1>3, AbiertaActualiza
<1>5. ASSUME NEW d \in CPUs, cpu[d].pid = p, Escribe(d, v) PROVE FALSE
  <2>1. PICK m \in 1..Termina(p) : m = cpu[d].pc
    BY <1>5, EnVariable
  <2>2. Codigo[p][m].op = "escribir" /\ Codigo[p][m].nombre = v
    BY <1>5, <2>1 DEF Escribe, Escribiendo, LineaActual
  <2>3. m > 0
    BY <2>1
  <2> QED
    BY <1>3, <2>2, <2>3 DEF Actualiza
<1>6. \A i \in DOMAIN Codigo[p] : Codigo[p][i] # Linea("leer", v)
  BY <1>2 DEF Linea
<1> QED
  BY <1>4, <1>5, <1>6

\* What a read returns is the value of the variable, which nobody else has: whoever had
\* it too would be updating the variable too.
LEMMA RecibirConValores ==
  ASSUME TextosEnRegla, ActualizacionesEnRegla, InvTodo, InvTodo', InvValores, Solos,
         NEW c \in CPUs, RecibirValor(c), UNCHANGED <<varsPCP, variables_compartidas>>
  PROVE  InvValores'
<1>1. InvVisto /\ FormaHilos /\ FormaCanales /\ FormaCpus /\ Acorde(c)
  BY DEF InvTodo, InvVisto
<1>2. /\ UNCHANGED varsPCP /\ hilo' = hilo /\ haciaKernel' = haciaKernel
      /\ variables_compartidas' = variables_compartidas
  BY DEF varsPCP, RecibirValor
<1>3. AvanceHastaElFin' = AvanceHastaElFin
  <2>1. V!RecibirRespuesta(c) /\ UNCHANGED HilosVistos
    BY <1>1, <1>2, RecibirValorVisto
  <2>2. UNCHANGED V!varsPCP
    BY <1>2, <2>1, KernelQuieto
  <2> QED
    BY <2>1, <2>2, ContadorQuieto
<1>4. \A q \in Programas : \A v : HaLeido(q, v)' <=> HaLeido(q, v)
  <2> SUFFICES ASSUME NEW q \in Programas, NEW v PROVE HaLeido(q, v)' <=> HaLeido(q, v)
    OBVIOUS
  <2>1. PICK n : n = AvanceHastaElFin[q] /\ n = AvanceHastaElFin'[q]
    BY <1>3
  <2> QED
    BY <2>1, HaLeidoPorContador
<1>5. cpu[c].paso = "respuestaValor" /\ haciaCpu[c] # <<>>
  BY DEF RecibirValor
<1>6. PICK p \in Programas : p = cpu[c].pid /\ cpu[c].pc \in 1..Termina(p)
  <2>1. V!FaseCpu(c)
    BY <1>1, FaseCpuVista
  <2> QED
    BY <1>1, <1>5, <2>1, LineaActualVista
<1>7. PICK n \in 1..Termina(p) : n = cpu[c].pc
  BY <1>6
<1>8. PICK l : l = LineaActual(c) /\ l = Codigo[p][n] /\ l.op \in {"leer", "escribir"}
  BY <1>1, <1>5, <1>6, <1>7 DEF Acorde, CpuAcorde, LineaActual
<1>9. SoloCpu(c) /\ cpu'[c].paso = "ejecutar"
  <2>1. /\ cpu = [d \in CPUs |-> cpu[d]] /\ CpuEntera(cpu[c])
        /\ haciaCpu = [d \in CPUs |-> haciaCpu[d]]
    BY <1>1 DEF FormaCpus, FormaCanales, EsCanales
  <2>2. cpu'[c].paso = "ejecutar" /\ \A d \in CPUs \ {c} : cpu'[d] = cpu[d]
    <3>1. PICK i, e : cpu' = [cpu EXCEPT ![c].paso = "ejecutar", ![c].i = i,
                                         ![c].estadoRafaga = e]
      BY DEF RecibirValor
    <3> QED
      BY <2>1, <3>1 DEF CpuEntera
  <2>3. \A d \in CPUs \ {c} : haciaCpu'[d] = haciaCpu[d]
    BY <2>1 DEF RecibirValor
  <2> QED
    BY <1>2, <2>2, <2>3 DEF SoloCpu
<1>10. \A v : ~Lee(c, v)' /\ ~Escribe(c, v)' /\ ~Pendiente(c, v)
  BY <1>5, <1>9 DEF Lee, Escribe, Leyendo, Escribiendo, Pendiente
<1>11. ASSUME NEW q \in Programas, NEW v, q # p \/ ~Lee(c, v) PROVE Nada(q, v)
  <2>1. ASSUME NEW d \in CPUs PROVE IgualPara(d, q, v)
    <3>1. CASE d # c
      BY <1>9, <3>1, IgualQuieta DEF SoloCpu
    <3>2. CASE d = c
      BY <1>6, <1>10, <1>11, <3>2 DEF IgualPara, Pendiente
    <3> QED
      BY <3>1, <3>2
  <2> QED
    BY <1>4, <2>1, NadaCambia
<1>12. ASSUME NEW v \in VariablesCompartidas, NEW d \in CPUs,
              Escribe(d, v) => propia'[cpu[d].pid] = propia[cpu[d].pid]
       PROVE  PedidoConValor(d, v)' /\ RespuestaConValor(d, v)'
  <2>1. PedidoConValor(d, v) /\ RespuestaConValor(d, v)
    BY DEF InvValores
  <2>2. CASE d = c
    BY <1>10, <2>2 DEF PedidoConValor, RespuestaConValor
  <2>3. CASE d # c
    BY <1>2, <1>9, <1>12, <2>1, <2>3, ValorIgual DEF SoloCpu
  <2> QED
    BY <2>2, <2>3
<1>13. CASE l.op = "escribir"
  <2>1. propia' = propia /\ UNCHANGED compartidas
    BY <1>2, <1>8, <1>13 DEF RecibirValor, compartidas
  <2>2. \A v : ~Lee(c, v)
    BY <1>8, <1>13 DEF Lee, Leyendo
  <2>3. \A v \in VariablesCompartidas : \A d \in CPUs :
          PedidoConValor(d, v)' /\ RespuestaConValor(d, v)'
    BY <1>12, <2>1
  <2> QED
    BY <1>11, <2>1, <2>2, <2>3, ValoresQuietos
<1>14. CASE l.op = "leer"
  <2>1. PICK x : /\ propia' = [propia EXCEPT ![p] = x]
                 /\ Head(haciaCpu[c]).op = "valorCompartida" => x = Head(haciaCpu[c]).valor
    BY <1>6, <1>8, <1>14 DEF RecibirValor
  <2>2. /\ \A q \in Programas \ {p} : propia'[q] = propia[q]
        /\ propia'[p] = x /\ (propia = [q \in Programas |-> propia[q]])'
        /\ variables_compartidas \in [VariablesCompartidas -> Int]
    BY <2>1 DEF InvValores
  <2>3. ASSUME NEW v \in VariablesCompartidas, v # l.nombre
        PROVE  /\ ~Abierta(p, v) /\ \A d \in CPUs : cpu[d].pid = p => ~Escribe(d, v)
               /\ p \notin Leidas(v)' /\ ~Lee(c, v)
    <3>1. /\ ~Abierta(p, v) /\ \A d \in CPUs : cpu[d].pid = p => ~Escribe(d, v)
          /\ \A i \in DOMAIN Codigo[p] : Codigo[p][i] # Linea("leer", v)
      BY <1>8, <1>14, <2>3, UnaPropia
    <3>2. ~Lee(c, v)
      BY <1>8, <2>3 DEF Lee
    <3> QED
      BY <3>1, <3>2 DEF Leidas
  <2>4. ASSUME l.nombre \in VariablesCompartidas
        PROVE  /\ x = variables_compartidas[l.nombre] /\ Abierta(p, l.nombre)
               /\ Abierta(p, l.nombre)'
               /\ \A d \in CPUs : cpu[d].pid = p => ~Escribe(d, l.nombre)
    <3>1. Lee(c, l.nombre)
      BY <1>5, <1>8, <1>14 DEF Lee, Leyendo
    <3>2. PICK m : m = Head(haciaCpu[c])
      OBVIOUS
    <3>3. m.op = "valorCompartida" /\ x = m.valor
      BY <1>5, <2>1, <2>4, <3>1, <3>2, EnVariable
    <3>4. m \in EnCola(haciaCpu[c])
      BY <1>1, <1>5, <3>2, EnColaCambia DEF FormaCanales, EsCanales
    <3>5. x = variables_compartidas[l.nombre]
      BY <2>4, <3>1, <3>3, <3>4 DEF InvValores, RespuestaConValor
    <3>6. Abierta(p, l.nombre) /\ HaLeido(p, l.nombre)
      <4>1. PICK k \in 1..Termina(p) :
              k = AvanceHastaElFin[p] /\ TieneLeido(p, l.nombre, k)
        BY <1>6, <2>4, <3>1, LeeActualiza
      <4>2. k \in 0..Termina(p)
        BY <4>1
      <4>3. HaLeido(p, l.nombre)
        BY <4>1, <4>2 DEF HaLeido
      <4> QED
        BY <4>3 DEF Abierta
    <3>7. Abierta(p, l.nombre)'
      <4>1. HaLeido(p, l.nombre)'
        BY <1>4, <3>6
      <4>2. PICK w : w = l.nombre
        OBVIOUS
      <4>3. HaLeido(p, w)' => Abierta(p, w)'
        BY DEF Abierta
      <4> QED
        BY <4>1, <4>2, <4>3
    <3>8. ASSUME NEW d \in CPUs, cpu[d].pid = p, Escribe(d, l.nombre) PROVE FALSE
      <4>1. d = c
        BY <1>6, <2>4, <3>1, <3>8, EnVariableUnico
      <4> QED
        BY <1>8, <1>14, <3>8, <4>1 DEF Escribe, Escribiendo
    <3> QED
      BY <3>5, <3>6, <3>7, <3>8
  <2>5. ASSUME NEW v \in VariablesCompartidas, NEW d \in CPUs
        PROVE  PedidoConValor(d, v)' /\ RespuestaConValor(d, v)'
    <3>1. Escribe(d, v) => cpu[d].pid \in Programas /\ cpu[d].pid # p
      BY <2>3, <2>4, EnVariable
    <3> QED
      BY <1>12, <2>2, <3>1
  <2>6. ASSUME NEW v \in VariablesCompartidas, NEW q \in Programas, q # p
        PROVE  (q \in Leidas(v)' <=> q \in Leidas(v)) /\ propia'[q] = propia[q]
    BY <2>2, <2>6 DEF Leidas
  <2>7. ASSUME NEW v \in VariablesCompartidas, NEW q \in Programas
        PROVE  AlDia(q, v)' /\ Atras(q, v)'
    <3>1. AlDia(q, v) /\ Atras(q, v)
      BY DEF InvValores
    <3>2. CASE q # p
      <4>1. Nada(q, v)
        BY <1>11, <3>2
      <4>2. AlDia(q, v)'
        BY <1>2, <2>6, <3>1, <3>2, <4>1 DEF AlDia, Nada
      <4>3. Atras(q, v)'
        BY <1>2, <2>6, <3>1, <3>2, <4>1 DEF Atras, Nada
      <4> QED
        BY <4>2, <4>3
    <3>3. CASE q = p /\ v # l.nombre
      <4>1. ~Leida(p, v)'
        BY <1>11, <2>3, <3>3 DEF Nada, Leida
      <4> QED
        BY <2>3, <3>3, <4>1 DEF AlDia, Atras
    <3>4. CASE q = p /\ v = l.nombre
      <4>1. propia'[p] = variables_compartidas[v] /\ Abierta(p, v)'
        BY <2>2, <2>4, <3>4
      <4>2. propia'[p] = variables_compartidas'[v] /\ variables_compartidas'[v] \in Int
        BY <1>2, <2>2, <4>1
      <4>3. propia'[p] <= variables_compartidas'[v]
        BY <4>2
      <4> QED
        BY <3>4, <4>1, <4>2, <4>3 DEF AlDia, Atras
    <3> QED
      BY <3>2, <3>3, <3>4
  <2>8. ASSUME NEW v \in VariablesCompartidas, NEW b \in Leidas(v)', p \in Leidas(v)', b # p
        PROVE  propia'[b] # propia'[p]
    <3>1. v = l.nombre
      BY <2>3, <2>8
    <3>2. propia'[p] = variables_compartidas[v] /\ Abierta(p, v)
      BY <2>2, <2>4, <3>1
    <3>3. b \in Programas /\ b \in Leidas(v) /\ propia'[b] = propia[b]
      <4>1. b \in Programas
        BY <2>8 DEF Leidas
      <4> QED
        BY <2>6, <2>8, <4>1
    <3>4. propia[b] = variables_compartidas[v] => Abierta(b, v)
      BY <3>3 DEF InvValores, Atras
    <3>5. ~Abierta(b, v)
      BY <2>8, <3>2, <3>3, AbiertaSola
    <3> QED
      BY <3>2, <3>3, <3>4, <3>5
  <2>9. CadaUnoSuStep'
    <3> SUFFICES ASSUME NEW v \in VariablesCompartidas, NEW a \in Leidas(v)',
                        NEW b \in Leidas(v)', a # b
                 PROVE  propia'[a] # propia'[b]
      BY DEF CadaUnoSuStep
    <3>1. a \in Programas /\ b \in Programas
      BY DEF Leidas
    <3>2. CASE a # p /\ b # p
      <4>1. a \in Leidas(v) /\ b \in Leidas(v) /\ propia'[a] = propia[a] /\ propia'[b] = propia[b]
        BY <2>6, <3>1, <3>2
      <4> QED
        BY <4>1 DEF InvValores, CadaUnoSuStep
    <3> QED
      BY <2>8, <3>2
  <2> QED
    BY <1>2, <2>2, <2>5, <2>7, <2>9 DEF InvValores
<1> QED
  BY <1>8, <1>13, <1>14

-----------------------------------------------------------------------------
(* The values always agree.                                                   *)

\* A step in which nothing moves changes nothing of this.
LEMMA ValoresParados ==
  ASSUME TextosEnRegla, InvTodo, InvTodo', InvValores, UNCHANGED varsCompartidas
  PROVE  InvValores'
<1>1. /\ UNCHANGED <<hilo, haciaCpu, haciaKernel, cpu, compartidas>> /\ UNCHANGED varsPCP
      /\ UNCHANGED vars
  BY DEF varsCompartidas, vars, varsPCP, canales
<1>2. AvanceHastaElFin' = AvanceHastaElFin
  BY <1>1 DEF AvanceHastaElFin, Lugar, Avance, HilosEn, EnCola, varsPCP, plp, ready, colas
<1>3. ASSUME NEW v \in VariablesCompartidas, NEW p \in Programas PROVE Nada(p, v)
  <2>1. \A d \in CPUs : IgualPara(d, p, v)
    BY <1>1, IgualQuieta
  <2>2. PICK n : n = AvanceHastaElFin[p] /\ n = AvanceHastaElFin'[p]
    BY <1>2
  <2>3. HaLeido(p, v)' <=> HaLeido(p, v)
    BY <2>2, HaLeidoPorContador
  <2> QED
    BY <2>1, <2>3, NadaCambia
<1>4. \A v \in VariablesCompartidas : \A d \in CPUs :
        PedidoConValor(d, v)' /\ RespuestaConValor(d, v)'
  BY <1>1, MensajesQuietos
<1> QED
  BY <1>1, <1>3, <1>4, ValoresQuietos

\* Every step keeps the values, by who steps.
LEMMA ValoresSiguen ==
  ASSUME TextosEnRegla, ActualizacionesEnRegla, InvTodo, InvTodo', Solos, InvValores,
         [NextCompartidas]_varsCompartidas
  PROVE  InvValores'
<1>1. CASE UNCHANGED varsCompartidas
  BY <1>1, ValoresParados
<1>2. CASE NextPCP /\ UNCHANGED <<cpu, compartidas>>
  BY <1>2, KernelConValores
<1>3. ASSUME NEW c \in CPUs, Atender(c) PROVE InvValores'
  <2>1. CASE pfnControladorConexion(c) /\ UNCHANGED <<cpu, compartidas>>
    BY <2>1, KernelConValores DEF NextPCP
  <2>2. CASE /\ vivo /\ UNCHANGED <<haciaKernel, conectada, cpu, propia>>
             /\ obtenerVariable(c) \/ asignarVariable(c)
    <3>1. CASE asignarVariable(c) /\ hilo[c].msg.nombre \in VariablesCompartidas
      BY <2>2, <3>1, AsignarConValores
    <3>2. CASE \/ obtenerVariable(c)
               \/ asignarVariable(c) /\ hilo[c].msg.nombre \notin VariablesCompartidas
      BY <2>2, <3>2, KernelConValores
    <3> QED
      BY <2>2, <3>1, <3>2
  <2> QED
    BY <1>3, <2>1, <2>2 DEF Atender
<1>4. ASSUME NEW c \in CPUs, Ejecutar(c) PROVE InvValores'
  BY <1>4, RafagaConValores, PedirConValores, RecibirConValores DEF Ejecutar
<1>5. CASE NextCpu /\ UNCHANGED varsPCP /\ UNCHANGED compartidas
  <2>1. PICK c \in CPUs : EjecutarRafaga(c) \/ signal_handler(c)
    BY <1>5 DEF NextCpu
  <2>2. ~signal_handler(c)
    BY DEF signal_handler, TextosEnRegla
  <2> QED
    BY <1>5, <2>1, <2>2, RafagaConValores
<1> QED
  BY <1>1, <1>2, <1>3, <1>4, <1>5 DEF NextCompartidas, Next

\* At the start no program has executed a line.
LEMMA InicioSinLeer ==
  ASSUME TextosEnRegla, InitCompartidas, InvTodo
  PROVE  /\ \A p \in Programas : AvanceHastaElFin[p] = 0
         /\ \A v : \A c \in CPUs : ~Lee(c, v) /\ ~Escribe(c, v)
<1>1. V!Init /\ InitCpu
  BY InicioVisto DEF InitCompartidas, Init
<1>2. V!Abstracto!InitCP
  BY <1>1, ProgramasVistos, ParametrosVistos, DemasParametros, V!InicioAbstracto
<1>3. AvanceHastaElFin = [p \in Programas |-> 0]
  BY <1>2 DEF V!Abstracto!InitCP, InvTodo, SeVeIgual, V!Programas, Programas
<1>4. \A c \in CPUs : cpu[c].paso = "recibirPcb"
  BY <1>1, InicioDeCpus
<1> QED
  BY <1>3, <1>4 DEF Lee, Escribe, Leyendo, Escribiendo

\* So nothing has been read, and nothing is being updated.
LEMMA InicioValores ==
  ASSUME TextosEnRegla, InitCompartidas, InvTodo
  PROVE  InvValores /\ SinEsperar
<1>1. /\ \A p \in Programas : AvanceHastaElFin[p] = 0
      /\ \A v : \A c \in CPUs : ~Lee(c, v) /\ ~Escribe(c, v)
  BY InicioSinLeer
<1>2. variables_compartidas = ValorVariable /\ propia = [p \in Programas |-> SinLeer]
  BY DEF InitCompartidas
<1>3. \A v : Leidas(v) = {}
  BY <1>2 DEF Leidas
<1>4. ASSUME NEW p \in Programas, NEW v PROVE ~Leida(p, v)
  <2>1. ~TieneLeido(p, v, 0)
    BY LineaDeVariable
  <2>2. ~HaLeido(p, v)
    BY <1>1, <2>1 DEF HaLeido
  <2> QED
    BY <1>1, <2>2 DEF Leida, Abierta, Pendiente
<1>5. InvValores
  <2>1. \A v : \A c \in CPUs : PedidoConValor(c, v) /\ RespuestaConValor(c, v)
    BY <1>1 DEF PedidoConValor, RespuestaConValor
  <2>2. \A v : \A p \in Programas : AlDia(p, v) /\ Atras(p, v)
    BY <1>3, <1>4 DEF AlDia, Atras
  <2>3. CadaUnoSuStep
    BY <1>3 DEF CadaUnoSuStep
  <2>4. /\ variables_compartidas \in [VariablesCompartidas -> Int]
        /\ propia = [p \in Programas |-> propia[p]]
    BY <1>2, ParametrosCompartidas
  <2> QED
    BY <2>1, <2>2, <2>3, <2>4 DEF InvValores
<1>6. SinEsperar
  BY <1>1 DEF SinEsperar
<1> QED
  BY <1>5, <1>6

\* While no two CPUs are in fnLock or fnUnlock of the same semaphore at once, programs
\* that update a counter between a wait and a signal of its semaphore read different
\* values of it.
THEOREM CadaUnoSuStepSinCarreras ==
  TextosEnRegla /\ SemaforosExisten /\ InicialesNoNegativos /\ ActualizacionesEnRegla
    /\ SpecCompartidas /\ []SinCarreras => []CadaUnoSuStep
<1> SUFFICES ASSUME TextosEnRegla, SemaforosExisten, InicialesNoNegativos,
                    ActualizacionesEnRegla
             PROVE  SpecCompartidas /\ []SinCarreras => []CadaUnoSuStep
  OBVIOUS
<1>1. V!ProgramasEnRegla /\ V!SemaforosExisten
  BY ProgramasVistos, SemaforosVistos
<1>2. V!ProgramasEnRegla /\ V!Spec => []V!InvAvance
  BY ParametrosVistos, DemasParametros, V!InvarianteAvance
<1>3. V!ProgramasEnRegla /\ V!SemaforosExisten /\ V!Spec => []V!InvCorto
  BY ParametrosVistos, DemasParametros, V!InvarianteCorto
<1>4. V!ProgramasEnRegla /\ V!SemaforosExisten /\ V!Spec => []V!AvanceEnTexto
  BY ParametrosVistos, DemasParametros, V!SiempreEnTexto
<1>5. SpecCompartidas => V!Spec
  BY VistoEsPCPCpu
<1>6. SpecCompartidas => []InvVisto
  BY InvarianteVisto
<1>7. InvVisto /\ V!InvAvance /\ V!InvCorto /\ V!AvanceEnTexto => InvTodo
  <2> SUFFICES ASSUME InvVisto, V!InvAvance, V!InvCorto, V!AvanceEnTexto PROVE InvTodo
    OBVIOUS
  <2>1. SeVeIgual
    BY SitioVisto, ContadorVisto DEF InvVisto, SeVeIgual
  <2> QED
    BY <2>1 DEF InvTodo
<1>8. SpecCompartidas => []InvTodo
  BY <1>1, <1>2, <1>3, <1>4, <1>5, <1>6, <1>7, PTL
<1>9. SpecCompartidas /\ []SinCarreras => []ExclusionMutua
  BY ExclusionConVariables
<1>10. InitCompartidas /\ InvTodo => InvValores /\ SinEsperar
  BY InicioValores
<1>11. InvTodo /\ InvTodo' /\ SinEsperar /\ [NextCompartidas]_varsCompartidas => SinEsperar'
  <2> SUFFICES ASSUME InvTodo, InvTodo', SinEsperar, [NextCompartidas]_varsCompartidas
               PROVE  SinEsperar'
    OBVIOUS
  <2>1. [V!Next]_(V!vars)
    BY PasoSinValores DEF InvTodo
  <2> QED
    BY <2>1, SinEsperarSigue
<1>12. InvTodo /\ ExclusionMutua /\ SinEsperar => Solos
  BY EstanSolos DEF InvTodo
<1>13. InvTodo /\ InvTodo' /\ Solos /\ InvValores /\ [NextCompartidas]_varsCompartidas
         => InvValores'
  <2> SUFFICES ASSUME InvTodo, InvTodo', Solos, InvValores, [NextCompartidas]_varsCompartidas
               PROVE  InvValores'
    OBVIOUS
  <2> QED
    BY ValoresSiguen
<1>14. InvValores => CadaUnoSuStep
  BY DEF InvValores
<1>15. SpecCompartidas => []SinEsperar
  BY <1>8, <1>10, <1>11, PTL DEF SpecCompartidas
<1>16. SpecCompartidas /\ []SinCarreras => []Solos
  BY <1>8, <1>9, <1>12, <1>15, PTL
<1>17. SpecCompartidas /\ []SinCarreras => []InvValores
  BY <1>8, <1>10, <1>13, <1>16, PTL DEF SpecCompartidas
<1> QED
  BY <1>14, <1>17, PTL

\* With one CPU, always.
THEOREM CadaUnoSuStepConUnaCpu ==
  TextosEnRegla /\ SemaforosExisten /\ InicialesNoNegativos /\ ActualizacionesEnRegla
    /\ UnaCpu /\ SpecCompartidas => []CadaUnoSuStep
<1> SUFFICES ASSUME TextosEnRegla, SemaforosExisten, InicialesNoNegativos,
                    ActualizacionesEnRegla, UnaCpu
             PROVE  SpecCompartidas => []CadaUnoSuStep
  OBVIOUS
<1>1. SinCarreras
  BY DEF UnaCpu, SinCarreras
<1>2. SpecCompartidas => []SinCarreras
  BY <1>1, PTL
<1> QED
  BY <1>2, CadaUnoSuStepSinCarreras

=============================================================================
