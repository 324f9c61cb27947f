------------------------------- MODULE MCUmv -------------------------------
(* The kernel's thread, a CPU's and the console on one small memory.        *)
EXTENDS Umv

CONSTANTS d1, d2, d3, a, elKernel, unaCpu, laConsola, Tamanios

Peticion(op, pid, dir, off, tam) ==
  [op |-> op, pid |-> pid, dir |-> dir, off |-> off, tam |-> tam,
   byte |-> IF op = "almacenar" THEN a ELSE 0]
Sola(op, pid) == Peticion(op, pid, 0, 0, 0)

MCTipo == [h \in Hilos |-> CASE h = elKernel -> "kernel"
                              [] h = unaCpu -> "cpu"
                              [] h = laConsola -> "consola"]

\* The kernel serves programs 1 and 2.
DelKernel == {Sola("cambioProcesoActivo", p) : p \in {1, 2}}
             \cup {Peticion("crearSegmento", 0, 0, 0, t) : t \in Tamanios}
             \cup {Sola("destruirSegmentos", 0)}

\* The CPU runs program 1: what it writes and reads is only in segments of three
\* bytes.
DeLaCpu == {Sola("cambioProcesoActivo", 1), Peticion("almacenar", 0, d1, 2, 1),
            Peticion("solicitar", 0, d1, 1, 2)}

\* The console's segments are of a program of its own, 3.
DeLaConsola == {Sola("compactar", 0), Sola("alg", 0),
                Peticion("crearSegmento", 3, 0, 0, 2), Sola("destruirSegmentos", 3)}

MCPedidos == [h \in Hilos |-> CASE h = elKernel -> DelKernel
                                 [] h = unaCpu -> DeLaCpu
                                 [] h = laConsola -> DeLaConsola]

\* The instances are within what the theorem on the refinement asks of requests.
ASSUME SinDesborde

Simetria == Permutations(DirLogicas)

=============================================================================
