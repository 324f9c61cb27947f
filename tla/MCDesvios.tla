----------------------------- MODULE MCDesvios -----------------------------
(* The programs with which the code departs from what its documents say.    *)
EXTENDS PCPCpu

CONSTANTS c1, c2

UnSemaforo == [s \in {"aviso"} |-> 0]

\* Two CPUs wait on the same semaphore.
DosEsperas ==
  << <<Linea("wait", "aviso"), Linea("fin", "")>>,
     <<Linea("wait", "aviso"), Linea("fin", "")>> >>

\* One program waits on a semaphore that the two others signal at the same time.
DosSenales ==
  << <<Linea("wait", "aviso"), Linea("fin", "")>>,
     <<Linea("signal", "aviso"), Linea("fin", "")>>,
     <<Linea("signal", "aviso"), Linea("fin", "")>> >>

\* A program that blocks while another is in READY, and is signalled later.
EsperaYAviso ==
  << <<Linea("wait", "aviso"), Linea("fin", "")>>,
     <<Linea("calculo", ""), Linea("signal", "aviso"), Linea("fin", "")>> >>

\* A line with two failing accesses, and a program that does nothing wrong.
DosFallas ==
  << <<LineaConFallas(2)>>, <<Linea("calculo", ""), Linea("fin", "")>> >>

\* Programs that only compute, and a CPU that is asked to leave.
SoloCalculo == << <<Linea("calculo", ""), Linea("calculo", ""), Linea("fin", "")>>,
                  <<Linea("calculo", ""), Linea("fin", "")>> >>

=============================================================================
