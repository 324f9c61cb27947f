------------------------------ MODULE MCUnaCpu ------------------------------
(* One CPU. Program 1 waits for a signal of program 3, and 1 and 2 exclude   *)
(* each other around the update of a counter, as those of the script         *)
(* bench/productor.ansisop do, and around an I/O, which blocks the owner of  *)
(* the semaphore. Each ends in its own way: a variable that is not           *)
(* configured (written or read), a semaphore that is not, a failing access.  *)
EXTENDS Compartidas

CONSTANT c1

MCSemaforos == {"mutex", "aviso"}
MCValorInicial == [s \in MCSemaforos |-> IF s = "mutex" THEN 1 ELSE 0]
MCDispositivos == {"disco"}
MCVariables == {"step"}
MCValorVariable == [v \in MCVariables |-> 2]
MCSinLeer == -1
MCBasura == {0, 7}
MCCodigo ==
  << <<Linea("wait", "aviso"), Linea("wait", "mutex"), Linea("leer", "step"),
       Linea("io", "disco"), Linea("escribir", "step"), Linea("signal", "mutex"),
       Linea("escribir", "nada")>>,
     <<Linea("wait", "mutex"), Linea("leer", "step"), Linea("escribir", "step"),
       Linea("io", "disco"), Linea("signal", "mutex"), Linea("signal", "nada")>>,
     <<Linea("signal", "aviso"), Linea("consulta", ""), LineaConFallas(1)>>,
     <<Linea("leer", "nada"), Linea("escribir", "step")>> >>

\* The programs are those that the theorems speak of.
ASSUME TextosEnRegla /\ SemaforosExisten /\ ActualizacionesEnRegla

=============================================================================
