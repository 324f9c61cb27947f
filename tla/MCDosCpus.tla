------------------------------ MODULE MCDosCpus ------------------------------
(* Two CPUs whose programs use one semaphore and one device at the same time; *)
(* one of them fails, and the last names a device that is not configured.     *)
EXTENDS PCPCpu

CONSTANTS c1, c2

MCSemaforos == {"mutex"}
MCValorInicial == [s \in MCSemaforos |-> 1]
MCDispositivos == {"disco"}
MCCodigo ==
  << <<Linea("wait", "mutex"), Linea("io", "disco"), Linea("signal", "mutex"),
       LineaConFallas(1)>>,
     <<Linea("wait", "mutex"), Linea("signal", "mutex"), Linea("fin", "")>>,
     <<Linea("io", "nada")>> >>

\* They are programs the theorems of PCPLugar_proof and PCPRefina_proof are about.
ASSUME ProgramasEnRegla /\ SemaforosExisten

=============================================================================
