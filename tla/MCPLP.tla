-------------------------------- MODULE MCPLP --------------------------------
(* Three programs of two weights, two CPU connection threads and one place:  *)
(* NEW holds two programs while the third runs or leaves, so its order       *)
(* decides, and one thread may still be in moverAExit when the next program  *)
(* ends in the other.                                                        *)
EXTENDS PLP

CONSTANTS h1, h2

MCHilos == {h1, h2}
MCMetadatos ==
  {[etiquetas |-> 0, funciones |-> 0, instrucciones |-> 6, segmentos |-> 1],
   [etiquetas |-> 0, funciones |-> 1, instrucciones |-> 2, segmentos |-> 2]}

=============================================================================
