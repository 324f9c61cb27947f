------------------------------ MODULE PLP_proof ------------------------------
(***************************************************************************)
(* Proofs about PLP, for any number of programs, CPU connection threads    *)
(* and places: type correctness, conservation of the places and no lost    *)
(* wake-up of the PLP thread; then, that it implements the abstract        *)
(* scheduler LargoPlazo, for which InvPLP is strengthened with where every *)
(* program is, the order of NEW and the segments the UMV holds.            *)
(***************************************************************************)
EXTENDS PLP, FiniteSetTheorems, SequenceTheorems, TLAPS

-----------------------------------------------------------------------------
(* Counting threads by the step of moverAExit they are in. *)

\* The threads in a given set of steps are finitely many.
LEMMA CuentaTipo ==
  ASSUME NEW S
  PROVE  Cuenta(S) \in Nat
<1>1. IsFiniteSet({h \in Hilos : salida[h] \in S})
  BY ParametrosPLP, FS_Subset
<1> QED
  BY <1>1, FS_CardinalityType DEF Cuenta

\* Moving one thread to step b changes the count of the threads in S by what
\* that thread counts for after and before.
LEMMA CuentaCambia ==
  ASSUME NEW S, NEW h \in Hilos, NEW b,
         salida \in [Hilos -> PasosSalida],
         salida' = [salida EXCEPT ![h] = b]
  PROVE  /\ b \in S /\ salida[h] \notin S => Cuenta(S)' = Cuenta(S) + 1
         /\ b \notin S /\ salida[h] \in S => Cuenta(S)' = Cuenta(S) - 1
         /\ (b \in S <=> salida[h] \in S) => Cuenta(S)' = Cuenta(S)
<1> DEFINE A == {x \in Hilos : salida[x] \in S}
           B == {x \in Hilos : salida'[x] \in S}
<1>1. IsFiniteSet(A) /\ IsFiniteSet(B)
  BY ParametrosPLP, FS_Subset
<1>2. Cuenta(S) = Cardinality(A) /\ Cuenta(S)' = Cardinality(B)
  BY DEF Cuenta
<1>3. ASSUME b \in S, salida[h] \notin S PROVE Cardinality(B) = Cardinality(A) + 1
  <2>1. B = A \cup {h} /\ h \notin A
    BY <1>3
  <2> QED
    BY <2>1, <1>1, FS_AddElement
<1>4. ASSUME b \notin S, salida[h] \in S PROVE Cardinality(B) = Cardinality(A) - 1
  <2>1. B = A \ {h} /\ h \in A
    BY <1>4
  <2> QED
    BY <2>1, <1>1, FS_RemoveElement
<1>5. ASSUME b \in S <=> salida[h] \in S PROVE A = B
  BY <1>5
<1> QED
  BY <1>2, <1>3, <1>4, <1>5

-----------------------------------------------------------------------------
(* Facts about the queues. *)

\* Taking the first element of a queue shifts the rest.
LEMMA ColaSinCabeza ==
  ASSUME NEW T, NEW s \in Seq(T), s # <<>>
  PROVE  /\ Len(s) \in Nat \ {0}
         /\ Head(s) \in T
         /\ Head(s) = s[1]
         /\ Tail(s) \in Seq(T)
         /\ Len(Tail(s)) = Len(s) - 1
         /\ \A i \in 1..Len(Tail(s)) : Tail(s)[i] = s[i + 1]
BY HeadTailProperties, EmptySeq, LenProperties

\* Appending leaves the queue as it was, with one more element at its end.
LEMMA ColaConUltimo ==
  ASSUME NEW T, NEW s \in Seq(T), NEW e \in T
  PROVE  /\ Len(s) \in Nat
         /\ Append(s, e) \in Seq(T)
         /\ Len(Append(s, e)) = Len(s) + 1
         /\ \A i \in 1..Len(s) : Append(s, e)[i] = s[i]
         /\ Append(s, e)[Len(s) + 1] = e
BY AppendProperties, LenProperties

\* A queue of pids stays one when more pids are given.
LEMMA ColaCrece ==
  ASSUME NEW n \in Nat, NEW m \in Nat, n <= m, NEW s \in Seq(1..n)
  PROVE  s \in Seq(1..m)
BY SeqMonotonic, 1..n \subseteq 1..m

\* Changing one value of a function keeps its type.
LEMMA UnValorCambiado ==
  ASSUME NEW P, NEW T, NEW f \in [P -> T], NEW e, NEW v \in T
  PROVE  [f EXCEPT ![e] = v] \in [P -> T]
OBVIOUS

\* Inserting a pid in a queue of pids makes a longer one.
LEMMA ColaConInsertado ==
  ASSUME NEW T, NEW s \in Seq(T), NEW e \in T, NEW k \in 0..Len(s)
  PROVE  /\ Insertar(s, k, e) \in Seq(T)
         /\ Len(Insertar(s, k, e)) = Len(s) + 1
<1> DEFINE n == Len(s) + 1
           t == Insertar(s, k, e)
<1>1. n \in Nat /\ s \in [1..Len(s) -> T] /\ Len(s) \in Nat
  BY LenProperties
<1>2. t \in [1..n -> T]
  BY <1>1 DEF Insertar
<1>3. t \in Seq(T)
  BY <1>1, <1>2, SeqDef
<1>4. DOMAIN t = 1..n /\ DOMAIN t = 1..Len(t) /\ Len(t) \in Nat
  BY <1>2, <1>3, LenProperties
<1>5. Len(t) = n
  BY <1>1, <1>4
<1> QED
  BY <1>3, <1>5

-----------------------------------------------------------------------------
(* Type correctness. *)

\* The kernel starts with empty queues, no posts and every place free.
LEMMA TipoInicial == Init => TypeOK
BY ParametrosPLP DEF Init, TypeOK, TiposColas, TiposContadores, TiposUMV,
   TiposPLP, TiposSalida, pidGeneral, Nadie, Respuestas, PasosPLP,
   PasosSalida, PasosConPrograma

\* The queues keep holding pids that were given.
LEMMA ColasConTipo ==
  ASSUME TypeOK, PromocionPosible, [Next]_vars
  PROVE  TiposColas'
<1> USE DEF ventanilla, mundoPCP, colaExit, moviendo, pidGeneral
<1>1. CASE AgregarPrograma
  <2>1. Len(metadata') = Len(metadata) + 1 /\ Len(metadata) \in Nat
    BY <1>1, ColaConUltimo DEF AgregarPrograma, TypeOK, TiposColas
  <2>2. metadata' \in Seq(Metadatos) /\ Len(metadata') <= MaxProgramas
    BY <1>1, <2>1, ParametrosPLP DEF AgregarPrograma, TypeOK, TiposColas
  <2>3. lista_de_programas \in Seq(1..Len(metadata'))
    BY <2>1, ColaCrece DEF TypeOK, TiposColas
  <2>4. lista_de_programas' \in Seq(1..Len(metadata'))
    BY <1>1, <2>1, <2>3 DEF AgregarPrograma
  <2>5. /\ newProcesos \in Seq(1..Len(metadata'))
        /\ listaReady \in Seq(1..Len(metadata'))
        /\ exitProcesos \in Seq(1..Len(metadata'))
    BY <2>1, ColaCrece DEF TypeOK, TiposColas
  <2>6. enPCP \in SUBSET (1..Len(metadata'))
    BY <2>1 DEF TypeOK, TiposColas
  <2> QED
    BY <1>1, <2>2, <2>4, <2>5, <2>6 DEF AgregarPrograma, TiposColas
<1>2. CASE SacarPrograma
  <2>1. lista_de_programas # <<>> =>
          /\ Head(lista_de_programas) \in 1..pidGeneral
          /\ Tail(lista_de_programas) \in Seq(1..pidGeneral)
    BY ColaSinCabeza DEF TypeOK, TiposColas
  <2> QED
    BY <1>2, <2>1 DEF SacarPrograma, TypeOK, TiposColas
<1>3. CASE AceptarPrograma
  <2>1. plp.prog \in 1..pidGeneral
    BY <1>3 DEF AceptarPrograma, TypeOK, TiposColas, TiposPLP, PasosConPrograma, Nadie
  <2>2. \A k \in 0..Len(newProcesos) :
          Insertar(newProcesos, k, plp.prog) \in Seq(1..pidGeneral)
    BY <2>1, ColaConInsertado DEF TypeOK, TiposColas
  <2> QED
    BY <1>3, <2>2 DEF AceptarPrograma, TypeOK, TiposColas
<1>4. CASE MoverAReady
  <2>1. newProcesos # <<>> =>
          /\ Head(newProcesos) \in 1..pidGeneral
          /\ Tail(newProcesos) \in Seq(1..pidGeneral)
    BY ColaSinCabeza DEF TypeOK, TiposColas
  <2> QED
    BY <1>4, <2>1 DEF MoverAReady, TypeOK, TiposColas, PromocionPosible
<1>5. CASE SacarDeExit
  BY <1>5 DEF SacarDeExit, TypeOK, TiposColas
<1>6. CASE TomarDeReady
  <2>1. listaReady # <<>> =>
          /\ Head(listaReady) \in 1..pidGeneral
          /\ Tail(listaReady) \in Seq(1..pidGeneral)
    BY ColaSinCabeza DEF TypeOK, TiposColas
  <2> QED
    BY <1>6, <2>1 DEF TomarDeReady, TypeOK, TiposColas
<1>7. ASSUME NEW p \in Programas, VolverAReady(p) PROVE TiposColas'
  BY <1>7 DEF VolverAReady, TypeOK, TiposColas
<1>8. ASSUME NEW h \in Hilos, NEW p \in Programas, SacarDeExec(h, p) PROVE TiposColas'
  BY <1>8 DEF SacarDeExec, TypeOK, TiposColas
<1>9. ASSUME NEW h \in Hilos, AgregarAExit(h) PROVE TiposColas'
  BY <1>9 DEF AgregarAExit, TypeOK, TiposColas, TiposSalida, Nadie
<1>10. CASE PostNuevoPrograma \/ EsperarPrograma \/ CrearSegmento \/
          DestruirRechazado \/ AvisarRechazo \/ DecidirPromocion \/
          OcuparLugar \/ PostReady \/ EsperarSalida \/ DestruirSegmentos \/
          AvisarFin \/ UNCHANGED vars
  BY <1>10 DEF PostNuevoPrograma, EsperarPrograma, CrearSegmento,
     DestruirRechazado, AvisarRechazo, DecidirPromocion, OcuparLugar,
     PostReady, EsperarSalida, DestruirSegmentos, AvisarFin, vars, TypeOK,
     TiposColas
<1>11. ASSUME NEW h \in Hilos, LiberarLugar(h) PROVE TiposColas'
  BY <1>11 DEF LiberarLugar, TypeOK, TiposColas
<1>12. ASSUME NEW h \in Hilos, PostExit(h) PROVE TiposColas'
  BY <1>12 DEF PostExit, TypeOK, TiposColas
<1>13. ASSUME NEW h \in Hilos, PostLugar(h) PROVE TiposColas'
  BY <1>13 DEF PostLugar, TypeOK, TiposColas
<1> QED
  BY <1>1, <1>2, <1>3, <1>4, <1>5, <1>6, <1>7, <1>8, <1>9, <1>10, <1>11,
     <1>12, <1>13
  DEF Next, planificar_programas, terminarPrograma, moverAExit

\* The counters that are decremented are tested first: by a semaphore or, the
\* free places, by PromocionPosible.
LEMMA ContadoresConTipo ==
  ASSUME TypeOK, PromocionPosible, [Next]_vars
  PROVE  TiposContadores'
<1> USE DEF ventanilla, mundoPCP, colaExit, moviendo, pidGeneral
<1>1. CASE PostNuevoPrograma
  BY <1>1 DEF PostNuevoPrograma, TypeOK, TiposContadores
<1>2. CASE EsperarPrograma
  BY <1>2 DEF EsperarPrograma, TypeOK, TiposContadores
<1>3. CASE OcuparLugar
  BY <1>3 DEF OcuparLugar, TypeOK, TiposContadores, PromocionPosible
<1>4. CASE PostReady
  BY <1>4 DEF PostReady, TypeOK, TiposContadores
<1>5. CASE EsperarSalida
  BY <1>5 DEF EsperarSalida, TypeOK, TiposContadores
<1>6. CASE TomarDeReady
  BY <1>6 DEF TomarDeReady, TypeOK, TiposContadores
<1>7. ASSUME NEW p \in Programas, VolverAReady(p) PROVE TiposContadores'
  BY <1>7 DEF VolverAReady, TypeOK, TiposContadores
<1>8. ASSUME NEW h \in Hilos, LiberarLugar(h) PROVE TiposContadores'
  BY <1>8 DEF LiberarLugar, TypeOK, TiposContadores
<1>9. ASSUME NEW h \in Hilos, PostExit(h) PROVE TiposContadores'
  BY <1>9 DEF PostExit, TypeOK, TiposContadores
<1>10. ASSUME NEW h \in Hilos, PostLugar(h) PROVE TiposContadores'
  BY <1>10 DEF PostLugar, TypeOK, TiposContadores
<1>11. CASE AgregarPrograma \/ SacarPrograma \/ CrearSegmento \/
          AceptarPrograma \/ DestruirRechazado \/ AvisarRechazo \/
          DecidirPromocion \/ MoverAReady \/ SacarDeExit \/ DestruirSegmentos
          \/ AvisarFin \/ UNCHANGED vars
  BY <1>11 DEF AgregarPrograma, SacarPrograma, CrearSegmento, AceptarPrograma,
     DestruirRechazado, AvisarRechazo, DecidirPromocion, MoverAReady,
     SacarDeExit, DestruirSegmentos, AvisarFin, vars, TypeOK, TiposContadores
<1>12. ASSUME NEW h \in Hilos, NEW p \in Programas, SacarDeExec(h, p) PROVE TiposContadores'
  BY <1>12 DEF SacarDeExec, TypeOK, TiposContadores
<1>13. ASSUME NEW h \in Hilos, AgregarAExit(h) PROVE TiposContadores'
  BY <1>13 DEF AgregarAExit, TypeOK, TiposContadores
<1> QED
  BY <1>1, <1>2, <1>3, <1>4, <1>5, <1>6, <1>7, <1>8, <1>9, <1>10, <1>11,
     <1>12, <1>13
  DEF Next, planificar_programas, terminarPrograma, moverAExit

\* No program has more segments than its metadata say.
LEMMA UMVConTipo ==
  ASSUME TypeOK, [Next]_vars
  PROVE  TiposUMV'
<1> USE DEF ventanilla, mundoPCP, colaExit, moviendo, pidGeneral
<1>1. CASE CrearSegmento
  <2>1. plp.prog \in 1..Len(metadata) /\ plp.prog \in Programas
    BY <1>1, ParametrosPLP DEF CrearSegmento, TypeOK, TiposColas, TiposPLP, PasosConPrograma, Nadie, Programas
  <2>2. metadata[plp.prog] \in Metadatos
    BY <2>1, ElementOfSeq DEF TypeOK, TiposColas
  <2>3. metadata[plp.prog].segmentos \in 1..4
    BY <2>2, ParametrosPLP
  <2> QED
    BY <1>1, <2>1, <2>3 DEF CrearSegmento, TypeOK, TiposUMV
<1>2. CASE DestruirRechazado
  <2>1. segmentos' \in [Programas -> 0..4]
    <3>1. /\ segmentos' = [segmentos EXCEPT ![plp.prog] = 0]
          /\ segmentos \in [Programas -> 0..4]
      BY <1>2 DEF DestruirRechazado, TypeOK, TiposUMV
    <3> QED
      BY <3>1, UnValorCambiado, 0 \in 0..4
  <2>2. respuesta' = respuesta
    BY <1>2 DEF DestruirRechazado
  <2> QED
    BY <2>1, <2>2 DEF TypeOK, TiposUMV
<1>3. CASE AvisarRechazo
  BY <1>3 DEF AvisarRechazo, TypeOK, TiposUMV, Respuestas
<1>4. CASE DestruirSegmentos
  <2>1. segmentos' \in [Programas -> 0..4]
    <3>1. /\ segmentos' = [segmentos EXCEPT ![hiloExit.prog] = 0]
          /\ segmentos \in [Programas -> 0..4]
      BY <1>4 DEF DestruirSegmentos, TypeOK, TiposUMV
    <3> QED
      BY <3>1, UnValorCambiado, 0 \in 0..4
  <2>2. respuesta' = respuesta
    BY <1>4 DEF DestruirSegmentos
  <2> QED
    BY <2>1, <2>2 DEF TypeOK, TiposUMV
<1>5. CASE AvisarFin
  BY <1>5 DEF AvisarFin, TypeOK, TiposUMV, Respuestas
<1>6. CASE AgregarPrograma \/ PostNuevoPrograma \/ EsperarPrograma \/
          SacarPrograma \/ AceptarPrograma \/ DecidirPromocion \/ OcuparLugar
          \/ MoverAReady \/ PostReady \/ EsperarSalida \/ SacarDeExit \/
          TomarDeReady \/ UNCHANGED vars
  BY <1>6 DEF AgregarPrograma, PostNuevoPrograma, EsperarPrograma,
     SacarPrograma, AceptarPrograma, DecidirPromocion, OcuparLugar,
     MoverAReady, PostReady, EsperarSalida, SacarDeExit, TomarDeReady, vars,
     TypeOK, TiposUMV
<1>7. ASSUME NEW p \in Programas, VolverAReady(p) PROVE TiposUMV'
  BY <1>7 DEF VolverAReady, TypeOK, TiposUMV
<1>8. ASSUME NEW h \in Hilos, NEW p \in Programas, SacarDeExec(h, p) PROVE TiposUMV'
  BY <1>8 DEF SacarDeExec, TypeOK, TiposUMV
<1>9. ASSUME NEW h \in Hilos, AgregarAExit(h) PROVE TiposUMV'
  BY <1>9 DEF AgregarAExit, TypeOK, TiposUMV
<1>10. ASSUME NEW h \in Hilos, LiberarLugar(h) PROVE TiposUMV'
  BY <1>10 DEF LiberarLugar, TypeOK, TiposUMV
<1>11. ASSUME NEW h \in Hilos, PostExit(h) PROVE TiposUMV'
  BY <1>11 DEF PostExit, TypeOK, TiposUMV
<1>12. ASSUME NEW h \in Hilos, PostLugar(h) PROVE TiposUMV'
  BY <1>12 DEF PostLugar, TypeOK, TiposUMV
<1> QED
  BY <1>1, <1>2, <1>3, <1>4, <1>5, <1>6, <1>7, <1>8, <1>9, <1>10, <1>11, <1>12
  DEF Next, planificar_programas, terminarPrograma, moverAExit

\* The PLP has a program whenever its step uses one.
LEMMA PLPConTipo ==
  ASSUME TypeOK, [Next]_vars
  PROVE  TiposPLP'
<1> USE DEF ventanilla, mundoPCP, colaExit, moviendo, pidGeneral
<1>0. Len(metadata) \in Nat
  BY LenProperties DEF TypeOK, TiposColas
<1>1. CASE AgregarPrograma
  BY <1>1, <1>0 DEF AgregarPrograma, TypeOK, TiposPLP, PasosPLP, PasosConPrograma,
     Nadie
<1>2. CASE PostNuevoPrograma
  BY <1>2 DEF PostNuevoPrograma, TypeOK, TiposPLP, PasosPLP, PasosConPrograma,
     Nadie
<1>3. CASE EsperarPrograma
  BY <1>3 DEF EsperarPrograma, TypeOK, TiposPLP, PasosPLP, PasosConPrograma,
     Nadie
<1>4. CASE SacarPrograma
  <2>1. lista_de_programas # <<>> => Head(lista_de_programas) \in 1..pidGeneral
    BY ColaSinCabeza DEF TypeOK, TiposColas
  <2> QED
    BY <1>4, <1>0, <2>1 DEF SacarPrograma, TypeOK, TiposPLP, PasosPLP, PasosConPrograma,
     Nadie
<1>5. CASE CrearSegmento
  BY <1>5 DEF CrearSegmento, TypeOK, TiposPLP, PasosPLP, PasosConPrograma,
     Nadie
<1>6. CASE AceptarPrograma
  BY <1>6, <1>0 DEF AceptarPrograma, TypeOK, TiposPLP, PasosPLP, PasosConPrograma,
     Nadie
<1>7. CASE DestruirRechazado
  BY <1>7 DEF DestruirRechazado, TypeOK, TiposPLP, PasosPLP, PasosConPrograma,
     Nadie
<1>8. CASE AvisarRechazo
  <2>1. UNCHANGED <<principal, metadata>> /\ plp' = [paso |-> "promover", prog |-> 0]
    BY <1>8 DEF AvisarRechazo, Nadie
  <2>2. plp' \in [paso : PasosPLP, prog : 0..pidGeneral] /\ plp'.paso = "promover"
    BY <2>1, <1>0 DEF PasosPLP
  <2> QED
    BY <2>1, <2>2 DEF TypeOK, TiposPLP, PasosConPrograma
<1>9. CASE DecidirPromocion
  BY <1>9 DEF DecidirPromocion, TypeOK, TiposPLP, PasosPLP, PasosConPrograma,
     Nadie
<1>10. CASE OcuparLugar
  BY <1>10 DEF OcuparLugar, TypeOK, TiposPLP, PasosPLP, PasosConPrograma,
     Nadie
<1>11. CASE MoverAReady
  BY <1>11 DEF MoverAReady, TypeOK, TiposPLP, PasosPLP, PasosConPrograma,
     Nadie
<1>12. CASE PostReady
  BY <1>12 DEF PostReady, TypeOK, TiposPLP, PasosPLP, PasosConPrograma, Nadie
<1>13. CASE EsperarSalida \/ SacarDeExit \/ DestruirSegmentos \/ AvisarFin \/
          TomarDeReady \/ UNCHANGED vars
  BY <1>13 DEF EsperarSalida, SacarDeExit, DestruirSegmentos, AvisarFin,
     TomarDeReady, vars, TypeOK, TiposPLP
<1>14. ASSUME NEW p \in Programas, VolverAReady(p) PROVE TiposPLP'
  BY <1>14 DEF VolverAReady, TypeOK, TiposPLP
<1>15. ASSUME NEW h \in Hilos, NEW p \in Programas, SacarDeExec(h, p) PROVE TiposPLP'
  BY <1>15 DEF SacarDeExec, TypeOK, TiposPLP
<1>16. ASSUME NEW h \in Hilos, AgregarAExit(h) PROVE TiposPLP'
  BY <1>16 DEF AgregarAExit, TypeOK, TiposPLP
<1>17. ASSUME NEW h \in Hilos, LiberarLugar(h) PROVE TiposPLP'
  BY <1>17 DEF LiberarLugar, TypeOK, TiposPLP
<1>18. ASSUME NEW h \in Hilos, PostExit(h) PROVE TiposPLP'
  BY <1>18 DEF PostExit, TypeOK, TiposPLP
<1>19. ASSUME NEW h \in Hilos, PostLugar(h) PROVE TiposPLP'
  BY <1>19 DEF PostLugar, TypeOK, TiposPLP
<1> QED
  BY <1>1, <1>2, <1>3, <1>4, <1>5, <1>6, <1>7, <1>8, <1>9, <1>10, <1>11,
     <1>12, <1>13, <1>14, <1>15, <1>16, <1>17, <1>18, <1>19
  DEF Next, planificar_programas, terminarPrograma, moverAExit

\* The exit thread and those in moverAExit have a program whenever their step
\* uses one.
LEMMA SalidaConTipo ==
  ASSUME TypeOK, [Next]_vars
  PROVE  TiposSalida'
<1> USE DEF ventanilla, mundoPCP, colaExit, moviendo, pidGeneral
<1>0. Len(metadata) \in Nat
  BY LenProperties DEF TypeOK, TiposColas
<1>1. CASE AgregarPrograma
  BY <1>1, <1>0 DEF AgregarPrograma, TypeOK, TiposSalida
<1>2. CASE EsperarSalida
  BY <1>2 DEF EsperarSalida, TypeOK, TiposSalida, Nadie, TiposColas
<1>3. CASE SacarDeExit
  BY <1>3, <1>0 DEF SacarDeExit, TypeOK, TiposSalida, Nadie, TiposColas
<1>4. CASE DestruirSegmentos
  BY <1>4 DEF DestruirSegmentos, TypeOK, TiposSalida, Nadie, TiposColas
<1>5. CASE AvisarFin
  <2>1. /\ UNCHANGED <<salida, saliente, metadata>>
        /\ hiloExit' = [paso |-> "esperar", prog |-> 0]
    BY <1>5 DEF AvisarFin, Nadie
  <2>2. /\ hiloExit' \in [paso : {"esperar", "sacar", "destruir", "avisar"},
                          prog : 0..pidGeneral]
        /\ hiloExit'.paso = "esperar"
    BY <2>1, <1>0
  <2> QED
    BY <2>1, <2>2 DEF TypeOK, TiposSalida
<1>6. ASSUME NEW h \in Hilos, NEW p \in Programas, SacarDeExec(h, p) PROVE TiposSalida'
  <2>1. UNCHANGED <<hiloExit, metadata>> /\ p \in 1..pidGeneral
    BY <1>6 DEF SacarDeExec, TypeOK, TiposColas
  <2>2. salida' \in [Hilos -> PasosSalida] /\ saliente' \in [Hilos -> 0..pidGeneral]
    BY <1>6, <1>0, <2>1 DEF SacarDeExec, TypeOK, TiposSalida, PasosSalida
  <2>3. \A x \in Hilos : salida'[x] = "agregar" => saliente'[x] # Nadie
    BY <1>6, <1>0, <2>1 DEF SacarDeExec, TypeOK, TiposSalida, Nadie
  <2> QED
    BY <2>1, <2>2, <2>3 DEF TypeOK, TiposSalida
<1>7. ASSUME NEW h \in Hilos, AgregarAExit(h) PROVE TiposSalida'
  BY <1>7 DEF AgregarAExit, TypeOK, TiposSalida, PasosSalida, Nadie
<1>8. ASSUME NEW h \in Hilos, LiberarLugar(h) PROVE TiposSalida'
  BY <1>8 DEF LiberarLugar, TypeOK, TiposSalida, PasosSalida, Nadie
<1>9. ASSUME NEW h \in Hilos, PostExit(h) PROVE TiposSalida'
  BY <1>9 DEF PostExit, TypeOK, TiposSalida, PasosSalida, Nadie
<1>10. ASSUME NEW h \in Hilos, PostLugar(h) PROVE TiposSalida'
  BY <1>10 DEF PostLugar, TypeOK, TiposSalida, PasosSalida, Nadie
<1>11. CASE PostNuevoPrograma \/ EsperarPrograma \/ SacarPrograma \/
          CrearSegmento \/ AceptarPrograma \/ DestruirRechazado \/
          AvisarRechazo \/ DecidirPromocion \/ OcuparLugar \/ MoverAReady \/
          PostReady \/ TomarDeReady \/ UNCHANGED vars
  BY <1>11 DEF PostNuevoPrograma, EsperarPrograma, SacarPrograma,
     CrearSegmento, AceptarPrograma, DestruirRechazado, AvisarRechazo,
     DecidirPromocion, OcuparLugar, MoverAReady, PostReady, TomarDeReady,
     vars, TypeOK, TiposSalida
<1>12. ASSUME NEW p \in Programas, VolverAReady(p) PROVE TiposSalida'
  BY <1>12 DEF VolverAReady, TypeOK, TiposSalida
<1> QED
  BY <1>1, <1>2, <1>3, <1>4, <1>5, <1>6, <1>7, <1>8, <1>9, <1>10, <1>11, <1>12
  DEF Next, planificar_programas, terminarPrograma, moverAExit

\* No step of any thread breaks a type: the five parts together.
LEMMA TipoConservado ==
  ASSUME TypeOK, PromocionPosible, [Next]_vars
  PROVE  TypeOK'
BY ColasConTipo, ContadoresConTipo, UMVConTipo, PLPConTipo, SalidaConTipo
DEF TypeOK

-----------------------------------------------------------------------------
(* The PLP's promotions. *)

\* The steps of a round of the PLP before it decides about a promotion.
LEMMA OtraRonda ==
  ASSUME TypeOK,
         \/ EsperarPrograma \/ SacarPrograma \/ CrearSegmento
         \/ AceptarPrograma \/ DestruirRechazado \/ AvisarRechazo
  PROVE  /\ plp.paso \notin {"promover", "ocupar", "mover", "postear"}
         /\ plp'.paso \notin {"esperar", "ocupar", "mover", "postear"}
         /\ UNCHANGED <<estado_multiprogramacion, listaReady, enPCP, salida>>
<1> USE DEF mundoPCP, moviendo, TypeOK, TiposPLP
<1>1. CASE EsperarPrograma
  BY <1>1 DEF EsperarPrograma
<1>2. CASE SacarPrograma
  BY <1>2 DEF SacarPrograma
<1>3. CASE CrearSegmento
  BY <1>3 DEF CrearSegmento
<1>4. CASE AceptarPrograma
  BY <1>4 DEF AceptarPrograma
<1>5. CASE DestruirRechazado
  BY <1>5 DEF DestruirRechazado
<1>6. CASE AvisarRechazo
  BY <1>6 DEF AvisarRechazo
<1> QED
  BY <1>1, <1>2, <1>3, <1>4, <1>5, <1>6

\* Between the test of ponerEnReadyProgramas and its effect only the PLP takes
\* from NEW, and the other threads only add free places.
LEMMA PromocionConservada ==
  ASSUME TypeOK, PromocionPosible, [Next]_vars
  PROVE  PromocionPosible'
<1> USE DEF ventanilla, mundoPCP, colaExit, moviendo, PromocionPosible
<1>1. CASE \/ EsperarPrograma \/ SacarPrograma \/ CrearSegmento
           \/ AceptarPrograma \/ DestruirRechazado \/ AvisarRechazo
  <2>1. plp'.paso \notin {"ocupar", "mover"}
    BY <1>1, OtraRonda
  <2> QED
    BY <2>1
<1>2. CASE DecidirPromocion \/ OcuparLugar \/ MoverAReady \/ PostReady
  BY <1>2 DEF DecidirPromocion, OcuparLugar, MoverAReady, PostReady, TypeOK,
     TiposPLP
<1>3. CASE \/ AgregarPrograma \/ PostNuevoPrograma \/ terminarPrograma
           \/ TomarDeReady \/ UNCHANGED vars
  BY <1>3 DEF AgregarPrograma, PostNuevoPrograma, terminarPrograma,
     EsperarSalida, SacarDeExit, DestruirSegmentos, AvisarFin, TomarDeReady,
     vars
<1>4. ASSUME NEW p \in Programas, VolverAReady(p) PROVE PromocionPosible'
  BY <1>4 DEF VolverAReady
<1>5. ASSUME NEW h \in Hilos, moverAExit(h) PROVE PromocionPosible'
  BY <1>5 DEF moverAExit, SacarDeExec, AgregarAExit, LiberarLugar, PostExit,
     PostLugar, TypeOK, TiposContadores
<1> QED
  BY <1>1, <1>2, <1>3, <1>4, <1>5 DEF Next, planificar_programas

-----------------------------------------------------------------------------
(* The places. *)

\* enPCP is finite: it holds pids.
LEMMA EnPCPFinito ==
  ASSUME TypeOK
  PROVE  IsFiniteSet(enPCP) /\ Cardinality(enPCP) \in Nat
<1>1. IsFiniteSet(1..pidGeneral)
  BY LenProperties, FS_Interval DEF TypeOK, TiposColas, pidGeneral
<1> QED
  BY <1>1, FS_Subset, FS_CardinalityType DEF TypeOK, TiposColas

\* A count of threads does not change while they do not move.
LEMMA CuentaIgual ==
  ASSUME NEW S, salida' = salida
  PROVE  Cuenta(S)' = Cuenta(S)
BY DEF Cuenta

\* Every action gives to one of the places' owners what it takes from another.
LEMMA LugaresConservados ==
  ASSUME TypeOK, PromocionPosible, UnSoloLugar, GradoConservado, [Next]_vars
  PROVE  GradoConservado'
<1> DEFINE EnSalida == Cuenta({"agregar", "sumar"})
<1> USE DEF ventanilla, mundoPCP, colaExit, moviendo
<1>1. /\ EnSalida \in Nat
      /\ IsFiniteSet(enPCP) /\ Cardinality(enPCP) \in Nat
      /\ Len(listaReady) \in Nat
      /\ estado_multiprogramacion \in Nat
  BY CuentaTipo, EnPCPFinito, LenProperties DEF TypeOK, TiposColas, TiposContadores
<1>2. salida' = salida => EnSalida' = EnSalida
  BY CuentaIgual
<1>3. CASE \/ EsperarPrograma \/ SacarPrograma \/ CrearSegmento
           \/ AceptarPrograma \/ DestruirRechazado \/ AvisarRechazo
           \/ DecidirPromocion \/ PostReady
  <2>1. /\ plp.paso # "mover" /\ plp'.paso # "mover"
        /\ UNCHANGED <<estado_multiprogramacion, listaReady, enPCP, salida>>
    <3>1. CASE DecidirPromocion \/ PostReady
      BY <3>1 DEF DecidirPromocion, PostReady, TypeOK, TiposPLP
    <3> QED
      BY <1>3, <3>1, OtraRonda
  <2> QED
    BY <2>1, <1>2 DEF GradoConservado, Uno
<1>4. CASE OcuparLugar
  <2>1. /\ plp.paso # "mover" /\ plp'.paso = "mover"
        /\ UNCHANGED <<listaReady, enPCP, salida>>
        /\ estado_multiprogramacion' = estado_multiprogramacion - 1
    BY <1>4 DEF OcuparLugar, TypeOK, TiposPLP
  <2> QED
    BY <2>1, <1>1, <1>2 DEF GradoConservado, Uno
<1>5. CASE MoverAReady
  <2>1. /\ plp.paso = "mover" /\ plp'.paso # "mover"
        /\ UNCHANGED <<estado_multiprogramacion, enPCP, salida>>
    BY <1>5 DEF MoverAReady, TypeOK, TiposPLP
  <2>2. newProcesos # <<>>
    BY <2>1 DEF PromocionPosible
  <2>3. Len(listaReady') = Len(listaReady) + 1
    BY <1>5, <2>2, ColaSinCabeza, ColaConUltimo DEF MoverAReady, TypeOK, TiposColas
  <2> QED
    BY <2>1, <2>3, <1>1, <1>2 DEF GradoConservado, Uno
<1>6. CASE \/ AgregarPrograma \/ PostNuevoPrograma \/ terminarPrograma
           \/ UNCHANGED vars
  <2>1. UNCHANGED <<estado_multiprogramacion, listaReady, enPCP, salida, plp>>
    BY <1>6 DEF AgregarPrograma, PostNuevoPrograma, terminarPrograma,
       EsperarSalida, SacarDeExit, DestruirSegmentos, AvisarFin, vars
  <2> QED
    BY <2>1, <1>2 DEF GradoConservado
<1>7. CASE TomarDeReady
  <2>1. UNCHANGED <<estado_multiprogramacion, salida, plp>>
    BY <1>7 DEF TomarDeReady
  <2>2. /\ Len(listaReady) \in Nat \ {0}
        /\ Head(listaReady) = listaReady[1]
        /\ Len(listaReady') = Len(listaReady) - 1
    BY <1>7, ColaSinCabeza DEF TomarDeReady, TypeOK, TiposColas
  <2>3. Head(listaReady) \notin enPCP
    BY <2>2 DEF UnSoloLugar
  <2>4. Cardinality(enPCP') = Cardinality(enPCP) + 1
    BY <1>7, <1>1, <2>3, FS_AddElement DEF TomarDeReady
  <2> QED
    BY <2>1, <2>2, <2>4, <1>1, <1>2 DEF GradoConservado, Uno
<1>8. ASSUME NEW p \in Programas, VolverAReady(p) PROVE GradoConservado'
  <2>1. UNCHANGED <<estado_multiprogramacion, salida, plp>>
    BY <1>8 DEF VolverAReady
  <2>2. Len(listaReady') = Len(listaReady) + 1
    BY <1>8, ColaConUltimo DEF VolverAReady, TypeOK, TiposColas
  <2>3. Cardinality(enPCP') = Cardinality(enPCP) - 1
    BY <1>8, <1>1, FS_RemoveElement DEF VolverAReady
  <2> QED
    BY <2>1, <2>2, <2>3, <1>1, <1>2 DEF GradoConservado, Uno
<1>9. ASSUME NEW h \in Hilos, NEW p \in Programas, SacarDeExec(h, p)
      PROVE  GradoConservado'
  <2>1. /\ UNCHANGED <<estado_multiprogramacion, listaReady, plp>>
        /\ salida[h] = "libre" /\ salida' = [salida EXCEPT ![h] = "agregar"]
    BY <1>9 DEF SacarDeExec
  <2>2. EnSalida' = EnSalida + 1
    BY <2>1, CuentaCambia DEF TypeOK, TiposSalida
  <2>3. Cardinality(enPCP') = Cardinality(enPCP) - 1
    BY <1>9, <1>1, FS_RemoveElement DEF SacarDeExec
  <2> QED
    BY <2>1, <2>2, <2>3, <1>1 DEF GradoConservado, Uno
<1>10. ASSUME NEW h \in Hilos, LiberarLugar(h) PROVE GradoConservado'
  <2>1. /\ UNCHANGED <<listaReady, enPCP, plp>>
        /\ estado_multiprogramacion' = estado_multiprogramacion + 1
        /\ salida[h] = "sumar" /\ salida' = [salida EXCEPT ![h] = "postExit"]
    BY <1>10 DEF LiberarLugar
  <2>2. "postExit" \notin {"agregar", "sumar"} /\ salida[h] \in {"agregar", "sumar"}
    BY <2>1
  <2>3. EnSalida' = EnSalida - 1
    BY <2>1, <2>2, CuentaCambia DEF TypeOK, TiposSalida
  <2> QED
    BY <2>1, <2>3, <1>1 DEF GradoConservado, Uno
<1>11. ASSUME NEW h \in Hilos, AgregarAExit(h) \/ PostExit(h) \/ PostLugar(h)
       PROVE  GradoConservado'
  <2>1. /\ UNCHANGED <<estado_multiprogramacion, listaReady, enPCP, plp>>
        /\ \/ salida[h] = "agregar" /\ salida' = [salida EXCEPT ![h] = "sumar"]
           \/ salida[h] = "postExit" /\ salida' = [salida EXCEPT ![h] = "postNuevo"]
           \/ salida[h] = "postNuevo" /\ salida' = [salida EXCEPT ![h] = "libre"]
    BY <1>11 DEF AgregarAExit, PostExit, PostLugar
  <2>2. EnSalida' = EnSalida
    BY <2>1, CuentaCambia DEF TypeOK, TiposSalida
  <2> QED
    BY <2>1, <2>2, <1>1 DEF GradoConservado
<1> QED
  BY <1>3, <1>4, <1>5, <1>6, <1>7, <1>8, <1>9, <1>10, <1>11
  DEF Next, planificar_programas, moverAExit

-----------------------------------------------------------------------------
(* The posts of semaforoExit. *)

\* moverAExit adds to EXIT before it posts, and terminarPrograma waits before it
\* removes: the posts made, owed and being served add up to the list's length.
LEMMA ExitSigueContado ==
  ASSUME TypeOK, ExitContado, [Next]_vars
  PROVE  ExitContado'
<1> DEFINE Debidos == Cuenta({"sumar", "postExit"})
<1> USE DEF ventanilla, mundoPCP, colaExit, moviendo
<1>1. Debidos \in Nat /\ Len(exitProcesos) \in Nat /\ semaforoExit \in Nat
  BY CuentaTipo, LenProperties DEF TypeOK, TiposColas, TiposContadores
<1>2. salida' = salida => Debidos' = Debidos
  BY CuentaIgual
<1>3. CASE \/ AgregarPrograma \/ PostNuevoPrograma \/ planificar_programas
           \/ TomarDeReady \/ (\E p \in Programas : VolverAReady(p))
           \/ UNCHANGED vars
  <2>1. UNCHANGED <<semaforoExit, exitProcesos, hiloExit, salida>>
    <3>1. CASE planificar_programas
      BY <3>1 DEF planificar_programas, EsperarPrograma, SacarPrograma,
         CrearSegmento, AceptarPrograma, DestruirRechazado, AvisarRechazo,
         DecidirPromocion, OcuparLugar, MoverAReady, PostReady
    <3> QED
      BY <1>3, <3>1 DEF AgregarPrograma, PostNuevoPrograma, TomarDeReady,
         VolverAReady, vars
  <2> QED
    BY <2>1, <1>2 DEF ExitContado
<1>4. CASE EsperarSalida
  <2>1. /\ UNCHANGED <<exitProcesos, salida>>
        /\ semaforoExit' = semaforoExit - 1
        /\ hiloExit.paso # "sacar" /\ hiloExit'.paso = "sacar"
    BY <1>4 DEF EsperarSalida, TypeOK, TiposSalida
  <2> QED
    BY <2>1, <1>1, <1>2 DEF ExitContado, Uno
<1>5. CASE SacarDeExit
  <2>1. /\ UNCHANGED <<semaforoExit, salida>>
        /\ hiloExit.paso = "sacar" /\ hiloExit'.paso # "sacar"
        /\ Len(exitProcesos') = Len(exitProcesos) - 1
    BY <1>5, ColaSinCabeza DEF SacarDeExit, TypeOK, TiposColas
  <2> QED
    BY <2>1, <1>1, <1>2 DEF ExitContado, Uno
<1>6. CASE DestruirSegmentos \/ AvisarFin
  <2>1. /\ UNCHANGED <<semaforoExit, exitProcesos, salida>>
        /\ hiloExit.paso # "sacar"
    BY <1>6 DEF DestruirSegmentos, AvisarFin
  <2>2. CASE DestruirSegmentos
    BY <2>1, <2>2, <1>2 DEF DestruirSegmentos, TypeOK, TiposSalida, ExitContado, Uno
  <2>3. CASE AvisarFin
    BY <2>1, <2>3, <1>2 DEF AvisarFin, ExitContado, Uno
  <2> QED
    BY <1>6, <2>2, <2>3
<1>7. ASSUME NEW h \in Hilos, AgregarAExit(h) PROVE ExitContado'
  <2>1. /\ UNCHANGED <<semaforoExit, hiloExit>>
        /\ salida[h] = "agregar" /\ salida' = [salida EXCEPT ![h] = "sumar"]
        /\ saliente[h] \in 1..pidGeneral
    BY <1>7, LenProperties
    DEF AgregarAExit, TypeOK, TiposSalida, TiposColas, pidGeneral, Nadie
  <2>2. Len(exitProcesos') = Len(exitProcesos) + 1
    BY <1>7, <2>1, ColaConUltimo DEF AgregarAExit, TypeOK, TiposColas
  <2>3. Debidos' = Debidos + 1
    BY <2>1, CuentaCambia DEF TypeOK, TiposSalida
  <2> QED
    BY <2>1, <2>2, <2>3, <1>1 DEF ExitContado, Uno
<1>8. ASSUME NEW h \in Hilos, PostExit(h) PROVE ExitContado'
  <2>1. /\ UNCHANGED <<exitProcesos, hiloExit>>
        /\ semaforoExit' = semaforoExit + 1
        /\ salida[h] = "postExit" /\ salida' = [salida EXCEPT ![h] = "postNuevo"]
    BY <1>8 DEF PostExit
  <2>2. "postNuevo" \notin {"sumar", "postExit"} /\ salida[h] \in {"sumar", "postExit"}
    BY <2>1
  <2>3. Debidos' = Debidos - 1
    BY <2>1, <2>2, CuentaCambia DEF TypeOK, TiposSalida
  <2> QED
    BY <2>1, <2>3, <1>1 DEF ExitContado, Uno
<1>9. ASSUME NEW h \in Hilos,
             \/ \E p \in Programas : SacarDeExec(h, p)
             \/ LiberarLugar(h) \/ PostLugar(h)
      PROVE  ExitContado'
  <2>1. /\ UNCHANGED <<semaforoExit, exitProcesos, hiloExit>>
        /\ \/ salida[h] = "libre" /\ salida' = [salida EXCEPT ![h] = "agregar"]
           \/ salida[h] = "sumar" /\ salida' = [salida EXCEPT ![h] = "postExit"]
           \/ salida[h] = "postNuevo" /\ salida' = [salida EXCEPT ![h] = "libre"]
    BY <1>9 DEF SacarDeExec, LiberarLugar, PostLugar
  <2>2. Debidos' = Debidos
    BY <2>1, CuentaCambia DEF TypeOK, TiposSalida
  <2> QED
    BY <2>1, <2>2 DEF ExitContado
<1> QED
  BY <1>3, <1>4, <1>5, <1>6, <1>7, <1>8, <1>9
  DEF Next, terminarPrograma, moverAExit

-----------------------------------------------------------------------------
(* The posts of nuevoProgramaSem. *)

\* Whoever adds work for the PLP owes it a post, and the PLP consumes one only
\* to look for work.
LEMMA PostsSiguenAlcanzando ==
  ASSUME TypeOK, PromocionPosible, PostsAlcanzan, [Next]_vars
  PROVE  PostsAlcanzan'
<1> DEFINE posts == nuevoProgramaSem + PostsEnCamino
           recibidos == Len(lista_de_programas)
           nuevos == Len(newProcesos)
           libres == estado_multiprogramacion
           EnSalida == Cuenta({"postExit", "postNuevo"})
<1> USE DEF ventanilla, mundoPCP, colaExit, moviendo
<1>1. /\ nuevoProgramaSem \in Nat /\ PostsEnCamino \in Nat /\ EnSalida \in Nat
      /\ recibidos \in Nat /\ nuevos \in Nat /\ libres \in Nat
  BY CuentaTipo, LenProperties
  DEF TypeOK, TiposColas, TiposContadores, PostsEnCamino, Uno
<1>2. salida' = salida => EnSalida' = EnSalida
  BY CuentaIgual
<1>3. UNCHANGED <<salida, principal>> => PostsEnCamino' = PostsEnCamino
  BY <1>2 DEF PostsEnCamino
<1>4. CASE AgregarPrograma
  <2>1. /\ UNCHANGED <<nuevoProgramaSem, newProcesos, estado_multiprogramacion, plp>>
        /\ UNCHANGED salida
        /\ principal = "poll" /\ principal' = "postear"
    BY <1>4 DEF AgregarPrograma
  <2>2. PostsEnCamino' = PostsEnCamino + 1
    BY <2>1, <1>1, <1>2 DEF PostsEnCamino, Uno
  <2>3. recibidos' = recibidos + 1
    <3>1. Len(metadata) \in Nat
      BY LenProperties DEF TypeOK, TiposColas
    <3>2. /\ lista_de_programas \in Seq(1..(Len(metadata) + 1))
          /\ Len(metadata) + 1 \in 1..(Len(metadata) + 1)
      BY <3>1, ColaCrece DEF TypeOK, TiposColas, pidGeneral
    <3> QED
      BY <1>4, <3>2, ColaConUltimo DEF AgregarPrograma, pidGeneral
  <2>4. /\ Uno(plp.paso = "sacar") \in Nat
        /\ Uno(plp.paso \in {"sacar", "promover", "ocupar"}) \in Nat
        /\ Menor(nuevos - Uno(plp.paso = "mover"), libres) \in Int
    BY <1>1 DEF Uno, Menor
  <2> QED
    BY <2>1, <2>2, <2>3, <2>4, <1>1 DEF PostsAlcanzan
<1>5. CASE PostNuevoPrograma
  <2>1. /\ UNCHANGED <<lista_de_programas, newProcesos, plp, salida>>
        /\ UNCHANGED estado_multiprogramacion
        /\ nuevoProgramaSem' = nuevoProgramaSem + 1
        /\ principal = "postear" /\ principal' = "poll"
    BY <1>5 DEF PostNuevoPrograma
  <2>2. posts' = posts
    BY <2>1, <1>1, <1>2 DEF PostsEnCamino, Uno
  <2> QED
    BY <2>1, <2>2 DEF PostsAlcanzan
<1>6. CASE EsperarPrograma
  <2>1. /\ UNCHANGED <<lista_de_programas, newProcesos, salida, principal>>
        /\ UNCHANGED estado_multiprogramacion
        /\ nuevoProgramaSem' = nuevoProgramaSem - 1
        /\ plp.paso = "esperar" /\ plp'.paso = "sacar"
    BY <1>6 DEF EsperarPrograma
  <2> QED
    BY <2>1, <1>1, <1>3 DEF PostsAlcanzan, Uno, Menor
<1>7. CASE SacarPrograma
  <2>1. /\ UNCHANGED <<nuevoProgramaSem, newProcesos, salida, principal>>
        /\ UNCHANGED estado_multiprogramacion
        /\ plp.paso = "sacar"
    BY <1>7 DEF SacarPrograma
  <2>2. CASE lista_de_programas = <<>>
    <3>1. recibidos = 0 /\ recibidos' = 0 /\ plp'.paso = "promover"
      BY <2>2, <1>7 DEF SacarPrograma
    <3> QED
      BY <2>1, <3>1, <1>1, <1>3 DEF PostsAlcanzan, Uno, Menor
  <2>3. CASE lista_de_programas # <<>>
    <3>1. recibidos' = recibidos - 1 /\ plp'.paso = "crear"
      BY <2>3, <1>7, ColaSinCabeza DEF SacarPrograma, TypeOK, TiposColas
    <3> QED
      BY <2>1, <3>1, <1>1, <1>3 DEF PostsAlcanzan, Uno, Menor
  <2> QED
    BY <2>2, <2>3
<1>8. CASE CrearSegmento \/ DestruirRechazado \/ AvisarRechazo
  <2>1. /\ UNCHANGED <<nuevoProgramaSem, lista_de_programas, newProcesos>>
        /\ UNCHANGED <<salida, principal, estado_multiprogramacion>>
        /\ plp.paso \in {"crear", "destruir", "avisar"}
    BY <1>8 DEF CrearSegmento, DestruirRechazado, AvisarRechazo
  <2>2. plp.paso \notin {"sacar", "promover", "ocupar", "mover"}
    BY <2>1
  <2>3. plp'.paso \notin {"sacar", "ocupar", "mover"}
    <3>1. CASE CrearSegmento
      BY <3>1 DEF CrearSegmento, TypeOK, TiposPLP
    <3>2. CASE DestruirRechazado
      BY <3>2 DEF DestruirRechazado, TypeOK, TiposPLP
    <3>3. CASE AvisarRechazo
      BY <3>3 DEF AvisarRechazo
    <3> QED
      BY <1>8, <3>1, <3>2, <3>3
  <2> QED
    BY <2>1, <2>2, <2>3, <1>1, <1>3 DEF PostsAlcanzan, Uno, Menor
<1>9. CASE AceptarPrograma
  <2>1. /\ UNCHANGED <<nuevoProgramaSem, lista_de_programas, salida, principal>>
        /\ UNCHANGED estado_multiprogramacion
        /\ plp.paso = "crear" /\ plp'.paso = "promover"
    BY <1>9 DEF AceptarPrograma
  <2>2. plp.prog \in 1..pidGeneral
    BY <1>9, LenProperties DEF AceptarPrograma, TypeOK, TiposColas, TiposPLP, PasosConPrograma, Nadie, pidGeneral
  <2>3. PICK k \in 0..Len(newProcesos) :
          newProcesos' = Insertar(newProcesos, k, plp.prog)
    BY <1>9 DEF AceptarPrograma
  <2>4. nuevos' = nuevos + 1
    <3>1. newProcesos \in Seq(1..pidGeneral)
      BY DEF TypeOK, TiposColas
    <3> DEFINE T == 1..pidGeneral
    <3>2. newProcesos \in Seq(T) /\ plp.prog \in T /\ k \in 0..Len(newProcesos)
      BY <3>1, <2>2, <2>3
    <3> HIDE DEF T
    <3>3. Len(Insertar(newProcesos, k, plp.prog)) = Len(newProcesos) + 1
      BY <3>2, ColaConInsertado
    <3> QED
      BY <2>3, <3>3
  <2> QED
    BY <2>1, <2>4, <1>1, <1>3 DEF PostsAlcanzan, Uno, Menor
<1>10. CASE DecidirPromocion
  <2>1. /\ UNCHANGED <<nuevoProgramaSem, lista_de_programas, newProcesos>>
        /\ UNCHANGED <<salida, principal, estado_multiprogramacion>>
        /\ plp.paso = "promover"
        /\ \/ plp'.paso = "ocupar"
           \/ plp'.paso = "esperar" /\ (newProcesos = <<>> \/ ~(libres > 0))
    BY <1>10 DEF DecidirPromocion, TypeOK, TiposPLP
  <2>2. newProcesos = <<>> => nuevos = 0
    OBVIOUS
  <2> QED
    BY <2>1, <2>2, <1>1, <1>3 DEF PostsAlcanzan, Uno, Menor
<1>11. CASE OcuparLugar
  <2>1. /\ UNCHANGED <<nuevoProgramaSem, lista_de_programas, newProcesos>>
        /\ UNCHANGED <<salida, principal>>
        /\ libres' = libres - 1
        /\ plp.paso = "ocupar" /\ plp'.paso = "mover"
    BY <1>11 DEF OcuparLugar, TypeOK, TiposPLP
  <2> QED
    BY <2>1, <1>1, <1>3 DEF PostsAlcanzan, Uno, Menor
<1>12. CASE MoverAReady
  <2>1. /\ UNCHANGED <<nuevoProgramaSem, lista_de_programas, salida, principal>>
        /\ UNCHANGED estado_multiprogramacion
        /\ plp.paso = "mover" /\ plp'.paso = "postear"
    BY <1>12 DEF MoverAReady, TypeOK, TiposPLP
  <2>2. nuevos' = nuevos - 1
    BY <1>12, <2>1, ColaSinCabeza
    DEF MoverAReady, PromocionPosible, TypeOK, TiposColas
  <2> QED
    BY <2>1, <2>2, <1>1, <1>3 DEF PostsAlcanzan, Uno, Menor
<1>13. CASE PostReady
  <2>1. /\ UNCHANGED <<nuevoProgramaSem, lista_de_programas, newProcesos>>
        /\ UNCHANGED <<salida, principal, estado_multiprogramacion>>
        /\ plp.paso = "postear" /\ plp'.paso = "esperar"
    BY <1>13 DEF PostReady, TypeOK, TiposPLP
  <2> QED
    BY <2>1, <1>1, <1>3 DEF PostsAlcanzan, Uno
<1>14. CASE \/ terminarPrograma \/ TomarDeReady
            \/ (\E p \in Programas : VolverAReady(p)) \/ UNCHANGED vars
  <2>1. /\ UNCHANGED <<nuevoProgramaSem, lista_de_programas, newProcesos, plp>>
        /\ UNCHANGED <<salida, principal, estado_multiprogramacion>>
    BY <1>14 DEF terminarPrograma, EsperarSalida, SacarDeExit,
       DestruirSegmentos, AvisarFin, TomarDeReady, VolverAReady, vars
  <2> QED
    BY <2>1, <1>3 DEF PostsAlcanzan
<1>15. ASSUME NEW h \in Hilos, LiberarLugar(h) PROVE PostsAlcanzan'
  <2>1. /\ UNCHANGED <<nuevoProgramaSem, lista_de_programas, newProcesos, plp>>
        /\ UNCHANGED principal
        /\ libres' = libres + 1
        /\ salida[h] = "sumar" /\ salida' = [salida EXCEPT ![h] = "postExit"]
    BY <1>15 DEF LiberarLugar
  <2>2. EnSalida' = EnSalida + 1
    BY <2>1, CuentaCambia DEF TypeOK, TiposSalida
  <2>3. PostsEnCamino' = PostsEnCamino + 1
    BY <2>1, <2>2, <1>1 DEF PostsEnCamino, Uno
  <2> QED
    BY <2>1, <2>3, <1>1 DEF PostsAlcanzan, Uno, Menor
<1>16. ASSUME NEW h \in Hilos, PostLugar(h) PROVE PostsAlcanzan'
  <2>1. /\ UNCHANGED <<lista_de_programas, newProcesos, plp, principal>>
        /\ UNCHANGED estado_multiprogramacion
        /\ nuevoProgramaSem' = nuevoProgramaSem + 1
        /\ salida[h] = "postNuevo" /\ salida' = [salida EXCEPT ![h] = "libre"]
    BY <1>16 DEF PostLugar
  <2>2. "libre" \notin {"postExit", "postNuevo"} /\ salida[h] \in {"postExit", "postNuevo"}
    BY <2>1
  <2>3. EnSalida' = EnSalida - 1
    BY <2>1, <2>2, CuentaCambia DEF TypeOK, TiposSalida
  <2>4. posts' = posts
    BY <2>1, <2>3, <1>1 DEF PostsEnCamino, Uno
  <2> QED
    BY <2>1, <2>4 DEF PostsAlcanzan
<1>17. ASSUME NEW h \in Hilos,
              \/ \E p \in Programas : SacarDeExec(h, p)
              \/ AgregarAExit(h) \/ PostExit(h)
       PROVE  PostsAlcanzan'
  <2>1. /\ UNCHANGED <<nuevoProgramaSem, lista_de_programas, newProcesos, plp>>
        /\ UNCHANGED <<principal, estado_multiprogramacion>>
        /\ \/ salida[h] = "libre" /\ salida' = [salida EXCEPT ![h] = "agregar"]
           \/ salida[h] = "agregar" /\ salida' = [salida EXCEPT ![h] = "sumar"]
           \/ salida[h] = "postExit" /\ salida' = [salida EXCEPT ![h] = "postNuevo"]
    BY <1>17 DEF SacarDeExec, AgregarAExit, PostExit
  <2>2. EnSalida' = EnSalida
    BY <2>1, CuentaCambia DEF TypeOK, TiposSalida
  <2> QED
    BY <2>1, <2>2 DEF PostsAlcanzan, PostsEnCamino
<1> QED
  BY <1>4, <1>5, <1>6, <1>7, <1>8, <1>9, <1>10, <1>11, <1>12, <1>13, <1>14,
     <1>15, <1>16, <1>17
  DEF Next, planificar_programas, moverAExit

-----------------------------------------------------------------------------
(* The order of arrival. *)

\* The PLP takes from the head of lista_de_programas and the main thread adds
\* the next pid at its end, so what the PLP has taken is a prefix of the pids.
LEMMA OrdenConservado ==
  ASSUME TypeOK, PromocionPosible, EnOrdenDeLlegada, [Next]_vars
  PROVE  EnOrdenDeLlegada'
<1> USE DEF ventanilla, mundoPCP, colaExit, moviendo
<1>1. /\ Len(metadata) \in Nat /\ Len(lista_de_programas) \in Nat
      /\ Len(newProcesos) \in Nat /\ Len(listaReady) \in Nat
      /\ Tomados \in Int
  BY LenProperties DEF TypeOK, TiposColas, Tomados, pidGeneral
<1>2. /\ \A i \in 1..Len(newProcesos) : newProcesos[i] \in Int
      /\ \A i \in 1..Len(listaReady) : listaReady[i] \in Int
      /\ \A p \in enPCP : p \in Int
  <2>1. \A i \in 1..Len(newProcesos) : newProcesos[i] \in 1..pidGeneral
    BY ElementOfSeq DEF TypeOK, TiposColas
  <2>2. \A i \in 1..Len(listaReady) : listaReady[i] \in 1..pidGeneral
    BY ElementOfSeq DEF TypeOK, TiposColas
  <2> QED
    BY <2>1, <2>2 DEF TypeOK, TiposColas
<1>3. CASE AgregarPrograma
  <2>1. UNCHANGED <<newProcesos, listaReady, enPCP, plp>>
    BY <1>3 DEF AgregarPrograma
  <2>2. Len(metadata') = Len(metadata) + 1
    BY <1>3, ColaConUltimo DEF AgregarPrograma, TypeOK, TiposColas
  <2>3. lista_de_programas' = Append(lista_de_programas, Len(metadata) + 1)
    BY <1>3 DEF AgregarPrograma, pidGeneral
  <2>4. lista_de_programas \in Seq(Nat)
    BY SeqMonotonic, 1..pidGeneral \subseteq Nat DEF TypeOK, TiposColas
  <2>5. /\ Len(lista_de_programas') = Len(lista_de_programas) + 1
        /\ \A i \in 1..Len(lista_de_programas) :
              lista_de_programas'[i] = lista_de_programas[i]
        /\ lista_de_programas'[Len(lista_de_programas) + 1] = Len(metadata) + 1
    BY <2>3, <2>4, <1>1, ColaConUltimo
  <2>6. Tomados' = Tomados
    BY <2>2, <2>5, <1>1 DEF Tomados, pidGeneral
  <2>7. \A i \in 1..Len(lista_de_programas') : lista_de_programas'[i] = Tomados' + i
    BY <2>5, <2>6, <1>1 DEF EnOrdenDeLlegada, Tomados, pidGeneral
  <2> QED
    BY <2>1, <2>6, <2>7 DEF EnOrdenDeLlegada, Pasado
<1>4. CASE SacarPrograma /\ lista_de_programas = <<>>
  <2>1. /\ UNCHANGED <<newProcesos, listaReady, enPCP, lista_de_programas, metadata>>
        /\ plp'.paso = "promover"
    BY <1>4 DEF SacarPrograma
  <2>2. Tomados' = Tomados
    BY <2>1 DEF Tomados, pidGeneral
  <2> QED
    BY <2>1, <2>2 DEF EnOrdenDeLlegada, Pasado, PasosConPrograma
<1>5. CASE SacarPrograma /\ lista_de_programas # <<>>
  <2>1. /\ UNCHANGED <<newProcesos, listaReady, enPCP, metadata>>
        /\ plp' = [paso |-> "crear", prog |-> Head(lista_de_programas)]
        /\ lista_de_programas' = Tail(lista_de_programas)
    BY <1>5 DEF SacarPrograma
  <2>2. /\ Len(lista_de_programas) \in Nat \ {0}
        /\ Head(lista_de_programas) = lista_de_programas[1]
        /\ Len(lista_de_programas') = Len(lista_de_programas) - 1
        /\ \A i \in 1..Len(lista_de_programas') :
              lista_de_programas'[i] = lista_de_programas[i + 1]
    BY <1>5, <2>1, ColaSinCabeza DEF TypeOK, TiposColas
  <2>3. Tomados' = Tomados + 1
    BY <2>1, <2>2, <1>1 DEF Tomados, pidGeneral
  <2>4. plp'.prog = Tomados'
    BY <2>1, <2>2, <2>3, <1>1 DEF EnOrdenDeLlegada
  <2>5. \A i \in 1..Len(lista_de_programas') : lista_de_programas'[i] = Tomados' + i
    BY <2>2, <2>3, <1>1 DEF EnOrdenDeLlegada
  <2>6. \A p \in Int : Pasado(p) => Pasado(p)'
    BY <2>3, <1>1 DEF Pasado
  <2>7. /\ \A i \in 1..Len(newProcesos) : Pasado(newProcesos[i])'
        /\ \A i \in 1..Len(listaReady) : Pasado(listaReady[i])'
        /\ \A p \in enPCP : Pasado(p)'
    BY <2>1, <2>6, <1>2 DEF EnOrdenDeLlegada, Pasado
  <2> QED
    BY <2>1, <2>4, <2>5, <2>7 DEF EnOrdenDeLlegada
<1>6. CASE CrearSegmento \/ DestruirRechazado
  <2>1. /\ UNCHANGED <<newProcesos, listaReady, enPCP, lista_de_programas, metadata>>
        /\ plp.paso \in PasosConPrograma /\ plp'.prog = plp.prog
    BY <1>6 DEF CrearSegmento, DestruirRechazado, PasosConPrograma, TypeOK, TiposPLP
  <2>2. Tomados' = Tomados
    BY <2>1 DEF Tomados, pidGeneral
  <2> QED
    BY <2>1, <2>2 DEF EnOrdenDeLlegada, Pasado
<1>7. CASE AceptarPrograma
  <2>1. /\ UNCHANGED <<listaReady, enPCP, lista_de_programas, metadata>>
        /\ plp.paso = "crear" /\ plp'.paso = "promover"
    BY <1>7 DEF AceptarPrograma
  <2>2. PICK k \in 0..Len(newProcesos) :
          newProcesos' = Insertar(newProcesos, k, plp.prog)
    BY <1>7 DEF AceptarPrograma
  <2>3. Tomados' = Tomados /\ plp.prog = Tomados
    BY <2>1 DEF Tomados, pidGeneral, EnOrdenDeLlegada, PasosConPrograma
  <2>4. newProcesos \in Seq(Int) /\ plp.prog \in Int
    BY <2>3, <1>1, SeqMonotonic, 1..pidGeneral \subseteq Int DEF TypeOK, TiposColas
  <2>5. /\ Len(newProcesos') = Len(newProcesos) + 1
        /\ \A i \in 1..k : newProcesos'[i] = newProcesos[i]
        /\ newProcesos'[k + 1] = Tomados
        /\ \A i \in (k + 2)..(Len(newProcesos) + 1) : newProcesos'[i] = newProcesos[i - 1]
    <3> DEFINE T == Int
    <3>1. newProcesos \in Seq(T) /\ plp.prog \in T /\ k \in 0..Len(newProcesos)
      BY <2>2, <2>4
    <3> HIDE DEF T
    <3>2. Len(Insertar(newProcesos, k, plp.prog)) = Len(newProcesos) + 1
      BY <3>1, ColaConInsertado
    <3>3. \A i \in 1..(Len(newProcesos) + 1) :
            newProcesos'[i] = IF i <= k THEN newProcesos[i]
                              ELSE IF i = k + 1 THEN plp.prog
                              ELSE newProcesos[i - 1]
      BY <2>2 DEF Insertar
    <3> QED
      BY <2>2, <2>3, <3>2, <3>3, <1>1
  <2>6. \A i \in 1..Len(newProcesos) : newProcesos[i] <= Tomados
    BY DEF EnOrdenDeLlegada, Pasado
  <2>7. \A i \in 1..Len(newProcesos') : newProcesos'[i] <= Tomados
    <3> SUFFICES ASSUME NEW i \in 1..Len(newProcesos')
                 PROVE  newProcesos'[i] <= Tomados
      OBVIOUS
    <3>1. CASE i \in 1..k
      BY <3>1, <2>2, <2>5, <2>6, <1>1
    <3>2. CASE i = k + 1
      BY <3>2, <2>5, <1>1
    <3>3. CASE i \in (k + 2)..(Len(newProcesos) + 1)
      <4>1. i - 1 \in 1..Len(newProcesos)
        BY <3>3, <2>2, <1>1
      <4> QED
        BY <3>3, <4>1, <2>5, <2>6
    <3> QED
      BY <3>1, <3>2, <3>3, <2>2, <2>5, <1>1
  <2> QED
    BY <2>1, <2>3, <2>7 DEF EnOrdenDeLlegada, Pasado, PasosConPrograma
<1>8. CASE \/ EsperarPrograma \/ AvisarRechazo \/ DecidirPromocion
           \/ OcuparLugar \/ PostReady
  <2>1. UNCHANGED <<newProcesos, listaReady, enPCP, lista_de_programas, metadata>>
    BY <1>8 DEF EsperarPrograma, AvisarRechazo, DecidirPromocion, OcuparLugar,
       PostReady
  <2>2. plp'.paso \notin PasosConPrograma
    <3>1. CASE EsperarPrograma
      BY <3>1 DEF EsperarPrograma, PasosConPrograma
    <3>2. CASE AvisarRechazo
      BY <3>2 DEF AvisarRechazo, PasosConPrograma
    <3>3. CASE DecidirPromocion \/ OcuparLugar \/ PostReady
      BY <3>3 DEF DecidirPromocion, OcuparLugar, PostReady, PasosConPrograma,
         TypeOK, TiposPLP
    <3> QED
      BY <1>8, <3>1, <3>2, <3>3
  <2>3. Tomados' = Tomados
    BY <2>1 DEF Tomados, pidGeneral
  <2> QED
    BY <2>1, <2>2, <2>3 DEF EnOrdenDeLlegada, Pasado
<1>9. CASE MoverAReady
  <2>1. /\ UNCHANGED <<enPCP, lista_de_programas, metadata>>
        /\ plp.paso = "mover" /\ plp'.paso = "postear"
        /\ newProcesos' = Tail(newProcesos)
        /\ listaReady' = Append(listaReady, Head(newProcesos))
    BY <1>9 DEF MoverAReady, TypeOK, TiposPLP
  <2>2. Tomados' = Tomados
    BY <2>1 DEF Tomados, pidGeneral
  <2>3. newProcesos # <<>>
    BY <2>1 DEF PromocionPosible
  <2>4. /\ Len(newProcesos) \in Nat \ {0}
        /\ Head(newProcesos) = newProcesos[1]
        /\ Head(newProcesos) \in 1..pidGeneral
        /\ Len(newProcesos') = Len(newProcesos) - 1
        /\ \A i \in 1..Len(newProcesos') : newProcesos'[i] = newProcesos[i + 1]
    BY <2>1, <2>3, ColaSinCabeza DEF TypeOK, TiposColas
  <2>5. /\ Len(listaReady') = Len(listaReady) + 1
        /\ \A i \in 1..Len(listaReady) : listaReady'[i] = listaReady[i]
        /\ listaReady'[Len(listaReady) + 1] = newProcesos[1]
    BY <2>1, <2>4, ColaConUltimo DEF TypeOK, TiposColas
  <2>6. \A p : Pasado(p) => Pasado(p)'
    BY <2>1, <2>2 DEF Pasado, PasosConPrograma
  <2>7. \A i \in 1..Len(newProcesos') : Pasado(newProcesos[i])'
    <3> SUFFICES ASSUME NEW i \in 1..Len(newProcesos')
                 PROVE  Pasado(newProcesos[i])'
      OBVIOUS
    <3>1. /\ i + 1 \in 1..Len(newProcesos)
          /\ newProcesos'[i] = newProcesos[i + 1]
      BY <2>4
    <3>2. Pasado(newProcesos[i + 1])
      BY <3>1 DEF EnOrdenDeLlegada
    <3>3. \A p : p = newProcesos[i + 1] => Pasado(p)'
      BY <3>2, <2>6
    <3>4. \A p : p = newProcesos'[i] => Pasado(p)'
      BY <3>1, <3>3
    <3> QED
      BY <3>4 DEF Pasado
  <2>8. \A i \in 1..Len(listaReady') : Pasado(listaReady[i])'
    <3> SUFFICES ASSUME NEW i \in 1..Len(listaReady')
                 PROVE  Pasado(listaReady[i])'
      OBVIOUS
    <3>1. CASE i \in 1..Len(listaReady)
      BY <3>1, <2>5, <2>6 DEF EnOrdenDeLlegada, Pasado
    <3>2. CASE i = Len(listaReady) + 1
      BY <3>2, <2>4, <2>5, <2>6 DEF EnOrdenDeLlegada, Pasado
    <3> QED
      BY <3>1, <3>2, <2>5, <1>1
  <2> QED
    BY <2>1, <2>2, <2>6, <2>7, <2>8 DEF EnOrdenDeLlegada, Pasado, PasosConPrograma
<1>10. CASE TomarDeReady
  <2>1. /\ UNCHANGED <<newProcesos, lista_de_programas, metadata, plp>>
        /\ enPCP' = enPCP \cup {Head(listaReady)}
        /\ listaReady # <<>>
        /\ listaReady' = Tail(listaReady)
    BY <1>10 DEF TomarDeReady
  <2>2. Tomados' = Tomados
    BY <2>1 DEF Tomados, pidGeneral
  <2>3. /\ Len(listaReady) \in Nat \ {0}
        /\ Head(listaReady) = listaReady[1]
        /\ Len(listaReady') = Len(listaReady) - 1
        /\ \A i \in 1..Len(listaReady') : listaReady'[i] = listaReady[i + 1]
    BY <2>1, ColaSinCabeza DEF TypeOK, TiposColas
  <2>4. \A p : Pasado(p)' <=> Pasado(p)
    BY <2>1, <2>2 DEF Pasado
  <2>5. /\ \A i \in 1..Len(listaReady') : Pasado(listaReady[i])'
        /\ \A p \in enPCP' : Pasado(p)'
    BY <2>1, <2>3, <2>4, <1>1 DEF EnOrdenDeLlegada, Pasado
  <2> QED
    BY <2>1, <2>2, <2>4, <2>5 DEF EnOrdenDeLlegada, Pasado
<1>11. ASSUME NEW p \in Programas, VolverAReady(p) PROVE EnOrdenDeLlegada'
  <2>1. /\ UNCHANGED <<newProcesos, lista_de_programas, metadata, plp>>
        /\ p \in enPCP /\ enPCP' \subseteq enPCP
        /\ listaReady' = Append(listaReady, p)
    BY <1>11 DEF VolverAReady
  <2>2. Tomados' = Tomados
    BY <2>1 DEF Tomados, pidGeneral
  <2>3. /\ Len(listaReady') = Len(listaReady) + 1
        /\ \A i \in 1..Len(listaReady) : listaReady'[i] = listaReady[i]
        /\ listaReady'[Len(listaReady) + 1] = p
    BY <2>1, ColaConUltimo DEF TypeOK, TiposColas
  <2>4. \A q : Pasado(q)' <=> Pasado(q)
    BY <2>1, <2>2 DEF Pasado
  <2>5. \A i \in 1..Len(listaReady') : Pasado(listaReady[i])'
    BY <2>1, <2>3, <2>4, <1>1 DEF EnOrdenDeLlegada, Pasado
  <2> QED
    BY <2>1, <2>2, <2>4, <2>5 DEF EnOrdenDeLlegada, Pasado
<1>12. CASE \/ PostNuevoPrograma \/ terminarPrograma
            \/ (\E h \in Hilos : moverAExit(h)) \/ UNCHANGED vars
  <2>1. /\ UNCHANGED <<newProcesos, listaReady, lista_de_programas, metadata, plp>>
        /\ enPCP' \subseteq enPCP
    BY <1>12 DEF PostNuevoPrograma, terminarPrograma, EsperarSalida, SacarDeExit,
       DestruirSegmentos, AvisarFin, moverAExit, SacarDeExec, AgregarAExit,
       LiberarLugar, PostExit, PostLugar, vars
  <2>2. Tomados' = Tomados
    BY <2>1 DEF Tomados, pidGeneral
  <2> QED
    BY <2>1, <2>2 DEF EnOrdenDeLlegada, Pasado
<1> QED
  BY <1>3, <1>4, <1>5, <1>6, <1>7, <1>8, <1>9, <1>10, <1>11, <1>12
  DEF Next, planificar_programas

-----------------------------------------------------------------------------
(* Every program is in one place. *)

\* A program accepted is newer than all those in NEW, READY and the PCP, and
\* from then on it only moves.
LEMMA LugarConservado ==
  ASSUME TypeOK, PromocionPosible, EnOrdenDeLlegada, UnSoloLugar, [Next]_vars
  PROVE  UnSoloLugar'
<1> USE DEF ventanilla, mundoPCP, colaExit, moviendo
<1>1. Len(newProcesos) \in Nat /\ Len(listaReady) \in Nat
  BY LenProperties DEF TypeOK, TiposColas
<1>2. CASE AceptarPrograma
  <2>1. UNCHANGED <<listaReady, enPCP>> /\ plp.paso = "crear"
    BY <1>2 DEF AceptarPrograma
  <2>2. PICK k \in 0..Len(newProcesos) :
          newProcesos' = Insertar(newProcesos, k, plp.prog)
    BY <1>2 DEF AceptarPrograma
  <2>3. /\ \A i \in 1..Len(newProcesos) : newProcesos[i] # plp.prog
        /\ \A i \in 1..Len(listaReady) : listaReady[i] # plp.prog
        /\ plp.prog \notin enPCP
    <3>1. plp.prog = Tomados /\ Tomados \in Int
      BY <2>1, LenProperties
      DEF EnOrdenDeLlegada, PasosConPrograma, Tomados, pidGeneral, TypeOK, TiposColas
    <3>2. \A p : Pasado(p) => p < Tomados
      BY <2>1 DEF Pasado, PasosConPrograma
    <3>3. ~(Tomados < Tomados)
      BY <3>1
    <3> QED
      BY <3>1, <3>2, <3>3 DEF EnOrdenDeLlegada
  <2>4. Len(newProcesos') = Len(newProcesos) + 1
    <3> DEFINE T == 1..pidGeneral
    <3>1. newProcesos \in Seq(T) /\ plp.prog \in T /\ k \in 0..Len(newProcesos)
      BY <2>1, <2>2, LenProperties
      DEF TypeOK, TiposColas, TiposPLP, PasosConPrograma, Nadie, pidGeneral
    <3> HIDE DEF T
    <3>2. Len(Insertar(newProcesos, k, plp.prog)) = Len(newProcesos) + 1
      BY <3>1, ColaConInsertado
    <3> QED
      BY <2>2, <3>2
  <2> DEFINE antes(i) == IF i <= k THEN i ELSE i - 1
  <2>5. \A i \in 1..Len(newProcesos') :
          \/ i = k + 1 /\ newProcesos'[i] = plp.prog
          \/ i # k + 1 /\ antes(i) \in 1..Len(newProcesos)
                       /\ newProcesos'[i] = newProcesos[antes(i)]
    <3>1. \A i \in 1..(Len(newProcesos) + 1) :
            newProcesos'[i] = IF i <= k THEN newProcesos[i]
                              ELSE IF i = k + 1 THEN plp.prog
                              ELSE newProcesos[i - 1]
      BY <2>2 DEF Insertar
    <3> QED
      BY <3>1, <2>2, <2>4, <1>1
  <2>6. \A i, j \in 1..Len(newProcesos') :
          i # k + 1 /\ j # k + 1 /\ antes(i) = antes(j) => i = j
    BY <2>2, <2>4, <1>1
  <2> HIDE DEF antes
  <2>7. \A i, j \in 1..Len(newProcesos') : newProcesos'[i] = newProcesos'[j] => i = j
    BY <2>3, <2>5, <2>6 DEF UnSoloLugar
  <2>8. \A i \in 1..Len(newProcesos') :
          /\ newProcesos'[i] \notin enPCP
          /\ \A j \in 1..Len(listaReady) : newProcesos'[i] # listaReady[j]
    BY <2>3, <2>5 DEF UnSoloLugar
  <2> QED
    BY <2>1, <2>7, <2>8 DEF UnSoloLugar
<1>3. CASE MoverAReady
  <2>1. newProcesos # <<>>
    BY <1>3 DEF MoverAReady, PromocionPosible
  <2>2. /\ Len(newProcesos) \in Nat \ {0}
        /\ Head(newProcesos) = newProcesos[1]
        /\ Head(newProcesos) \in 1..pidGeneral
        /\ Len(newProcesos') = Len(newProcesos) - 1
        /\ \A i \in 1..Len(newProcesos') : newProcesos'[i] = newProcesos[i + 1]
    BY <1>3, <2>1, ColaSinCabeza DEF MoverAReady, TypeOK, TiposColas
  <2>3. /\ Len(listaReady') = Len(listaReady) + 1
        /\ \A i \in 1..Len(listaReady) : listaReady'[i] = listaReady[i]
        /\ listaReady'[Len(listaReady) + 1] = newProcesos[1]
    BY <1>3, <2>2, ColaConUltimo DEF MoverAReady, TypeOK, TiposColas
  <2>4. enPCP' = enPCP
    BY <1>3 DEF MoverAReady
  <2>5. \A i \in 1..Len(newProcesos') :
          /\ i + 1 \in 1..Len(newProcesos) /\ i + 1 # 1
          /\ newProcesos'[i] = newProcesos[i + 1]
    BY <2>2
  <2>6. 1 \in 1..Len(newProcesos)
    BY <2>2
  <2>7. \A i \in 1..Len(listaReady') :
          \/ i \in 1..Len(listaReady) /\ listaReady'[i] = listaReady[i]
          \/ i = Len(listaReady) + 1 /\ listaReady'[i] = newProcesos[1]
    BY <2>3, <1>1
  <2>8. \A i, j \in 1..Len(newProcesos') : newProcesos'[i] = newProcesos'[j] => i = j
    <3> SUFFICES ASSUME NEW i \in 1..Len(newProcesos'), NEW j \in 1..Len(newProcesos'),
                        newProcesos'[i] = newProcesos'[j]
                 PROVE  i = j
      OBVIOUS
    <3>1. i + 1 = j + 1
      BY <2>5 DEF UnSoloLugar
    <3> QED
      BY <3>1
  <2>9. \A i, j \in 1..Len(listaReady') : listaReady'[i] = listaReady'[j] => i = j
    BY <2>6, <2>7 DEF UnSoloLugar
  <2>10. \A i \in 1..Len(newProcesos') :
          /\ newProcesos'[i] \notin enPCP
          /\ \A j \in 1..Len(listaReady') : newProcesos'[i] # listaReady'[j]
    BY <2>5, <2>6, <2>7 DEF UnSoloLugar
  <2>11. \A i \in 1..Len(listaReady') : listaReady'[i] \notin enPCP
    BY <2>6, <2>7 DEF UnSoloLugar
  <2> QED
    BY <2>4, <2>8, <2>9, <2>10, <2>11 DEF UnSoloLugar
<1>4. CASE TomarDeReady
  <2>1. /\ newProcesos' = newProcesos
        /\ enPCP' = enPCP \cup {Head(listaReady)}
    BY <1>4 DEF TomarDeReady
  <2>2. /\ Len(listaReady) \in Nat \ {0}
        /\ Head(listaReady) = listaReady[1]
        /\ Len(listaReady') = Len(listaReady) - 1
        /\ \A i \in 1..Len(listaReady') : listaReady'[i] = listaReady[i + 1]
    BY <1>4, ColaSinCabeza DEF TomarDeReady, TypeOK, TiposColas
  <2>3. \A i \in 1..Len(listaReady') :
          /\ i + 1 \in 1..Len(listaReady) /\ i + 1 # 1
          /\ listaReady'[i] = listaReady[i + 1]
    BY <2>2
  <2>4. 1 \in 1..Len(listaReady)
    BY <2>2
  <2>5. \A i, j \in 1..Len(listaReady') : listaReady'[i] = listaReady'[j] => i = j
    <3> SUFFICES ASSUME NEW i \in 1..Len(listaReady'), NEW j \in 1..Len(listaReady'),
                        listaReady'[i] = listaReady'[j]
                 PROVE  i = j
      OBVIOUS
    <3>1. i + 1 = j + 1
      BY <2>3 DEF UnSoloLugar
    <3> QED
      BY <3>1
  <2>6. \A i \in 1..Len(newProcesos) :
          /\ newProcesos[i] \notin enPCP'
          /\ \A j \in 1..Len(listaReady') : newProcesos[i] # listaReady'[j]
    BY <2>1, <2>2, <2>3, <2>4 DEF UnSoloLugar
  <2>7. \A i \in 1..Len(listaReady') : listaReady'[i] \notin enPCP'
    BY <2>1, <2>2, <2>3, <2>4 DEF UnSoloLugar
  <2> QED
    BY <2>1, <2>5, <2>6, <2>7 DEF UnSoloLugar
<1>5. ASSUME NEW p \in Programas, VolverAReady(p) PROVE UnSoloLugar'
  <2>1. /\ newProcesos' = newProcesos
        /\ enPCP' = enPCP \ {p} /\ p \in enPCP
    BY <1>5 DEF VolverAReady
  <2>2. /\ Len(listaReady') = Len(listaReady) + 1
        /\ \A i \in 1..Len(listaReady) : listaReady'[i] = listaReady[i]
        /\ listaReady'[Len(listaReady) + 1] = p
    BY <1>5, ColaConUltimo DEF VolverAReady, TypeOK, TiposColas
  <2>3. \A i \in 1..Len(listaReady') :
          \/ i \in 1..Len(listaReady) /\ listaReady'[i] = listaReady[i]
          \/ i = Len(listaReady) + 1 /\ listaReady'[i] = p
    BY <2>2, <1>1
  <2>4. \A i, j \in 1..Len(listaReady') : listaReady'[i] = listaReady'[j] => i = j
    BY <2>1, <2>3 DEF UnSoloLugar
  <2>5. \A i \in 1..Len(newProcesos) :
          /\ newProcesos[i] \notin enPCP'
          /\ \A j \in 1..Len(listaReady') : newProcesos[i] # listaReady'[j]
    BY <2>1, <2>3 DEF UnSoloLugar
  <2>6. \A i \in 1..Len(listaReady') : listaReady'[i] \notin enPCP'
    BY <2>1, <2>3 DEF UnSoloLugar
  <2> QED
    BY <2>1, <2>4, <2>5, <2>6 DEF UnSoloLugar
<1>6. ASSUME UNCHANGED <<newProcesos, listaReady>>, enPCP' \subseteq enPCP
      PROVE  UnSoloLugar'
  BY <1>6 DEF UnSoloLugar
<1>7. CASE \/ EsperarPrograma \/ SacarPrograma \/ CrearSegmento
           \/ DestruirRechazado \/ AvisarRechazo \/ DecidirPromocion
           \/ OcuparLugar \/ PostReady
  BY <1>6, <1>7 DEF EsperarPrograma, SacarPrograma, CrearSegmento,
     DestruirRechazado, AvisarRechazo, DecidirPromocion, OcuparLugar, PostReady
<1>8. CASE \/ AgregarPrograma \/ PostNuevoPrograma \/ terminarPrograma
           \/ (\E h \in Hilos : moverAExit(h)) \/ UNCHANGED vars
  BY <1>6, <1>8 DEF AgregarPrograma, PostNuevoPrograma, terminarPrograma,
     EsperarSalida, SacarDeExit, DestruirSegmentos, AvisarFin, moverAExit,
     SacarDeExec, AgregarAExit, LiberarLugar, PostExit, PostLugar, vars
<1> QED
  BY <1>2, <1>3, <1>4, <1>5, <1>7, <1>8 DEF Next, planificar_programas

-----------------------------------------------------------------------------
(* The theorems. *)

\* Nothing is received, in NEW or in EXIT when the kernel starts.
LEMMA InvInicial == Init => InvPLP
<1> SUFFICES ASSUME Init PROVE InvPLP
  OBVIOUS
<1>1. /\ metadata = <<>> /\ lista_de_programas = <<>> /\ newProcesos = <<>>
      /\ listaReady = <<>> /\ exitProcesos = <<>> /\ enPCP = {}
      /\ estado_multiprogramacion = MULTIPROGRAMACION
      /\ nuevoProgramaSem = 0 /\ semaforoExit = 0
      /\ principal = "poll" /\ plp.paso = "esperar" /\ hiloExit.paso = "esperar"
      /\ salida = [h \in Hilos |-> "libre"]
  BY DEF Init
<1>2. \A S : "libre" \notin S => Cuenta(S) = 0
  <2> SUFFICES ASSUME NEW S, "libre" \notin S PROVE Cuenta(S) = 0
    OBVIOUS
  <2>1. {h \in Hilos : salida[h] \in S} = {}
    BY <1>1
  <2> QED
    BY <2>1, FS_EmptySet DEF Cuenta
<1>3. TypeOK /\ PromocionPosible
  BY TipoInicial, <1>1 DEF PromocionPosible
<1>4. EnOrdenDeLlegada /\ UnSoloLugar
  BY <1>1 DEF EnOrdenDeLlegada, UnSoloLugar, PasosConPrograma
<1>5. GradoConservado
  <2>1. Cuenta({"agregar", "sumar"}) = 0 /\ Cardinality(enPCP) = 0
    BY <1>1, <1>2, FS_EmptySet
  <2> QED
    BY <1>1, <2>1, ParametrosPLP DEF GradoConservado, Uno
<1>6. PostsAlcanzan
  <2>1. PostsEnCamino = 0
    BY <1>1, <1>2 DEF PostsEnCamino, Uno
  <2> QED
    BY <1>1, <2>1, ParametrosPLP DEF PostsAlcanzan, Uno, Menor
<1>7. ExitContado
  <2>1. Cuenta({"sumar", "postExit"}) = 0
    BY <1>2
  <2> QED
    BY <1>1, <2>1 DEF ExitContado, Uno
<1> QED
  BY <1>3, <1>4, <1>5, <1>6, <1>7 DEF InvPLP

\* InvPLP is an invariant of the kernel's threads, for any number of programs,
\* CPU connection threads and places.
THEOREM InvariantePLP == Spec => []InvPLP
<1>1. InvPLP /\ [Next]_vars => InvPLP'
  BY TipoConservado, PromocionConservada, OrdenConservado, LugarConservado,
     LugaresConservados, PostsSiguenAlcanzando, ExitSigueContado
  DEF InvPLP
<1> QED
  BY InvInicial, <1>1, PTL DEF Spec

\* The counters never go below zero and the queues only hold received programs.
THEOREM TiposCorrectos == Spec => []TypeOK
<1>1. InvPLP => TypeOK
  BY DEF InvPLP
<1> QED
  BY <1>1, InvariantePLP, PTL

\* The places of the degree of multiprogramming are conserved at every instant.
THEOREM GradoSeConserva == Spec => []GradoConservado
<1>1. InvPLP => GradoConservado
  BY DEF InvPLP
<1> QED
  BY <1>1, InvariantePLP, PTL

\* The PLP never sleeps over a program it could admit or promote.
THEOREM NingunaPromocionSePierde == Spec => []SinPromocionPerdida
<1>1. InvPLP => SinPromocionPerdida
  <2> SUFFICES ASSUME InvPLP, plp.paso = "esperar", nuevoProgramaSem = 0,
                      PostsEnCamino = 0
               PROVE  /\ lista_de_programas = <<>>
                      /\ newProcesos = <<>> \/ estado_multiprogramacion = 0
    BY DEF SinPromocionPerdida
  <2>1. /\ Len(lista_de_programas) \in Nat /\ Len(newProcesos) \in Nat
        /\ estado_multiprogramacion \in Nat
    BY LenProperties DEF InvPLP, TypeOK, TiposColas, TiposContadores
  <2>2. Len(lista_de_programas) = 0
    BY <2>1 DEF InvPLP, PostsAlcanzan, Uno
  <2>3. Len(newProcesos) = 0 \/ estado_multiprogramacion = 0
    BY <2>1, <2>2 DEF InvPLP, PostsAlcanzan, Uno, Menor
  <2> QED
    BY <2>2, <2>3, EmptySeq DEF InvPLP, TypeOK, TiposColas
<1> QED
  BY <1>1, InvariantePLP, PTL

\* terminarPrograma always finds a program in EXIT.
THEOREM ExitNuncaVacia == Spec => []ExitConPrograma
<1>1. InvPLP => ExitConPrograma
  <2> SUFFICES ASSUME InvPLP, hiloExit.paso = "sacar" PROVE exitProcesos # <<>>
    BY DEF ExitConPrograma
  <2>1. semaforoExit \in Nat /\ Cuenta({"sumar", "postExit"}) \in Nat
    BY CuentaTipo DEF InvPLP, TypeOK, TiposContadores
  <2>2. Len(exitProcesos) > 0
    BY <2>1 DEF InvPLP, ExitContado, Uno
  <2> QED
    BY <2>2
<1> QED
  BY <1>1, InvariantePLP, PTL

-----------------------------------------------------------------------------
(* The places a program goes through. *)

Sitios == {"lista", "plp", "new", "ready", "pcp", "saliente", "exit", "hiloExit",
           "contestado"}

\* The programs at each of them.
Sitio(k) ==
  CASE k = "lista" -> EnCola(lista_de_programas)
    [] k = "plp" -> {p \in {plp.prog} : plp.paso \in PasosConPrograma}
    [] k = "new" -> EnCola(newProcesos)
    [] k = "ready" -> EnCola(listaReady)
    [] k = "pcp" -> enPCP
    [] k = "saliente" -> {saliente[h] : h \in {g \in Hilos : salida[g] = "agregar"}}
    [] k = "exit" -> EnCola(exitProcesos)
    [] k = "hiloExit" ->
         {p \in {hiloExit.prog} : hiloExit.paso \in {"destruir", "avisar"}}
    [] k = "contestado" -> {p \in Programas : respuesta[p] # "ninguna"}

\* Each program received is at one of them, and at no other.
UnSitio ==
  /\ \A k \in Sitios : Sitio(k) \subseteq 1..pidGeneral
  /\ \A p \in 1..pidGeneral : \E k \in Sitios : p \in Sitio(k)
  /\ \A k, l \in Sitios : \A p : p \in Sitio(k) /\ p \in Sitio(l) => k = l

\* No queue has a program twice, and no two threads move the same.
NoRepite(s) == \A i, j \in 1..Len(s) : s[i] = s[j] => i = j

SalientesDistintos ==
  \A g, h \in Hilos :
    salida[g] = "agregar" /\ salida[h] = "agregar" /\ saliente[g] = saliente[h] => g = h

HiloExitLibre == hiloExit.paso \in {"esperar", "sacar"} => hiloExit.prog = Nadie

SinRepetir ==
  /\ NoRepite(lista_de_programas)
  /\ NoRepite(newProcesos)
  /\ NoRepite(listaReady)
  /\ NoRepite(exitProcesos)
  /\ SalientesDistintos
  /\ HiloExitLibre

\* NEW is in order: lighter first, and those of one weight as they came.
MasLiviano(p, q) ==
  \/ calcular_peso(p) < calcular_peso(q)
  \/ calcular_peso(p) = calcular_peso(q) /\ p < q

NewOrdenada ==
  \A i, j \in 1..Len(newProcesos) : i < j => MasLiviano(newProcesos[i], newProcesos[j])

\* What the UMV holds for p, by where p is.
SegmentosDe(p) ==
  /\ p \in Sitio("lista") \/ p > pidGeneral => segmentos[p] = 0
  /\ p \in Sitio("new") \cup Sitio("ready") \cup Sitio("pcp") =>
       segmentos[p] = metadata[p].segmentos
  /\ p \in Sitio("plp") /\ plp.paso = "avisar" => segmentos[p] = 0
  /\ p \in Sitio("hiloExit") /\ hiloExit.paso = "avisar" => segmentos[p] = 0
  /\ p \in Sitio("contestado") => segmentos[p] = 0

Segmentos == \A p \in Programas : SegmentosDe(p)

InvRefina == InvPLP /\ UnSitio /\ SinRepetir /\ NewOrdenada /\ Segmentos

-----------------------------------------------------------------------------
(* Queues as sets. *)

\* A queue without its head has every other program, if none was repeated.
LEMMA EnColaSinCabeza ==
  ASSUME NEW T, NEW s \in Seq(T), s # <<>>, NoRepite(s)
  PROVE  /\ Head(s) \in EnCola(s)
         /\ EnCola(Tail(s)) = EnCola(s) \ {Head(s)}
         /\ NoRepite(Tail(s))
<1>1. /\ Len(s) \in Nat \ {0} /\ Head(s) = s[1] /\ Len(Tail(s)) = Len(s) - 1
      /\ \A i \in 1..Len(Tail(s)) : Tail(s)[i] = s[i + 1]
  BY ColaSinCabeza
<1>2. Head(s) \in EnCola(s)
  BY <1>1 DEF EnCola
<1>3. ASSUME NEW e \in EnCola(Tail(s)) PROVE e \in EnCola(s) \ {Head(s)}
  <2>1. PICK i \in 1..Len(Tail(s)) : e = s[i + 1]
    BY <1>1 DEF EnCola
  <2> QED
    BY <2>1, <1>1 DEF EnCola, NoRepite
<1>4. ASSUME NEW e \in EnCola(s) \ {Head(s)} PROVE e \in EnCola(Tail(s))
  <2>1. PICK i \in 1..Len(s) : e = s[i]
    BY DEF EnCola
  <2>2. i # 1 /\ i - 1 \in 1..Len(Tail(s)) /\ Tail(s)[i - 1] = s[(i - 1) + 1]
    BY <2>1, <1>1
  <2> QED
    BY <2>1, <2>2 DEF EnCola
<1>5. NoRepite(Tail(s))
  BY <1>1 DEF NoRepite
<1> QED
  BY <1>2, <1>3, <1>4, <1>5

\* A queue with a new program at its end has that one more.
LEMMA EnColaConUltimo ==
  ASSUME NEW T, NEW s \in Seq(T), NEW e \in T
  PROVE  /\ EnCola(Append(s, e)) = EnCola(s) \cup {e}
         /\ NoRepite(s) /\ e \notin EnCola(s) => NoRepite(Append(s, e))
<1>1. /\ Len(s) \in Nat /\ Len(Append(s, e)) = Len(s) + 1
      /\ \A i \in 1..Len(s) : Append(s, e)[i] = s[i]
      /\ Append(s, e)[Len(s) + 1] = e
  BY ColaConUltimo
<1>2. \A i \in 1..Len(Append(s, e)) : i \in 1..Len(s) \/ i = Len(s) + 1
  BY <1>1
<1>3. EnCola(Append(s, e)) \subseteq EnCola(s) \cup {e}
  BY <1>1, <1>2 DEF EnCola
<1>4. EnCola(s) \cup {e} \subseteq EnCola(Append(s, e))
  BY <1>1 DEF EnCola
<1>5. ASSUME NoRepite(s), e \notin EnCola(s) PROVE NoRepite(Append(s, e))
  BY <1>1, <1>2, <1>5 DEF NoRepite, EnCola
<1> QED
  BY <1>3, <1>4, <1>5

\* So has a queue with a program inserted.
LEMMA EnColaConInsertado ==
  ASSUME NEW T, NEW s \in Seq(T), NEW e \in T, NEW k \in 0..Len(s)
  PROVE  /\ \A i \in 1..k : Insertar(s, k, e)[i] = s[i]
         /\ Insertar(s, k, e)[k + 1] = e
         /\ \A i \in (k + 1)..Len(s) : Insertar(s, k, e)[i + 1] = s[i]
         /\ EnCola(Insertar(s, k, e)) = EnCola(s) \cup {e}
         /\ NoRepite(s) /\ e \notin EnCola(s) => NoRepite(Insertar(s, k, e))
<1> DEFINE t == Insertar(s, k, e)
<1>1. Len(t) = Len(s) + 1 /\ Len(s) \in Nat
  BY ColaConInsertado, LenProperties
<1>2. \A i \in 1..Len(t) : t[i] = IF i <= k THEN s[i]
                                  ELSE IF i = k + 1 THEN e ELSE s[i - 1]
  BY <1>1 DEF Insertar
<1> HIDE DEF t
<1>3. /\ \A i \in 1..k : t[i] = s[i]
      /\ t[k + 1] = e
      /\ \A i \in (k + 1)..Len(s) : t[i + 1] = s[i]
  BY <1>1, <1>2
<1>4. \A i \in 1..Len(t) : \/ i \in 1..k
                           \/ i = k + 1
                           \/ i - 1 \in (k + 1)..Len(s) /\ i = (i - 1) + 1
  BY <1>1
<1>5. EnCola(t) \subseteq EnCola(s) \cup {e}
  <2> SUFFICES ASSUME NEW i \in 1..Len(t), t[i] # e
               PROVE  t[i] \in EnCola(s)
    BY DEF EnCola
  <2>1. \A n \in 1..k : n \in 1..Len(s)
    BY <1>1
  <2>2. \A n \in (k + 1)..Len(s) : n \in 1..Len(s)
    BY <1>1
  <2>3. CASE i \in 1..k
    BY <2>3, <2>1, <1>3 DEF EnCola
  <2>4. CASE i - 1 \in (k + 1)..Len(s)
    <3>1. t[i] = s[i - 1]
      BY <2>4, <1>3, <1>4
    <3> QED
      BY <3>1, <2>4, <2>2 DEF EnCola
  <2> QED
    BY <2>3, <2>4, <1>3, <1>4
<1>6. EnCola(s) \cup {e} \subseteq EnCola(t)
  <2>1. \A i \in 1..Len(s) : i \in 1..k \/ i \in (k + 1)..Len(s)
    BY <1>1
  <2>2. \A i \in 1..Len(s) : i \in 1..Len(t) /\ i + 1 \in 1..Len(t)
    BY <1>1
  <2>3. k + 1 \in 1..Len(t)
    BY <1>1
  <2> QED
    BY <2>1, <2>2, <2>3, <1>3 DEF EnCola
<1>7. ASSUME NoRepite(s), e \notin EnCola(s) PROVE NoRepite(t)
  <2> SUFFICES ASSUME NEW i \in 1..Len(t), NEW j \in 1..Len(t), t[i] = t[j]
               PROVE  i = j
    BY DEF NoRepite
  <2>1. \A n \in 1..Len(s) : s[n] # e
    BY <1>7 DEF EnCola
  <2> QED
    BY <1>1, <1>2, <2>1, <1>7 DEF NoRepite
<1> QED
  BY <1>3, <1>5, <1>6, <1>7 DEF t

-----------------------------------------------------------------------------
(* Moving between places. *)

\* The programs at each place, spelled out.
Lugares ==
  /\ Sitio("lista") = EnCola(lista_de_programas)
  /\ Sitio("plp") = {p \in {plp.prog} : plp.paso \in PasosConPrograma}
  /\ Sitio("new") = EnCola(newProcesos)
  /\ Sitio("ready") = EnCola(listaReady)
  /\ Sitio("pcp") = enPCP
  /\ Sitio("saliente") = {saliente[h] : h \in {g \in Hilos : salida[g] = "agregar"}}
  /\ Sitio("exit") = EnCola(exitProcesos)
  /\ Sitio("hiloExit") =
       {p \in {hiloExit.prog} : hiloExit.paso \in {"destruir", "avisar"}}
  /\ Sitio("contestado") = {p \in Programas : respuesta[p] # "ninguna"}

\* The definition by cases gives them, before and after a step.
LEMMA LugaresSon == Lugares /\ Lugares'
<1>1. Lugares
  BY Zenon DEF Sitio, Lugares
<1>2. Lugares'
  BY Zenon DEF Sitio, Lugares
<1> QED
  BY <1>1, <1>2

\* A step that leaves alone what holds a place leaves its programs there.
LEMMA Quedan ==
  /\ lista_de_programas' = lista_de_programas => Sitio("lista")' = Sitio("lista")
  /\ plp' = plp => Sitio("plp")' = Sitio("plp")
  /\ plp.paso \notin PasosConPrograma /\ plp'.paso \notin PasosConPrograma =>
       Sitio("plp")' = Sitio("plp")
  /\ newProcesos' = newProcesos => Sitio("new")' = Sitio("new")
  /\ listaReady' = listaReady => Sitio("ready")' = Sitio("ready")
  /\ enPCP' = enPCP => Sitio("pcp")' = Sitio("pcp")
  /\ salida' = salida /\ saliente' = saliente => Sitio("saliente")' = Sitio("saliente")
  /\ exitProcesos' = exitProcesos => Sitio("exit")' = Sitio("exit")
  /\ hiloExit' = hiloExit => Sitio("hiloExit")' = Sitio("hiloExit")
  /\ respuesta' = respuesta => Sitio("contestado")' = Sitio("contestado")
<1>1. /\ lista_de_programas' = lista_de_programas => Sitio("lista")' = Sitio("lista")
      /\ newProcesos' = newProcesos => Sitio("new")' = Sitio("new")
      /\ listaReady' = listaReady => Sitio("ready")' = Sitio("ready")
      /\ exitProcesos' = exitProcesos => Sitio("exit")' = Sitio("exit")
  <2>1. \A s, t : s = t => EnCola(s) = EnCola(t)
    OBVIOUS
  <2> QED
    BY <2>1, LugaresSon DEF Lugares
<1>2. /\ plp' = plp => Sitio("plp")' = Sitio("plp")
      /\ plp.paso \notin PasosConPrograma /\ plp'.paso \notin PasosConPrograma =>
           Sitio("plp")' = Sitio("plp")
      /\ enPCP' = enPCP => Sitio("pcp")' = Sitio("pcp")
      /\ hiloExit' = hiloExit => Sitio("hiloExit")' = Sitio("hiloExit")
  BY LugaresSon DEF Lugares, PasosConPrograma
<1>3. salida' = salida /\ saliente' = saliente => Sitio("saliente")' = Sitio("saliente")
  <2> SUFFICES ASSUME salida' = salida, saliente' = saliente
               PROVE  Sitio("saliente")' = Sitio("saliente")
    OBVIOUS
  <2>1. \A p : p \in Sitio("saliente") <=>
          \E h \in Hilos : salida[h] = "agregar" /\ saliente[h] = p
    BY LugaresSon DEF Lugares
  <2>2. \A p : p \in Sitio("saliente")' <=>
          \E h \in Hilos : salida'[h] = "agregar" /\ saliente'[h] = p
    BY LugaresSon DEF Lugares
  <2> QED
    BY <2>1, <2>2
<1>4. respuesta' = respuesta => Sitio("contestado")' = Sitio("contestado")
  BY LugaresSon DEF Lugares
<1> QED
  BY <1>1, <1>2, <1>3, <1>4

\* A program goes from place a to place b, and nothing else moves.
Muda(a, b, p) ==
  \A k \in Sitios :
    Sitio(k)' = IF k = a THEN Sitio(k) \ {p}
                ELSE IF k = b THEN Sitio(k) \cup {p} ELSE Sitio(k)

\* One program that moves leaves every program at one place.
LEMMA Mudanza ==
  ASSUME UnSitio, NEW a \in Sitios, NEW b \in Sitios, a # b,
         NEW p \in Sitio(a), Muda(a, b, p), pidGeneral' = pidGeneral
  PROVE  UnSitio'
<1>1. \A k \in Sitios : Sitio(k)' \subseteq 1..pidGeneral
  BY DEF UnSitio, Muda
<1>2. \A q \in 1..pidGeneral : \E k \in Sitios : q \in Sitio(k)'
  <2> TAKE q \in 1..pidGeneral
  <2>1. PICK k \in Sitios : q \in Sitio(k)
    BY DEF UnSitio
  <2>2. CASE q = p
    BY <2>2 DEF Muda
  <2>3. CASE q # p
    BY <2>1, <2>3 DEF Muda
  <2> QED
    BY <2>2, <2>3
<1>3. \A k, l \in Sitios : \A q : q \in Sitio(k)' /\ q \in Sitio(l)' => k = l
  <2> SUFFICES ASSUME NEW k \in Sitios, NEW l \in Sitios, NEW q,
                      q \in Sitio(k)', q \in Sitio(l)'
               PROVE  k = l
    OBVIOUS
  <2>1. CASE q = p
    <3>1. \A j \in Sitios : p \in Sitio(j)' => j = b
      BY DEF Muda, UnSitio
    <3> QED
      BY <3>1, <2>1
  <2>2. CASE q # p
    <3>1. q \in Sitio(k) /\ q \in Sitio(l)
      BY <2>2 DEF Muda
    <3> QED
      BY <3>1 DEF UnSitio
  <2> QED
    BY <2>1, <2>2
<1> QED
  BY <1>1, <1>2, <1>3 DEF UnSitio

\* So does a step that moves none.
LEMMA Quietud ==
  ASSUME UnSitio, \A k \in Sitios : Sitio(k)' = Sitio(k), pidGeneral' = pidGeneral
  PROVE  UnSitio'
BY DEF UnSitio

\* And an arrival.
LEMMA Llegada ==
  ASSUME UnSitio, pidGeneral \in Nat, pidGeneral' = pidGeneral + 1,
         \A k \in Sitios : Sitio(k)' = IF k = "lista" THEN Sitio(k) \cup {pidGeneral + 1}
                                       ELSE Sitio(k)
  PROVE  UnSitio'
<1>1. /\ \A k \in Sitios : pidGeneral + 1 \notin Sitio(k)
      /\ 1..(pidGeneral + 1) = (1..pidGeneral) \cup {pidGeneral + 1}
      /\ "lista" \in Sitios
  BY DEF UnSitio, Sitios
<1>2. \A k \in Sitios : Sitio(k)' \subseteq 1..(pidGeneral + 1)
  BY <1>1 DEF UnSitio
<1>3. \A q \in 1..(pidGeneral + 1) : \E k \in Sitios : q \in Sitio(k)'
  BY <1>1 DEF UnSitio
<1>4. \A k, l \in Sitios : \A q : q \in Sitio(k)' /\ q \in Sitio(l)' => k = l
  BY <1>1 DEF UnSitio
<1> QED
  BY <1>2, <1>3, <1>4 DEF UnSitio


-----------------------------------------------------------------------------
(* Each program stays at one place. *)

\* The queues hold programs that were received, and every thread moves one.
LEMMA Recibidos ==
  ASSUME TypeOK
  PROVE  /\ pidGeneral \in Nat /\ 1..pidGeneral \subseteq Programas
         /\ plp.paso \in PasosConPrograma => plp.prog \in 1..pidGeneral
         /\ hiloExit.paso \in {"destruir", "avisar"} => hiloExit.prog \in 1..pidGeneral
         /\ \A h \in Hilos : salida[h] = "agregar" => saliente[h] \in 1..pidGeneral
<1>1. pidGeneral \in Nat /\ 1..pidGeneral \subseteq Programas
  BY LenProperties, ParametrosPLP DEF TypeOK, TiposColas, pidGeneral, Programas
<1> QED
  BY <1>1 DEF TypeOK, TiposPLP, TiposSalida, Nadie

\* An arrival is a program more in the list of programs.
LEMMA SitiosAgregar ==
  ASSUME TypeOK, AgregarPrograma
  PROVE  /\ pidGeneral' = pidGeneral + 1
         /\ \A k \in Sitios : Sitio(k)' = IF k = "lista" THEN Sitio(k) \cup {pidGeneral + 1}
                                          ELSE Sitio(k)
<1>1. pidGeneral' = pidGeneral + 1
  BY ColaConUltimo DEF AgregarPrograma, pidGeneral, TypeOK, TiposColas
<1>2. EnCola(lista_de_programas)' = EnCola(lista_de_programas) \cup {pidGeneral + 1}
  <2>1. pidGeneral \in Nat /\ 1..pidGeneral \subseteq 1..(pidGeneral + 1)
    BY Recibidos
  <2>2. lista_de_programas \in Seq(1..(pidGeneral + 1))
    BY <2>1, ColaCrece DEF TypeOK, TiposColas
  <2>3. lista_de_programas' = Append(lista_de_programas, pidGeneral + 1)
    BY DEF AgregarPrograma
  <2> QED
    BY <2>1, <2>2, <2>3, EnColaConUltimo DEF EnCola
<1>3. Sitio("lista")' = Sitio("lista") \cup {pidGeneral + 1}
  BY <1>2, LugaresSon DEF Lugares
<1> QED
  BY <1>1, <1>3, Quedan DEF AgregarPrograma, mundoPCP, colaExit, moviendo, Sitios

\* The PLP takes the first program of the list.
LEMMA SitiosSacar ==
  ASSUME TypeOK, SinRepetir, SacarPrograma, lista_de_programas # <<>>
  PROVE  /\ Head(lista_de_programas) \in Sitio("lista")
         /\ Muda("lista", "plp", Head(lista_de_programas))
<1>1. /\ Head(lista_de_programas) \in EnCola(lista_de_programas)
      /\ EnCola(lista_de_programas)' =
           EnCola(lista_de_programas) \ {Head(lista_de_programas)}
  BY EnColaSinCabeza DEF SacarPrograma, TypeOK, TiposColas, SinRepetir, EnCola
<1>2. plp' = [paso |-> "crear", prog |-> Head(lista_de_programas)] /\ plp.paso = "sacar"
  BY DEF SacarPrograma
<1>3. Sitio("plp") = {} /\ Sitio("plp")' = {Head(lista_de_programas)}
  BY <1>2, LugaresSon DEF Lugares, PasosConPrograma
<1>4. /\ Head(lista_de_programas) \in Sitio("lista")
      /\ Sitio("lista")' = Sitio("lista") \ {Head(lista_de_programas)}
  BY <1>1, LugaresSon DEF Lugares
<1> QED
  BY <1>3, <1>4, Quedan DEF SacarPrograma, mundoPCP, colaExit, moviendo, Sitios, Muda

\* It puts it in NEW.
LEMMA SitiosAceptar ==
  ASSUME TypeOK, AceptarPrograma
  PROVE  plp.prog \in Sitio("plp") /\ Muda("plp", "new", plp.prog)
<1>1. plp.paso = "crear" /\ plp'.paso = "promover"
  BY DEF AceptarPrograma
<1>2. Sitio("plp") = {plp.prog} /\ Sitio("plp")' = {}
  BY <1>1, LugaresSon DEF Lugares, PasosConPrograma
<1>3. EnCola(newProcesos)' = EnCola(newProcesos) \cup {plp.prog}
  <2>1. PICK k \in 0..Len(newProcesos) : newProcesos' = Insertar(newProcesos, k, plp.prog)
    BY DEF AceptarPrograma
  <2>2. plp.prog \in 1..pidGeneral /\ newProcesos \in Seq(1..pidGeneral)
    BY <1>1, Recibidos DEF PasosConPrograma, TypeOK, TiposColas
  <2> DEFINE T == 1..pidGeneral
  <2>3. EnCola(Insertar(newProcesos, k, plp.prog)) = EnCola(newProcesos) \cup {plp.prog}
    <3>1. plp.prog \in T /\ newProcesos \in Seq(T)
      BY <2>2
    <3> HIDE DEF T
    <3> QED
      BY <3>1, EnColaConInsertado
  <2> QED
    BY <2>1, <2>3 DEF EnCola
<1>4. Sitio("new")' = Sitio("new") \cup {plp.prog}
  BY <1>3, LugaresSon DEF Lugares
<1> QED
  BY <1>2, <1>4, Quedan DEF AceptarPrograma, mundoPCP, colaExit, moviendo, Sitios, Muda

\* Or answers its client.
LEMMA SitiosRechazo ==
  ASSUME TypeOK, AvisarRechazo
  PROVE  plp.prog \in Sitio("plp") /\ Muda("plp", "contestado", plp.prog)
<1>1. plp.paso = "avisar" /\ plp'.paso = "promover"
  BY DEF AvisarRechazo
<1>2. Sitio("plp") = {plp.prog} /\ Sitio("plp")' = {}
  BY <1>1, LugaresSon DEF Lugares, PasosConPrograma
<1>3. Sitio("contestado")' = Sitio("contestado") \cup {plp.prog}
  <2>1. plp.prog \in Programas
    BY <1>1, Recibidos DEF PasosConPrograma
  <2>2. /\ respuesta \in [Programas -> Respuestas]
        /\ respuesta' = [respuesta EXCEPT ![plp.prog] = "Programa rechazado"]
    BY DEF AvisarRechazo, TypeOK, TiposUMV
  <2>3. \A q \in Programas : respuesta'[q] # "ninguna" <=>
                             respuesta[q] # "ninguna" \/ q = plp.prog
    BY <2>2
  <2> QED
    BY <2>1, <2>3, LugaresSon DEF Lugares
<1> QED
  BY <1>2, <1>3, Quedan DEF AvisarRechazo, mundoPCP, colaExit, moviendo, Sitios, Muda

\* It moves the head of NEW to READY.
LEMMA SitiosMover ==
  ASSUME TypeOK, PromocionPosible, SinRepetir, MoverAReady
  PROVE  /\ Head(newProcesos) \in Sitio("new")
         /\ Muda("new", "ready", Head(newProcesos))
<1>1. newProcesos # <<>> /\ newProcesos \in Seq(1..pidGeneral)
  BY DEF MoverAReady, PromocionPosible, TypeOK, TiposColas
<1>2. /\ Head(newProcesos) \in EnCola(newProcesos)
      /\ EnCola(newProcesos)' = EnCola(newProcesos) \ {Head(newProcesos)}
  BY <1>1, EnColaSinCabeza DEF MoverAReady, SinRepetir, EnCola
<1>3. EnCola(listaReady)' = EnCola(listaReady) \cup {Head(newProcesos)}
  <2>1. /\ Head(newProcesos) \in 1..pidGeneral /\ listaReady \in Seq(1..pidGeneral)
        /\ listaReady' = Append(listaReady, Head(newProcesos))
    BY <1>1, ColaSinCabeza DEF MoverAReady, TypeOK, TiposColas
  <2>2. EnCola(Append(listaReady, Head(newProcesos)))
          = EnCola(listaReady) \cup {Head(newProcesos)}
    BY <2>1, EnColaConUltimo DEF EnCola
  <2> QED
    BY <2>1, <2>2 DEF EnCola
<1>4. /\ Head(newProcesos) \in Sitio("new")
      /\ Sitio("new")' = Sitio("new") \ {Head(newProcesos)}
      /\ Sitio("ready")' = Sitio("ready") \cup {Head(newProcesos)}
  BY <1>2, <1>3, LugaresSon DEF Lugares
<1>5. Sitio("plp")' = Sitio("plp")
  BY Quedan DEF MoverAReady, PasosConPrograma, TypeOK, TiposPLP
<1> QED
  BY <1>4, <1>5, Quedan DEF MoverAReady, colaExit, moviendo, Sitios, Muda

\* The PCP takes the head of READY.
LEMMA SitiosTomar ==
  ASSUME TypeOK, SinRepetir, TomarDeReady
  PROVE  /\ Head(listaReady) \in Sitio("ready")
         /\ Muda("ready", "pcp", Head(listaReady))
<1>1. /\ Head(listaReady) \in EnCola(listaReady)
      /\ EnCola(listaReady)' = EnCola(listaReady) \ {Head(listaReady)}
  BY EnColaSinCabeza DEF TomarDeReady, TypeOK, TiposColas, SinRepetir, EnCola
<1>2. /\ Head(listaReady) \in Sitio("ready")
      /\ Sitio("ready")' = Sitio("ready") \ {Head(listaReady)}
      /\ Sitio("pcp")' = Sitio("pcp") \cup {Head(listaReady)}
  BY <1>1, LugaresSon DEF Lugares, TomarDeReady
<1> QED
  BY <1>2, Quedan DEF TomarDeReady, colaExit, moviendo, Sitios, Muda

\* And gives it back.
LEMMA SitiosVolver ==
  ASSUME TypeOK, NEW p \in Programas, VolverAReady(p)
  PROVE  p \in Sitio("pcp") /\ Muda("pcp", "ready", p)
<1>1. p \in 1..pidGeneral
  BY DEF VolverAReady, TypeOK, TiposColas
<1>2. EnCola(listaReady)' = EnCola(listaReady) \cup {p}
  <2>1. listaReady' = Append(listaReady, p) /\ listaReady \in Seq(1..pidGeneral)
    BY DEF VolverAReady, TypeOK, TiposColas
  <2>2. EnCola(Append(listaReady, p)) = EnCola(listaReady) \cup {p}
    BY <1>1, <2>1, EnColaConUltimo DEF EnCola
  <2> QED
    BY <2>1, <2>2 DEF EnCola
<1>3. /\ p \in Sitio("pcp") /\ Sitio("pcp")' = Sitio("pcp") \ {p}
      /\ Sitio("ready")' = Sitio("ready") \cup {p}
  BY <1>2, LugaresSon DEF Lugares, VolverAReady
<1> QED
  BY <1>3, Quedan DEF VolverAReady, colaExit, moviendo, Sitios, Muda

\* A thread takes from the PCP a program that ended.
LEMMA SitiosSacarDeExec ==
  ASSUME TypeOK, NEW h \in Hilos, NEW p \in Programas, SacarDeExec(h, p)
  PROVE  p \in Sitio("pcp") /\ Muda("pcp", "saliente", p)
<1>1. p \in Sitio("pcp") /\ Sitio("pcp")' = Sitio("pcp") \ {p}
  BY LugaresSon DEF Lugares, SacarDeExec
<1>2. /\ salida \in [Hilos -> PasosSalida] /\ salida' = [salida EXCEPT ![h] = "agregar"]
      /\ saliente \in [Hilos -> 0..pidGeneral] /\ saliente' = [saliente EXCEPT ![h] = p]
      /\ salida[h] = "libre"
  BY DEF SacarDeExec, TypeOK, TiposSalida
<1>3. \A g \in Hilos : /\ g # h => salida'[g] = salida[g] /\ saliente'[g] = saliente[g]
                       /\ salida'[h] = "agregar" /\ saliente'[h] = p
  BY <1>2
<1>4. \A q : q \in Sitio("saliente")' <=> q \in Sitio("saliente") \/ q = p
  BY <1>2, <1>3, LugaresSon DEF Lugares
<1>5. Sitio("saliente")' = Sitio("saliente") \cup {p}
  BY <1>4
<1> QED
  BY <1>1, <1>5, Quedan DEF SacarDeExec, colaExit, Sitios, Muda

\* The thread puts it in EXIT.
LEMMA SitiosAgregarAExit ==
  ASSUME TypeOK, SinRepetir, NEW h \in Hilos, AgregarAExit(h)
  PROVE  saliente[h] \in Sitio("saliente") /\ Muda("saliente", "exit", saliente[h])
<1>1. /\ salida \in [Hilos -> PasosSalida] /\ salida' = [salida EXCEPT ![h] = "sumar"]
      /\ saliente \in [Hilos -> 0..pidGeneral] /\ saliente' = [saliente EXCEPT ![h] = Nadie]
      /\ salida[h] = "agregar"
  BY DEF AgregarAExit, TypeOK, TiposSalida
<1>2. \A g \in Hilos : /\ g # h => salida'[g] = salida[g] /\ saliente'[g] = saliente[g]
                       /\ salida'[h] = "sumar"
  BY <1>1
<1>3. \A g \in Hilos : g # h /\ salida[g] = "agregar" => saliente[g] # saliente[h]
  BY <1>1 DEF SinRepetir, SalientesDistintos
<1>4. \A q : q \in Sitio("saliente")' <=> q \in Sitio("saliente") /\ q # saliente[h]
  BY <1>1, <1>2, <1>3, LugaresSon DEF Lugares
<1>5. /\ saliente[h] \in Sitio("saliente")
      /\ Sitio("saliente")' = Sitio("saliente") \ {saliente[h]}
  BY <1>1, <1>4, LugaresSon DEF Lugares
<1>6. EnCola(exitProcesos)' = EnCola(exitProcesos) \cup {saliente[h]}
  <2>1. /\ saliente[h] \in 1..pidGeneral /\ exitProcesos \in Seq(1..pidGeneral)
        /\ exitProcesos' = Append(exitProcesos, saliente[h])
    BY <1>1, Recibidos DEF AgregarAExit, TypeOK, TiposColas
  <2>2. EnCola(Append(exitProcesos, saliente[h])) = EnCola(exitProcesos) \cup {saliente[h]}
    BY <2>1, EnColaConUltimo DEF EnCola
  <2> QED
    BY <2>1, <2>2 DEF EnCola
<1>7. Sitio("exit")' = Sitio("exit") \cup {saliente[h]}
  BY <1>6, LugaresSon DEF Lugares
<1> QED
  BY <1>5, <1>7, Quedan DEF AgregarAExit, mundoPCP, Sitios, Muda

\* The exit thread takes it.
LEMMA SitiosSacarDeExit ==
  ASSUME TypeOK, SinRepetir, SacarDeExit
  PROVE  Head(exitProcesos) \in Sitio("exit") /\ Muda("exit", "hiloExit", Head(exitProcesos))
<1>1. /\ Head(exitProcesos) \in EnCola(exitProcesos)
      /\ EnCola(exitProcesos)' = EnCola(exitProcesos) \ {Head(exitProcesos)}
  BY EnColaSinCabeza DEF SacarDeExit, TypeOK, TiposColas, SinRepetir, EnCola
<1>2. hiloExit.paso = "sacar" /\ hiloExit' = [paso |-> "destruir", prog |-> Head(exitProcesos)]
  BY DEF SacarDeExit
<1>3. Sitio("hiloExit") = {} /\ Sitio("hiloExit")' = {Head(exitProcesos)}
  BY <1>2, LugaresSon DEF Lugares
<1>4. /\ Head(exitProcesos) \in Sitio("exit")
      /\ Sitio("exit")' = Sitio("exit") \ {Head(exitProcesos)}
  BY <1>1, LugaresSon DEF Lugares
<1> QED
  BY <1>3, <1>4, Quedan DEF SacarDeExit, mundoPCP, moviendo, Sitios, Muda

\* And answers its client.
LEMMA SitiosFin ==
  ASSUME TypeOK, AvisarFin
  PROVE  /\ hiloExit.prog \in Sitio("hiloExit")
         /\ Muda("hiloExit", "contestado", hiloExit.prog)
<1>1. hiloExit.paso = "avisar" /\ hiloExit' = [paso |-> "esperar", prog |-> Nadie]
  BY DEF AvisarFin
<1>2. Sitio("hiloExit") = {hiloExit.prog} /\ Sitio("hiloExit")' = {}
  BY <1>1, LugaresSon DEF Lugares
<1>3. Sitio("contestado")' = Sitio("contestado") \cup {hiloExit.prog}
  <2>1. hiloExit.prog \in Programas
    BY <1>1, Recibidos
  <2>2. /\ respuesta \in [Programas -> Respuestas]
        /\ respuesta' = [respuesta EXCEPT ![hiloExit.prog] = "Termino la ejecucion"]
    BY DEF AvisarFin, TypeOK, TiposUMV
  <2>3. \A q \in Programas : respuesta'[q] # "ninguna" <=>
                             respuesta[q] # "ninguna" \/ q = hiloExit.prog
    BY <2>2
  <2> QED
    BY <2>1, <2>3, LugaresSon DEF Lugares
<1> QED
  BY <1>2, <1>3, Quedan DEF AvisarFin, mundoPCP, colaExit, moviendo, Sitios, Muda

\* The steps that move no program.
SinMudanza ==
  \/ PostNuevoPrograma \/ EsperarPrograma \/ CrearSegmento \/ DestruirRechazado
  \/ (SacarPrograma /\ lista_de_programas = <<>>)
  \/ DecidirPromocion \/ OcuparLugar \/ PostReady \/ EsperarSalida \/ DestruirSegmentos
  \/ \E h \in Hilos : LiberarLugar(h) \/ PostExit(h) \/ PostLugar(h)
  \/ UNCHANGED vars

\* They leave every place as it was.
LEMMA SitiosQuietos ==
  ASSUME TypeOK, SinMudanza
  PROVE  pidGeneral' = pidGeneral /\ \A k \in Sitios : Sitio(k)' = Sitio(k)
<1> USE DEF ventanilla, mundoPCP, colaExit, moviendo, pidGeneral, PasosConPrograma
<1>1. CASE PostNuevoPrograma \/ EsperarPrograma \/ OcuparLugar \/ PostReady \/
          DecidirPromocion \/ (SacarPrograma /\ lista_de_programas = <<>>)
  <2>1. plp \in [paso : PasosPLP, prog : 0..pidGeneral]
    BY DEF TypeOK, TiposPLP
  <2>2. \/ plp' = plp
        \/ plp.paso \notin PasosConPrograma /\ plp'.paso \notin PasosConPrograma
    BY <1>1, <2>1 DEF PostNuevoPrograma, EsperarPrograma, OcuparLugar, PostReady,
       DecidirPromocion, SacarPrograma
  <2> QED
    BY <1>1, <2>2, Quedan DEF PostNuevoPrograma, EsperarPrograma, OcuparLugar, PostReady,
       DecidirPromocion, SacarPrograma, Sitios
<1>2. CASE CrearSegmento \/ DestruirRechazado
  <2>1. plp \in [paso : PasosPLP, prog : 0..pidGeneral]
    BY DEF TypeOK, TiposPLP
  <2>2. /\ plp.paso \in PasosConPrograma /\ plp'.paso \in PasosConPrograma
        /\ plp'.prog = plp.prog
    BY <1>2, <2>1 DEF CrearSegmento, DestruirRechazado
  <2>3. Sitio("plp")' = Sitio("plp")
    BY <2>2, LugaresSon DEF Lugares
  <2> QED
    BY <1>2, <2>3, Quedan DEF CrearSegmento, DestruirRechazado, Sitios
<1>3. CASE EsperarSalida \/ DestruirSegmentos
  <2>1. hiloExit \in [paso : {"esperar", "sacar", "destruir", "avisar"},
                      prog : 0..pidGeneral]
    BY DEF TypeOK, TiposSalida
  <2>2. /\ hiloExit.paso \in {"destruir", "avisar"} <=> hiloExit'.paso \in {"destruir", "avisar"}
        /\ hiloExit'.prog = hiloExit.prog
    BY <1>3, <2>1 DEF EsperarSalida, DestruirSegmentos
  <2>3. Sitio("hiloExit")' = Sitio("hiloExit")
    BY <2>2, LugaresSon DEF Lugares
  <2> QED
    BY <1>3, <2>3, Quedan DEF EsperarSalida, DestruirSegmentos, Sitios
<1>4. ASSUME NEW h \in Hilos, LiberarLugar(h) \/ PostExit(h) \/ PostLugar(h)
      PROVE  pidGeneral' = pidGeneral /\ \A k \in Sitios : Sitio(k)' = Sitio(k)
  <2>1. salida \in [Hilos -> PasosSalida]
    BY DEF TypeOK, TiposSalida
  <2>2. \A g \in Hilos : salida'[g] = "agregar" <=> salida[g] = "agregar"
    BY <1>4, <2>1 DEF LiberarLugar, PostExit, PostLugar
  <2>3. saliente' = saliente
    BY <1>4 DEF LiberarLugar, PostExit, PostLugar
  <2>4. \A q : q \in Sitio("saliente")' <=> q \in Sitio("saliente")
    BY <2>2, <2>3, LugaresSon DEF Lugares
  <2>5. Sitio("saliente")' = Sitio("saliente")
    BY <2>4
  <2> QED
    BY <1>4, <2>5, Quedan DEF LiberarLugar, PostExit, PostLugar, Sitios
<1>5. CASE UNCHANGED vars
  BY <1>5, Quedan DEF vars, Sitios
<1>6. CASE \E h \in Hilos : LiberarLugar(h) \/ PostExit(h) \/ PostLugar(h)
  <2>1. PICK h \in Hilos : LiberarLugar(h) \/ PostExit(h) \/ PostLugar(h)
    BY <1>6
  <2> QED
    BY <1>4, <2>1
<1> HIDE DEF ventanilla, mundoPCP, colaExit, moviendo, pidGeneral, PasosConPrograma
<1> QED
  BY <1>1, <1>2, <1>3, <1>5, <1>6 DEF SinMudanza

\* Every step moves no program or is one of those that move one.
LEMMA Pasos ==
  ASSUME [Next]_vars
  PROVE  \/ SinMudanza \/ AgregarPrograma
         \/ SacarPrograma /\ lista_de_programas # <<>>
         \/ AceptarPrograma \/ AvisarRechazo \/ MoverAReady \/ TomarDeReady
         \/ \E p \in Programas : VolverAReady(p)
         \/ \E h \in Hilos, p \in Programas : SacarDeExec(h, p)
         \/ \E h \in Hilos : AgregarAExit(h)
         \/ SacarDeExit \/ AvisarFin
BY DEF Next, planificar_programas, terminarPrograma, moverAExit, SinMudanza

\* No step leaves a program at two places, or at none.
LEMMA UnSitioSigue ==
  ASSUME TypeOK, PromocionPosible, UnSitio, SinRepetir, [Next]_vars
  PROVE  UnSitio'
<1>0. {"lista", "plp", "new", "ready", "pcp", "saliente", "exit", "hiloExit",
       "contestado"} \subseteq Sitios
  BY DEF Sitios
<1>1. CASE AgregarPrograma
  BY <1>1, SitiosAgregar, Recibidos, Llegada
<1>2. CASE SacarPrograma /\ lista_de_programas # <<>>
  <2>1. pidGeneral' = pidGeneral
    BY <1>2 DEF SacarPrograma, ventanilla, pidGeneral
  <2> QED
    BY <1>0, <1>2, <2>1, SitiosSacar, Mudanza
<1>3. CASE AceptarPrograma
  <2>1. pidGeneral' = pidGeneral
    BY <1>3 DEF AceptarPrograma, ventanilla, pidGeneral
  <2> QED
    BY <1>0, <1>3, <2>1, SitiosAceptar, Mudanza
<1>4. CASE AvisarRechazo
  <2>1. pidGeneral' = pidGeneral
    BY <1>4 DEF AvisarRechazo, ventanilla, pidGeneral
  <2> QED
    BY <1>0, <1>4, <2>1, SitiosRechazo, Mudanza
<1>5. CASE MoverAReady
  <2>1. pidGeneral' = pidGeneral
    BY <1>5 DEF MoverAReady, ventanilla, pidGeneral
  <2> QED
    BY <1>0, <1>5, <2>1, SitiosMover, Mudanza
<1>6. CASE TomarDeReady
  <2>1. pidGeneral' = pidGeneral
    BY <1>6 DEF TomarDeReady, ventanilla, pidGeneral
  <2> QED
    BY <1>0, <1>6, <2>1, SitiosTomar, Mudanza
<1>7. ASSUME NEW p \in Programas, VolverAReady(p) PROVE UnSitio'
  <2>1. pidGeneral' = pidGeneral
    BY <1>7 DEF VolverAReady, ventanilla, pidGeneral
  <2> QED
    BY <1>0, <1>7, <2>1, SitiosVolver, Mudanza
<1>8. ASSUME NEW h \in Hilos, NEW p \in Programas, SacarDeExec(h, p) PROVE UnSitio'
  <2>1. pidGeneral' = pidGeneral
    BY <1>8 DEF SacarDeExec, ventanilla, pidGeneral
  <2> QED
    BY <1>0, <1>8, <2>1, SitiosSacarDeExec, Mudanza
<1>9. ASSUME NEW h \in Hilos, AgregarAExit(h) PROVE UnSitio'
  <2>1. pidGeneral' = pidGeneral
    BY <1>9 DEF AgregarAExit, ventanilla, pidGeneral
  <2> QED
    BY <1>0, <1>9, <2>1, SitiosAgregarAExit, Mudanza
<1>10. CASE SacarDeExit
  <2>1. pidGeneral' = pidGeneral
    BY <1>10 DEF SacarDeExit, ventanilla, pidGeneral
  <2> QED
    BY <1>0, <1>10, <2>1, SitiosSacarDeExit, Mudanza
<1>11. CASE AvisarFin
  <2>1. pidGeneral' = pidGeneral
    BY <1>11 DEF AvisarFin, ventanilla, pidGeneral
  <2> QED
    BY <1>0, <1>11, <2>1, SitiosFin, Mudanza
<1>12. CASE SinMudanza
  BY <1>12, SitiosQuietos, Quietud
<1> QED
  BY <1>1, <1>2, <1>3, <1>4, <1>5, <1>6, <1>7, <1>8, <1>9, <1>10, <1>11, <1>12, Pasos

\* A queue, or the threads, that a step leaves alone repeat no program after it.
LEMMA NoRepiteQueda ==
  ASSUME SinRepetir
  PROVE  /\ lista_de_programas' = lista_de_programas => NoRepite(lista_de_programas)'
         /\ newProcesos' = newProcesos => NoRepite(newProcesos)'
         /\ listaReady' = listaReady => NoRepite(listaReady)'
         /\ exitProcesos' = exitProcesos => NoRepite(exitProcesos)'
         /\ salida' = salida /\ saliente' = saliente => SalientesDistintos'
         /\ hiloExit' = hiloExit => HiloExitLibre'
<1>1. /\ lista_de_programas' = lista_de_programas => NoRepite(lista_de_programas)'
      /\ newProcesos' = newProcesos => NoRepite(newProcesos)'
      /\ listaReady' = listaReady => NoRepite(listaReady)'
      /\ exitProcesos' = exitProcesos => NoRepite(exitProcesos)'
  BY DEF SinRepetir, NoRepite
<1>2. /\ salida' = salida /\ saliente' = saliente => SalientesDistintos'
      /\ hiloExit' = hiloExit => HiloExitLibre'
  BY DEF SinRepetir, SalientesDistintos, HiloExitLibre
<1> QED
  BY <1>1, <1>2

\* Nor one twice in a queue, or in the hands of two threads.
LEMMA SinRepetirSigue ==
  ASSUME TypeOK, PromocionPosible, UnSitio, SinRepetir, [Next]_vars
  PROVE  SinRepetir'
<1> USE DEF ventanilla, mundoPCP, colaExit, moviendo
<1>0. /\ \A k, l \in Sitios : \A p : p \in Sitio(k) /\ p \in Sitio(l) => k = l
      /\ {"lista", "plp", "new", "ready", "pcp", "saliente", "exit", "hiloExit",
          "contestado"} \subseteq Sitios
  BY DEF UnSitio, Sitios
<1>1. CASE AgregarPrograma
  <2>1. pidGeneral \in Nat /\ pidGeneral + 1 \notin EnCola(lista_de_programas)
    BY Recibidos, LenProperties DEF TypeOK, TiposColas, EnCola
  <2>2. lista_de_programas \in Seq(1..(pidGeneral + 1))
    BY <2>1, ColaCrece DEF TypeOK, TiposColas
  <2>3. NoRepite(Append(lista_de_programas, pidGeneral + 1))
    BY <2>1, <2>2, EnColaConUltimo DEF SinRepetir
  <2>4. lista_de_programas' = Append(lista_de_programas, pidGeneral + 1)
    BY <1>1 DEF AgregarPrograma
  <2>5. NoRepite(lista_de_programas)'
    BY <2>3, <2>4 DEF NoRepite
  <2> QED
    BY <1>1, <2>5, NoRepiteQueda DEF AgregarPrograma, SinRepetir
<1>2. CASE SacarPrograma /\ lista_de_programas # <<>>
  <2>1. NoRepite(Tail(lista_de_programas))
    BY <1>2, EnColaSinCabeza DEF TypeOK, TiposColas, SinRepetir
  <2>2. lista_de_programas' = Tail(lista_de_programas)
    BY <1>2 DEF SacarPrograma
  <2>3. NoRepite(lista_de_programas)'
    BY <2>1, <2>2 DEF NoRepite
  <2> QED
    BY <1>2, <2>3, NoRepiteQueda DEF SacarPrograma, SinRepetir
<1>3. CASE AceptarPrograma
  <2>1. PICK k \in 0..Len(newProcesos) : newProcesos' = Insertar(newProcesos, k, plp.prog)
    BY <1>3 DEF AceptarPrograma
  <2>2. /\ plp.prog \in 1..pidGeneral /\ newProcesos \in Seq(1..pidGeneral)
        /\ plp.prog \notin EnCola(newProcesos)
    <3>1. plp.prog \in Sitio("plp") /\ plp.paso \in PasosConPrograma
      BY <1>3, LugaresSon DEF Lugares, AceptarPrograma, PasosConPrograma
    <3>2. plp.prog \notin Sitio("new")
      BY <1>0, <3>1
    <3> QED
      BY <3>1, <3>2, Recibidos, LugaresSon DEF Lugares, TypeOK, TiposColas
  <2> DEFINE T == 1..pidGeneral
  <2>3. NoRepite(Insertar(newProcesos, k, plp.prog))
    <3>1. plp.prog \in T /\ newProcesos \in Seq(T) /\ plp.prog \notin EnCola(newProcesos)
      BY <2>2
    <3> HIDE DEF T
    <3> QED
      BY <3>1, EnColaConInsertado DEF SinRepetir
  <2>4. NoRepite(newProcesos)'
    BY <2>1, <2>3 DEF NoRepite
  <2> QED
    BY <1>3, <2>4, NoRepiteQueda DEF AceptarPrograma, SinRepetir
<1>4. CASE MoverAReady
  <2>1. newProcesos # <<>> /\ newProcesos \in Seq(1..pidGeneral)
    BY <1>4 DEF MoverAReady, PromocionPosible, TypeOK, TiposColas
  <2>2. NoRepite(Tail(newProcesos)) /\ Head(newProcesos) \in EnCola(newProcesos)
    BY <2>1, EnColaSinCabeza DEF SinRepetir
  <2>3. Head(newProcesos) \notin EnCola(listaReady)
    BY <1>0, <2>2, LugaresSon DEF Lugares
  <2>4. NoRepite(Append(listaReady, Head(newProcesos)))
    <3> DEFINE T == 1..pidGeneral
    <3>1. Head(newProcesos) \in T /\ listaReady \in Seq(T)
      BY <2>1, ColaSinCabeza DEF TypeOK, TiposColas
    <3> HIDE DEF T
    <3> QED
      BY <2>3, <3>1, EnColaConUltimo DEF SinRepetir
  <2>5. NoRepite(newProcesos)' /\ NoRepite(listaReady)'
    BY <1>4, <2>2, <2>4 DEF NoRepite, MoverAReady
  <2> QED
    BY <1>4, <2>5, NoRepiteQueda DEF MoverAReady, SinRepetir
<1>5. CASE TomarDeReady
  <2>1. NoRepite(Tail(listaReady))
    BY <1>5, EnColaSinCabeza DEF TypeOK, TiposColas, SinRepetir, TomarDeReady
  <2>2. NoRepite(listaReady)'
    BY <1>5, <2>1 DEF NoRepite, TomarDeReady
  <2> QED
    BY <1>5, <2>2, NoRepiteQueda DEF TomarDeReady, SinRepetir
<1>6. ASSUME NEW p \in Programas, VolverAReady(p) PROVE SinRepetir'
  <2>1. p \notin EnCola(listaReady)
    BY <1>0, <1>6, LugaresSon DEF Lugares, VolverAReady
  <2>2. NoRepite(Append(listaReady, p))
    <3> DEFINE T == 1..pidGeneral
    <3>1. p \in T /\ listaReady \in Seq(T)
      BY <1>6 DEF TypeOK, TiposColas, VolverAReady
    <3> HIDE DEF T
    <3> QED
      BY <2>1, <3>1, EnColaConUltimo DEF SinRepetir
  <2>3. NoRepite(listaReady)'
    BY <1>6, <2>2 DEF NoRepite, VolverAReady
  <2> QED
    BY <1>6, <2>3, NoRepiteQueda DEF VolverAReady, SinRepetir
<1>7. ASSUME NEW h \in Hilos, NEW p \in Programas, SacarDeExec(h, p) PROVE SinRepetir'
  <2>1. p \notin Sitio("saliente")
    BY <1>0, <1>7, LugaresSon DEF Lugares, SacarDeExec
  <2>2. \A g \in Hilos : salida[g] = "agregar" => saliente[g] # p
    BY <2>1, LugaresSon DEF Lugares
  <2>3. /\ salida \in [Hilos -> PasosSalida] /\ salida' = [salida EXCEPT ![h] = "agregar"]
        /\ saliente \in [Hilos -> 0..pidGeneral] /\ saliente' = [saliente EXCEPT ![h] = p]
    BY <1>7 DEF SacarDeExec, TypeOK, TiposSalida
  <2>4. SalientesDistintos'
    BY <2>2, <2>3 DEF SalientesDistintos, SinRepetir
  <2> QED
    BY <1>7, <2>4, NoRepiteQueda DEF SacarDeExec, SinRepetir
<1>8. ASSUME NEW h \in Hilos, AgregarAExit(h) PROVE SinRepetir'
  <2>1. /\ salida \in [Hilos -> PasosSalida] /\ salida' = [salida EXCEPT ![h] = "sumar"]
        /\ saliente \in [Hilos -> 0..pidGeneral]
        /\ saliente' = [saliente EXCEPT ![h] = Nadie] /\ salida[h] = "agregar"
    BY <1>8 DEF AgregarAExit, TypeOK, TiposSalida
  <2>2. SalientesDistintos'
    BY <2>1 DEF SalientesDistintos, SinRepetir
  <2>3. saliente[h] \in 1..pidGeneral
    BY <2>1, Recibidos
  <2>4. saliente[h] \in Sitio("saliente")
    BY <2>1, LugaresSon DEF Lugares
  <2>5. saliente[h] \notin EnCola(exitProcesos)
    BY <1>0, <2>4, LugaresSon DEF Lugares
  <2>6. NoRepite(Append(exitProcesos, saliente[h]))
    <3> DEFINE T == 1..pidGeneral
    <3>1. saliente[h] \in T /\ exitProcesos \in Seq(T)
      BY <2>3 DEF TypeOK, TiposColas
    <3> HIDE DEF T
    <3> QED
      BY <2>5, <3>1, EnColaConUltimo DEF SinRepetir
  <2>7. NoRepite(exitProcesos)'
    BY <1>8, <2>6 DEF NoRepite, AgregarAExit
  <2> QED
    BY <1>8, <2>2, <2>7, NoRepiteQueda DEF AgregarAExit, SinRepetir
<1>9. CASE SacarDeExit
  <2>1. NoRepite(Tail(exitProcesos))
    BY <1>9, EnColaSinCabeza DEF TypeOK, TiposColas, SinRepetir, SacarDeExit
  <2>2. NoRepite(exitProcesos)' /\ HiloExitLibre'
    BY <1>9, <2>1 DEF NoRepite, SacarDeExit, HiloExitLibre
  <2> QED
    BY <1>9, <2>2, NoRepiteQueda DEF SacarDeExit, SinRepetir
<1>10. CASE AvisarFin
  <2>1. HiloExitLibre'
    BY <1>10 DEF AvisarFin, HiloExitLibre
  <2> QED
    BY <1>10, <2>1, NoRepiteQueda DEF AvisarFin, SinRepetir
<1>11. CASE EsperarSalida \/ DestruirSegmentos
  <2>1. HiloExitLibre'
    BY <1>11 DEF EsperarSalida, DestruirSegmentos, HiloExitLibre, SinRepetir, TypeOK,
       TiposSalida
  <2> QED
    BY <1>11, <2>1, NoRepiteQueda DEF EsperarSalida, DestruirSegmentos, SinRepetir
<1>12. ASSUME NEW h \in Hilos, LiberarLugar(h) \/ PostExit(h) \/ PostLugar(h)
       PROVE  SinRepetir'
  <2>1. salida \in [Hilos -> PasosSalida]
    BY DEF TypeOK, TiposSalida
  <2>2. /\ \A g \in Hilos : salida'[g] = "agregar" <=> salida[g] = "agregar"
        /\ saliente' = saliente
    BY <1>12, <2>1 DEF LiberarLugar, PostExit, PostLugar
  <2>3. SalientesDistintos'
    BY <2>2 DEF SalientesDistintos, SinRepetir
  <2> QED
    BY <1>12, <2>3, NoRepiteQueda DEF LiberarLugar, PostExit, PostLugar, SinRepetir
<1>13. CASE PostNuevoPrograma \/ EsperarPrograma \/ CrearSegmento \/ DestruirRechazado
            \/ (SacarPrograma /\ lista_de_programas = <<>>) \/ DecidirPromocion
            \/ OcuparLugar \/ PostReady \/ AvisarRechazo \/ UNCHANGED vars
  BY <1>13, NoRepiteQueda DEF PostNuevoPrograma, EsperarPrograma, CrearSegmento,
     DestruirRechazado, SacarPrograma, DecidirPromocion, OcuparLugar, PostReady,
     AvisarRechazo, SinRepetir, vars
<1> QED
  BY <1>1, <1>2, <1>3, <1>4, <1>5, <1>6, <1>7, <1>8, <1>9, <1>10, <1>11, <1>12, <1>13,
     Pasos DEF SinMudanza

-----------------------------------------------------------------------------
(* NEW stays in order. *)

\* A program that was received has a weight.
LEMMA PesoNatural ==
  ASSUME TypeOK, NEW p \in 1..pidGeneral
  PROVE  /\ metadata[p] \in Metadatos
         /\ calcular_peso(p) \in Nat
         /\ metadata[p].segmentos \in 1..4
<1>1. metadata[p] \in Metadatos
  BY ElementOfSeq DEF TypeOK, TiposColas, pidGeneral
<1> QED
  BY <1>1, ParametrosPLP DEF calcular_peso, PesoDe

\* And keeps it while others arrive.
LEMMA PesoQueda ==
  ASSUME TypeOK, [Next]_vars, NEW p \in 1..pidGeneral
  PROVE  metadata'[p] = metadata[p] /\ calcular_peso(p)' = calcular_peso(p)
<1>1. metadata' = metadata \/ \E m \in Metadatos : metadata' = Append(metadata, m)
  BY DEF Next, planificar_programas, terminarPrograma, moverAExit, ventanilla, vars,
     AgregarPrograma, PostNuevoPrograma, EsperarPrograma, SacarPrograma, CrearSegmento,
     AceptarPrograma, DestruirRechazado, AvisarRechazo, DecidirPromocion, OcuparLugar,
     MoverAReady, PostReady, EsperarSalida, SacarDeExit, DestruirSegmentos, AvisarFin,
     TomarDeReady, VolverAReady, SacarDeExec, AgregarAExit, LiberarLugar, PostExit,
     PostLugar
<1>2. metadata'[p] = metadata[p]
  <2>1. metadata \in Seq(Metadatos) /\ p \in 1..Len(metadata)
    BY DEF TypeOK, TiposColas, pidGeneral
  <2>2. \A m \in Metadatos : Append(metadata, m)[p] = metadata[p]
    BY <2>1, ColaConUltimo
  <2>3. CASE metadata' = metadata
    BY <2>3
  <2>4. ASSUME NEW m \in Metadatos, metadata' = Append(metadata, m)
        PROVE  metadata'[p] = metadata[p]
    <3>1. metadata'[p] = Append(metadata, m)[p]
      BY Zenon, <2>4
    <3> QED
      BY <2>2, <3>1
  <2> QED
    BY <1>1, <2>3, <2>4
<1> QED
  BY <1>2 DEF calcular_peso

\* A new program is put after those that are no heavier: all came before it.
LEMMA OrdenInsertado ==
  ASSUME TypeOK, EnOrdenDeLlegada, NewOrdenada, AceptarPrograma
  PROVE  NewOrdenada'
<1> DEFINE e == plp.prog
           w(i) == calcular_peso(newProcesos[i])
<1>1. PICK k \in 0..Len(newProcesos) :
        /\ \A i \in 1..k : ordenador(newProcesos[i], e)
        /\ \A i \in (k + 1)..Len(newProcesos) : ~ordenador(newProcesos[i], e)
        /\ newProcesos' = Insertar(newProcesos, k, e)
  BY DEF AceptarPrograma
<1>2. /\ newProcesos \in Seq(1..pidGeneral) /\ Len(newProcesos) \in Nat
      /\ e \in 1..pidGeneral /\ pidGeneral \in Nat /\ e = Tomados
      /\ \A i \in 1..Len(newProcesos) : newProcesos[i] \in 1..pidGeneral
  BY LenProperties, ElementOfSeq, Recibidos
  DEF TypeOK, TiposColas, AceptarPrograma, PasosConPrograma, EnOrdenDeLlegada
<1>3. calcular_peso(e) \in Nat /\ \A i \in 1..Len(newProcesos) : w(i) \in Nat
  BY <1>2, PesoNatural
<1>4. \A i \in 1..Len(newProcesos) : newProcesos[i] < e
  BY <1>2 DEF EnOrdenDeLlegada, Pasado, AceptarPrograma, PasosConPrograma
<1>5. \A i \in 1..k : MasLiviano(newProcesos[i], e)
  BY <1>1, <1>2, <1>3, <1>4 DEF MasLiviano, ordenador
<1>6. \A i \in (k + 1)..Len(newProcesos) : MasLiviano(e, newProcesos[i])
  BY <1>1, <1>2, <1>3 DEF MasLiviano, ordenador
<1>7. /\ Len(newProcesos') = Len(newProcesos) + 1
      /\ \A i \in 1..Len(newProcesos') :
           newProcesos'[i] = IF i <= k THEN newProcesos[i]
                             ELSE IF i = k + 1 THEN e ELSE newProcesos[i - 1]
  <2>1. Len(newProcesos') = Len(newProcesos) + 1
    <3> DEFINE T == 1..pidGeneral
    <3>1. e \in T /\ newProcesos \in Seq(T)
      BY <1>2
    <3> HIDE DEF T, e
    <3> QED
      BY <1>1, <3>1, ColaConInsertado
  <2> QED
    BY <1>1, <1>2, <2>1 DEF Insertar
<1>8. ASSUME NEW i \in 1..Len(newProcesos'), NEW j \in 1..Len(newProcesos'), i < j
      PROVE  MasLiviano(newProcesos'[i], newProcesos'[j])
  <2> HIDE DEF e
  <2>1. CASE i <= k /\ j <= k
    <3>1. i \in 1..Len(newProcesos) /\ j \in 1..Len(newProcesos)
      BY <1>2, <1>8, <2>1
    <3>2. newProcesos'[i] = newProcesos[i] /\ newProcesos'[j] = newProcesos[j]
      BY <1>7, <2>1
    <3> QED
      BY <1>8, <3>1, <3>2 DEF NewOrdenada
  <2>2. CASE i <= k /\ j = k + 1
    <3>1. i \in 1..k
      BY <2>2
    <3>2. newProcesos'[i] = newProcesos[i] /\ newProcesos'[j] = e
      BY <1>2, <1>7, <2>2
    <3> QED
      BY <1>5, <3>1, <3>2
  <2>3. CASE i <= k /\ j > k + 1
    <3>1. i \in 1..Len(newProcesos) /\ j - 1 \in 1..Len(newProcesos) /\ i < j - 1
      BY <1>2, <1>7, <1>8, <2>3
    <3>2. newProcesos'[i] = newProcesos[i] /\ newProcesos'[j] = newProcesos[j - 1]
      BY <1>7, <2>3
    <3> QED
      BY <3>1, <3>2 DEF NewOrdenada
  <2>4. CASE i = k + 1
    <3>1. j - 1 \in (k + 1)..Len(newProcesos)
      BY <1>2, <1>7, <1>8, <2>4
    <3>2. newProcesos'[i] = e /\ newProcesos'[j] = newProcesos[j - 1]
      BY <1>7, <1>8, <2>4
    <3> QED
      BY <1>6, <3>1, <3>2
  <2>5. CASE i > k + 1
    <3>1. /\ i - 1 \in 1..Len(newProcesos) /\ j - 1 \in 1..Len(newProcesos)
          /\ i - 1 < j - 1
      BY <1>2, <1>7, <1>8, <2>5
    <3>2. newProcesos'[i] = newProcesos[i - 1] /\ newProcesos'[j] = newProcesos[j - 1]
      BY <1>7, <1>8, <2>5
    <3> QED
      BY <3>1, <3>2 DEF NewOrdenada
  <2> QED
    BY <1>2, <1>7, <1>8, <2>1, <2>2, <2>3, <2>4, <2>5
<1>9. metadata' = metadata
  BY DEF AceptarPrograma, ventanilla
<1> QED
  BY <1>8, <1>9 DEF NewOrdenada, MasLiviano, calcular_peso

\* The list is in order after every step.
LEMMA OrdenDeNewSigue ==
  ASSUME TypeOK, PromocionPosible, EnOrdenDeLlegada, NewOrdenada, [Next]_vars
  PROVE  NewOrdenada'
<1>1. \A i \in 1..Len(newProcesos) : newProcesos[i] \in 1..pidGeneral
  BY ElementOfSeq DEF TypeOK, TiposColas

<1>2. ASSUME newProcesos' = newProcesos PROVE NewOrdenada'
  BY <1>1, <1>2, PesoQueda DEF NewOrdenada, MasLiviano, calcular_peso
<1>3. CASE AceptarPrograma
  BY <1>3, OrdenInsertado
<1>4. CASE MoverAReady
  <2>1. newProcesos # <<>> /\ newProcesos \in Seq(1..pidGeneral)
    BY <1>4 DEF MoverAReady, PromocionPosible, TypeOK, TiposColas
  <2>2. /\ Len(newProcesos) \in Nat /\ newProcesos' = Tail(newProcesos)
        /\ Len(newProcesos') = Len(newProcesos) - 1
        /\ \A i \in 1..Len(newProcesos') :
             /\ i + 1 \in 1..Len(newProcesos)
             /\ newProcesos'[i] = newProcesos[i + 1]
    <3>1. newProcesos' = Tail(newProcesos)
      BY <1>4 DEF MoverAReady
    <3> QED
      BY <2>1, <3>1, ColaSinCabeza
  <2>3. metadata' = metadata
    BY <1>4 DEF MoverAReady, ventanilla
  <2>4. \A i, j \in 1..Len(newProcesos') : i < j => i + 1 < j + 1
    BY <2>2
  <2> QED
    BY <2>2, <2>3, <2>4 DEF NewOrdenada, MasLiviano, calcular_peso
<1>5. \/ newProcesos' = newProcesos \/ AceptarPrograma \/ MoverAReady
  BY DEF Next, planificar_programas, terminarPrograma, moverAExit, vars,
     AgregarPrograma, PostNuevoPrograma, EsperarPrograma, SacarPrograma, CrearSegmento,
     DestruirRechazado, AvisarRechazo, DecidirPromocion, OcuparLugar,
     PostReady, EsperarSalida, SacarDeExit, DestruirSegmentos, AvisarFin,
     TomarDeReady, VolverAReady, SacarDeExec, AgregarAExit, LiberarLugar, PostExit,
     PostLugar
<1> QED
  BY <1>2, <1>3, <1>4, <1>5

-----------------------------------------------------------------------------
(* The segments. *)

\* A program is at the place it was moved to, and at no other.
LEMMA SoloAhi ==
  ASSUME TypeOK', UnSitio', NEW b \in Sitios, NEW p \in Sitio(b)'
  PROVE  /\ p \in Programas /\ ~(p > pidGeneral)'
         /\ \A k \in {"lista", "plp", "new", "ready", "pcp", "saliente", "exit",
                      "hiloExit", "contestado"} : p \in Sitio(k)' <=> k = b
<1>1. p \in (1..pidGeneral)'
  BY DEF UnSitio
<1>2. pidGeneral' \in Nat /\ (1..pidGeneral)' \subseteq Programas
  <2>1. (metadata \in Seq(Metadatos) /\ pidGeneral <= MaxProgramas)'
    BY DEF TypeOK, TiposColas
  <2> QED
    BY <2>1, LenProperties, ParametrosPLP DEF pidGeneral, Programas
<1>3. \A k \in Sitios : p \in Sitio(k)' <=> k = b
  BY DEF UnSitio
<1> QED
  BY <1>1, <1>2, <1>3 DEF Sitios

\* A program that a step leaves at its place, with its segments, is as it was.
LEMMA SegmentosDeQuieto ==
  ASSUME TypeOK, UnSitio, [Next]_vars, NEW q \in Programas, SegmentosDe(q),
         \A k \in Sitios : q \in Sitio(k)' <=> q \in Sitio(k),
         (q > pidGeneral)' => q > pidGeneral,
         segmentos'[q] = segmentos[q],
         q \in Sitio("plp") /\ plp'.paso = "avisar" => plp.paso = "avisar",
         q \in Sitio("hiloExit") /\ hiloExit'.paso = "avisar" => hiloExit.paso = "avisar"
  PROVE  SegmentosDe(q)'
<1>1. {"lista", "plp", "new", "ready", "pcp", "hiloExit", "contestado"} \subseteq Sitios
  BY DEF Sitios
<1>2. q \in Sitio("new") \cup Sitio("ready") \cup Sitio("pcp") => metadata'[q] = metadata[q]
  BY <1>1, PesoQueda DEF UnSitio
<1> QED
  BY <1>1, <1>2 DEF SegmentosDe

\* What the UMV holds for a program agrees with where it is, after every step.
LEMMA SegmentosSiguen ==
  ASSUME TypeOK, TypeOK', PromocionPosible, UnSitio, UnSitio', SinRepetir, Segmentos,
         [Next]_vars
  PROVE  Segmentos'
<1> USE DEF ventanilla, mundoPCP, colaExit, moviendo
<1> SUFFICES ASSUME NEW q \in Programas PROVE SegmentosDe(q)'
  BY DEF Segmentos
<1>0. /\ {"lista", "plp", "new", "ready", "pcp", "saliente", "exit", "hiloExit",
          "contestado"} \subseteq Sitios
      /\ SegmentosDe(q)
      /\ segmentos \in [Programas -> 0..4]
      /\ 1..pidGeneral \subseteq Programas /\ pidGeneral \in Nat
  BY Recibidos DEF Segmentos, Sitios, TypeOK, TiposUMV
<1>1. CASE AgregarPrograma
  <2>1. /\ pidGeneral' = pidGeneral + 1
        /\ \A k \in Sitios : Sitio(k)' = IF k = "lista" THEN Sitio(k) \cup {pidGeneral + 1}
                                         ELSE Sitio(k)
        /\ segmentos' = segmentos /\ plp' = plp /\ hiloExit' = hiloExit
    BY <1>1, SitiosAgregar DEF AgregarPrograma
  <2>2. CASE q = pidGeneral + 1
    <3>1. q \in Sitio("lista")' /\ segmentos'[q] = 0
      BY <1>0, <2>1, <2>2 DEF SegmentosDe
    <3> QED
      BY <1>0, <3>1, SoloAhi DEF SegmentosDe
  <2>3. CASE q # pidGeneral + 1
    BY <1>0, <2>1, <2>3, SegmentosDeQuieto DEF Programas
  <2> QED
    BY <2>2, <2>3
<1>2. CASE SacarPrograma /\ lista_de_programas # <<>>
  <2>1. /\ Head(lista_de_programas) \in Sitio("lista")
        /\ Muda("lista", "plp", Head(lista_de_programas))
        /\ segmentos' = segmentos /\ hiloExit' = hiloExit /\ plp'.paso = "crear"
        /\ pidGeneral' = pidGeneral
    BY <1>2, SitiosSacar DEF SacarPrograma, pidGeneral
  <2>2. CASE q = Head(lista_de_programas)
    <3>1. q \in Sitio("plp")'
      BY <1>0, <2>1, <2>2 DEF Muda
    <3> QED
      BY <1>0, <2>1, <3>1, SoloAhi DEF SegmentosDe
  <2>3. CASE q # Head(lista_de_programas)
    BY <1>0, <2>1, <2>3, SegmentosDeQuieto DEF Muda
  <2> QED
    BY <2>2, <2>3
<1>3. CASE AceptarPrograma
  <2>1. /\ plp.prog \in Sitio("plp") /\ Muda("plp", "new", plp.prog)
        /\ segmentos' = segmentos /\ hiloExit' = hiloExit /\ plp'.paso = "promover"
        /\ metadata' = metadata /\ segmentos[plp.prog] = metadata[plp.prog].segmentos
        /\ pidGeneral' = pidGeneral
    BY <1>3, SitiosAceptar DEF AceptarPrograma, pidGeneral
  <2>2. CASE q = plp.prog
    <3>1. q \in Sitio("new")'
      BY <1>0, <2>1, <2>2 DEF Muda
    <3> QED
      BY <1>0, <2>1, <2>2, <3>1, SoloAhi DEF SegmentosDe
  <2>3. CASE q # plp.prog
    BY <1>0, <2>1, <2>3, SegmentosDeQuieto DEF Muda
  <2> QED
    BY <2>2, <2>3
<1>4. CASE AvisarRechazo
  <2>1. /\ plp.prog \in Sitio("plp") /\ Muda("plp", "contestado", plp.prog)
        /\ segmentos' = segmentos /\ hiloExit' = hiloExit /\ plp'.paso = "promover"
        /\ plp.paso = "avisar" /\ pidGeneral' = pidGeneral
    BY <1>4, SitiosRechazo DEF AvisarRechazo, pidGeneral
  <2>2. CASE q = plp.prog
    <3>1. q \in Sitio("contestado")' /\ segmentos'[q] = 0
      BY <1>0, <2>1, <2>2 DEF Muda, SegmentosDe
    <3> QED
      BY <1>0, <3>1, SoloAhi DEF SegmentosDe
  <2>3. CASE q # plp.prog
    BY <1>0, <2>1, <2>3, SegmentosDeQuieto DEF Muda
  <2> QED
    BY <2>2, <2>3
<1>5. CASE MoverAReady
  <2>1. /\ Head(newProcesos) \in Sitio("new") /\ Muda("new", "ready", Head(newProcesos))
        /\ segmentos' = segmentos /\ pidGeneral' = pidGeneral
        /\ hiloExit' = hiloExit /\ plp'.paso # "avisar" /\ metadata' = metadata
    BY <1>5, SitiosMover DEF MoverAReady, pidGeneral, TypeOK, TiposPLP
  <2>2. CASE q = Head(newProcesos)
    <3>1. q \in Sitio("ready")' /\ segmentos'[q] = metadata'[q].segmentos
      BY <1>0, <2>1, <2>2 DEF Muda, SegmentosDe
    <3> QED
      BY <1>0, <2>1, <3>1, SoloAhi DEF SegmentosDe
  <2>3. CASE q # Head(newProcesos)
    BY <1>0, <2>1, <2>3, SegmentosDeQuieto DEF Muda
  <2> QED
    BY <2>2, <2>3
<1>6. CASE TomarDeReady
  <2>1. /\ Head(listaReady) \in Sitio("ready") /\ Muda("ready", "pcp", Head(listaReady))
        /\ segmentos' = segmentos /\ pidGeneral' = pidGeneral
        /\ hiloExit' = hiloExit /\ plp' = plp /\ metadata' = metadata
    BY <1>6, SitiosTomar DEF TomarDeReady, pidGeneral
  <2>2. CASE q = Head(listaReady)
    <3>1. q \in Sitio("pcp")' /\ segmentos'[q] = metadata'[q].segmentos
      BY <1>0, <2>1, <2>2 DEF Muda, SegmentosDe
    <3> QED
      BY <1>0, <2>1, <3>1, SoloAhi DEF SegmentosDe
  <2>3. CASE q # Head(listaReady)
    BY <1>0, <2>1, <2>3, SegmentosDeQuieto DEF Muda
  <2> QED
    BY <2>2, <2>3
<1>7. ASSUME NEW p \in Programas, VolverAReady(p) PROVE SegmentosDe(q)'
  <2>1. /\ p \in Sitio("pcp") /\ Muda("pcp", "ready", p)
        /\ segmentos' = segmentos /\ pidGeneral' = pidGeneral
        /\ hiloExit' = hiloExit /\ plp' = plp /\ metadata' = metadata
    BY <1>7, SitiosVolver DEF VolverAReady, pidGeneral
  <2>2. CASE q = p
    <3>1. q \in Sitio("ready")' /\ segmentos'[q] = metadata'[q].segmentos
      BY <1>0, <2>1, <2>2 DEF Muda, SegmentosDe
    <3> QED
      BY <1>0, <2>1, <3>1, SoloAhi DEF SegmentosDe
  <2>3. CASE q # p
    BY <1>0, <2>1, <2>3, SegmentosDeQuieto DEF Muda
  <2> QED
    BY <2>2, <2>3
<1>8. ASSUME NEW h \in Hilos, NEW p \in Programas, SacarDeExec(h, p)
      PROVE  SegmentosDe(q)'
  <2>1. /\ p \in Sitio("pcp") /\ Muda("pcp", "saliente", p)
        /\ segmentos' = segmentos /\ pidGeneral' = pidGeneral
        /\ hiloExit' = hiloExit /\ plp' = plp
    BY <1>8, SitiosSacarDeExec DEF SacarDeExec, pidGeneral
  <2>2. CASE q = p
    <3>1. q \in Sitio("saliente")'
      BY <1>0, <2>1, <2>2 DEF Muda, SegmentosDe
    <3> QED
      BY <1>0, <2>1, <3>1, SoloAhi DEF SegmentosDe
  <2>3. CASE q # p
    BY <1>0, <2>1, <2>3, SegmentosDeQuieto DEF Muda
  <2> QED
    BY <2>2, <2>3
<1>9. ASSUME NEW h \in Hilos, AgregarAExit(h) PROVE SegmentosDe(q)'
  <2>1. /\ saliente[h] \in Sitio("saliente") /\ Muda("saliente", "exit", saliente[h])
        /\ segmentos' = segmentos /\ pidGeneral' = pidGeneral
        /\ hiloExit' = hiloExit /\ plp' = plp
    BY <1>9, SitiosAgregarAExit DEF AgregarAExit, pidGeneral
  <2>2. CASE q = saliente[h]
    <3>1. q \in Sitio("exit")'
      BY <1>0, <2>1, <2>2 DEF Muda, SegmentosDe
    <3> QED
      BY <1>0, <2>1, <3>1, SoloAhi DEF SegmentosDe
  <2>3. CASE q # saliente[h]
    BY <1>0, <2>1, <2>3, SegmentosDeQuieto DEF Muda
  <2> QED
    BY <2>2, <2>3
<1>10. CASE SacarDeExit
  <2>1. /\ Head(exitProcesos) \in Sitio("exit") /\ Muda("exit", "hiloExit", Head(exitProcesos))
        /\ segmentos' = segmentos /\ pidGeneral' = pidGeneral
        /\ hiloExit'.paso = "destruir" /\ plp' = plp
    BY <1>10, SitiosSacarDeExit DEF SacarDeExit, pidGeneral
  <2>2. CASE q = Head(exitProcesos)
    <3>1. q \in Sitio("hiloExit")'
      BY <1>0, <2>1, <2>2 DEF Muda, SegmentosDe
    <3> QED
      BY <1>0, <2>1, <3>1, SoloAhi DEF SegmentosDe
  <2>3. CASE q # Head(exitProcesos)
    BY <1>0, <2>1, <2>3, SegmentosDeQuieto DEF Muda
  <2> QED
    BY <2>2, <2>3
<1>11. CASE AvisarFin
  <2>1. /\ hiloExit.prog \in Sitio("hiloExit") /\ Muda("hiloExit", "contestado", hiloExit.prog)
        /\ segmentos' = segmentos /\ pidGeneral' = pidGeneral
        /\ hiloExit.paso = "avisar" /\ hiloExit'.paso = "esperar" /\ plp' = plp
    BY <1>11, SitiosFin DEF AvisarFin, pidGeneral
  <2>2. CASE q = hiloExit.prog
    <3>1. q \in Sitio("contestado")' /\ segmentos'[q] = 0
      BY <1>0, <2>1, <2>2 DEF Muda, SegmentosDe
    <3> QED
      BY <1>0, <2>1, <3>1, SoloAhi DEF SegmentosDe
  <2>3. CASE q # hiloExit.prog
    BY <1>0, <2>1, <2>3, SegmentosDeQuieto DEF Muda
  <2> QED
    BY <2>2, <2>3
<1>12. CASE CrearSegmento \/ DestruirRechazado
  <2>1. /\ \A k \in Sitios : Sitio(k)' = Sitio(k)
        /\ pidGeneral' = pidGeneral
    BY <1>12, SitiosQuietos DEF SinMudanza
  <2>2. /\ plp.paso \in {"crear", "destruir"} /\ hiloExit' = hiloExit
        /\ plp.prog \in Sitio("plp") /\ Sitio("plp") = {plp.prog}
    BY <1>12, LugaresSon DEF CrearSegmento, DestruirRechazado, Lugares, PasosConPrograma
  <2>3. CASE q = plp.prog
    <3>1. q \in Sitio("plp")'
      BY <1>0, <2>1, <2>2, <2>3
    <3>2. plp'.paso = "avisar" => segmentos'[q] = 0
      BY <1>0, <1>12, <2>3 DEF CrearSegmento, DestruirRechazado, TypeOK, TiposPLP
    <3> QED
      BY <1>0, <3>1, <3>2, SoloAhi DEF SegmentosDe
  <2>4. CASE q # plp.prog
    <3>1. segmentos'[q] = segmentos[q] /\ q \notin Sitio("plp")
      BY <1>0, <1>12, <2>2, <2>4 DEF CrearSegmento, DestruirRechazado
    <3> QED
      BY <1>0, <2>1, <2>2, <3>1, SegmentosDeQuieto
  <2> QED
    BY <2>3, <2>4
<1>13. CASE DestruirSegmentos
  <2>1. /\ \A k \in Sitios : Sitio(k)' = Sitio(k)
        /\ pidGeneral' = pidGeneral
    BY <1>13, SitiosQuietos DEF SinMudanza
  <2>2. /\ plp' = plp /\ hiloExit.prog \in Sitio("hiloExit")
        /\ Sitio("hiloExit") = {hiloExit.prog}
    BY <1>13, LugaresSon DEF DestruirSegmentos, Lugares
  <2>3. CASE q = hiloExit.prog
    <3>1. q \in Sitio("hiloExit")' /\ segmentos'[q] = 0
      BY <1>0, <1>13, <2>1, <2>2, <2>3 DEF DestruirSegmentos
    <3> QED
      BY <1>0, <3>1, SoloAhi DEF SegmentosDe
  <2>4. CASE q # hiloExit.prog
    <3>1. segmentos'[q] = segmentos[q] /\ q \notin Sitio("hiloExit")
      BY <1>0, <1>13, <2>2, <2>4 DEF DestruirSegmentos
    <3> QED
      BY <1>0, <2>1, <2>2, <3>1, SegmentosDeQuieto
  <2> QED
    BY <2>3, <2>4
<1>14. CASE SinMudanza /\ ~CrearSegmento /\ ~DestruirRechazado /\ ~DestruirSegmentos
  <2>1. /\ \A k \in Sitios : Sitio(k)' = Sitio(k)
        /\ pidGeneral' = pidGeneral
    BY <1>14, SitiosQuietos
  <2>2. /\ segmentos' = segmentos
        /\ plp'.paso = "avisar" => plp.paso = "avisar"
        /\ hiloExit'.paso = "avisar" => hiloExit.paso = "avisar"
    BY <1>14 DEF SinMudanza, PostNuevoPrograma, EsperarPrograma, SacarPrograma,
       DecidirPromocion, OcuparLugar, PostReady, EsperarSalida, LiberarLugar, PostExit,
       PostLugar, vars, TypeOK, TiposPLP, TiposSalida
  <2> QED
    BY <1>0, <2>1, <2>2, SegmentosDeQuieto
<1> QED
  BY <1>1, <1>2, <1>3, <1>4, <1>5, <1>6, <1>7, <1>8, <1>9, <1>10, <1>11, <1>12, <1>13,
     <1>14, Pasos

-----------------------------------------------------------------------------
(* The inductive invariant, and the segments of every program. *)

\* The kernel starts with no program anywhere.
LEMMA RefinaInicial == Init => InvRefina
<1> SUFFICES ASSUME Init PROVE InvRefina
  OBVIOUS
<1>1. pidGeneral = 0 /\ \A k \in Sitios : Sitio(k) = {}
  <2>1. pidGeneral = 0 /\ EnCola(<<>>) = {}
    BY DEF Init, pidGeneral, EnCola
  <2> QED
    BY <2>1, LugaresSon DEF Init, Lugares, Sitios, PasosConPrograma
<1>2. UnSitio
  BY <1>1 DEF UnSitio
<1>3. SinRepetir /\ NewOrdenada
  BY DEF Init, SinRepetir, NoRepite, SalientesDistintos, HiloExitLibre, NewOrdenada
<1>4. Segmentos
  BY <1>1 DEF Segmentos, SegmentosDe, Init, Sitios
<1> QED
  BY <1>2, <1>3, <1>4, InvInicial DEF InvRefina

\* Where every program is, the order of NEW and the segments reserved stay
\* consistent, whatever the threads interleave.
THEOREM InvarianteRefina == Spec => []InvRefina
<1>1. InvPLP /\ [Next]_vars => InvPLP'
  BY TipoConservado, PromocionConservada, OrdenConservado, LugarConservado,
     LugaresConservados, PostsSiguenAlcanzando, ExitSigueContado
  DEF InvPLP
<1>2. InvRefina /\ [Next]_vars => InvRefina'
  <2> SUFFICES ASSUME InvRefina, [Next]_vars PROVE InvRefina'
    OBVIOUS
  <2>1. InvPLP' /\ TypeOK' /\ TypeOK /\ PromocionPosible /\ EnOrdenDeLlegada
    BY <1>1 DEF InvRefina, InvPLP
  <2>2. UnSitio' /\ SinRepetir' /\ NewOrdenada'
    BY <2>1, UnSitioSigue, SinRepetirSigue, OrdenDeNewSigue DEF InvRefina
  <2>3. Segmentos'
    BY <2>1, <2>2, SegmentosSiguen DEF InvRefina
  <2> QED
    BY <2>1, <2>2, <2>3 DEF InvRefina
<1> QED
  BY RefinaInicial, <1>2, PTL DEF Spec

\* A program in NEW, READY or running has all its segments; one that was answered
\* has none left in the UMV and is in no queue.
THEOREM SegmentosSiempreEnRegla == Spec => []SegmentosEnRegla
<1>1. InvRefina => SegmentosEnRegla
  <2> SUFFICES ASSUME InvRefina PROVE SegmentosEnRegla
    OBVIOUS
  <2>1. /\ UnSitio /\ {"new", "ready", "pcp", "exit", "contestado"} \subseteq Sitios
        /\ \A p \in Programas : SegmentosDe(p)
        /\ 1..pidGeneral \subseteq Programas
    BY Recibidos DEF InvRefina, InvPLP, Segmentos, Sitios
  <2>2. ASSUME NEW p \in Aceptados PROVE segmentos[p] = metadata[p].segmentos
    <3>1. p \in Sitio("new") \cup Sitio("ready") \cup Sitio("pcp")
      BY <2>2, LugaresSon DEF Aceptados, Lugares
    <3>2. p \in Programas
      BY <2>1, <3>1 DEF UnSitio
    <3> QED
      BY <2>1, <3>1, <3>2 DEF SegmentosDe
  <2>3. ASSUME NEW p \in Programas, respuesta[p] # "ninguna"
        PROVE  segmentos[p] = 0 /\ p \notin Aceptados \cup EnCola(exitProcesos)
    <3>1. p \in Sitio("contestado")
      BY <2>3, LugaresSon DEF Lugares
    <3>2. \A k \in {"new", "ready", "pcp", "exit"} : p \notin Sitio(k)
      BY <2>1, <3>1 DEF UnSitio
    <3>3. p \notin Aceptados \cup EnCola(exitProcesos)
      BY <3>2, LugaresSon DEF Aceptados, Lugares
    <3> QED
      BY <2>1, <3>1, <3>3 DEF SegmentosDe
  <2> QED
    BY <2>2, <2>3 DEF SegmentosEnRegla
<1> QED
  BY <1>1, InvarianteRefina, PTL

-----------------------------------------------------------------------------
(* The stage of a program, by where it is. *)

\* The head of NEW counts as admitted once its place is taken.
PorMover(p) == plp.paso = "mover" /\ p = Head(newProcesos)

Etapas ==
  \A p \in Programas :
    /\ p > pidGeneral => Etapa(p) = "afuera"
    /\ p \in Sitio("lista") \cup Sitio("plp") => Etapa(p) = "recibido"
    /\ p \in Sitio("new") => Etapa(p) = IF PorMover(p) THEN "admitido" ELSE "nuevo"
    /\ p \in Sitio("ready") \cup Sitio("pcp") \cup Sitio("saliente") =>
         Etapa(p) = "admitido"
    /\ p \in Sitio("exit") \cup Sitio("hiloExit") => Etapa(p) = "saliendo"
    /\ p \in Sitio("contestado") =>
         Etapa(p) = IF respuesta[p] = "Programa rechazado" THEN "rechazado"
                    ELSE "terminado"

\* The refinement mapping gives each program the stage of its place.
LEMMA EtapasSon == TypeOK /\ UnSitio /\ SinRepetir => Etapas
<1> SUFFICES ASSUME TypeOK, UnSitio, SinRepetir, NEW p \in Programas
             PROVE  /\ p > pidGeneral => Etapa(p) = "afuera"
                    /\ p \in Sitio("lista") \cup Sitio("plp") => Etapa(p) = "recibido"
                    /\ p \in Sitio("new") =>
                         Etapa(p) = IF PorMover(p) THEN "admitido" ELSE "nuevo"
                    /\ p \in Sitio("ready") \cup Sitio("pcp") \cup Sitio("saliente") =>
                         Etapa(p) = "admitido"
                    /\ p \in Sitio("exit") \cup Sitio("hiloExit") => Etapa(p) = "saliendo"
                    /\ p \in Sitio("contestado") =>
                         Etapa(p) = IF respuesta[p] = "Programa rechazado" THEN "rechazado"
                                    ELSE "terminado"
  BY DEF Etapas
<1>0. /\ \A k, l \in Sitios : p \in Sitio(k) /\ p \in Sitio(l) => k = l
      /\ \A k \in Sitios : p \in Sitio(k) => ~(p > pidGeneral)
      /\ {"lista", "plp", "new", "ready", "pcp", "saliente", "exit", "hiloExit",
          "contestado"} \subseteq Sitios
      /\ p # Nadie
  BY Recibidos DEF UnSitio, Sitios, Programas, Nadie
<1>1. /\ p \in Sitio("lista") <=> p \in EnCola(lista_de_programas)
      /\ p \in Sitio("plp") <=> plp.paso \in PasosConPrograma /\ plp.prog = p
      /\ p \in Sitio("new") <=> p \in EnCola(newProcesos)
      /\ p \in Sitio("exit") <=> p \in EnCola(exitProcesos)
      /\ p \in Sitio("hiloExit") <=> hiloExit.prog = p
      /\ p \in Sitio("contestado") <=> respuesta[p] # "ninguna"
      /\ respuesta[p] \in {"ninguna", "Programa rechazado", "Termino la ejecucion"}
  BY <1>0, LugaresSon DEF Lugares, SinRepetir, HiloExitLibre, TypeOK, TiposUMV,
     TiposSalida, Respuestas
<1>2. p > pidGeneral => Etapa(p) = "afuera"
  BY <1>0, <1>1 DEF Etapa
<1>3. p \in Sitio("contestado") =>
        Etapa(p) = IF respuesta[p] = "Programa rechazado" THEN "rechazado" ELSE "terminado"
  BY <1>0, <1>1 DEF Etapa
<1>4. p \in Sitio("lista") \cup Sitio("plp") => Etapa(p) = "recibido"
  BY <1>0, <1>1 DEF Etapa
<1>5. p \in Sitio("new") => Etapa(p) = IF PorMover(p) THEN "admitido" ELSE "nuevo"
  BY <1>0, <1>1 DEF Etapa, PorMover
<1>6. p \in Sitio("exit") \cup Sitio("hiloExit") => Etapa(p) = "saliendo"
  BY <1>0, <1>1 DEF Etapa
<1>7. p \in Sitio("ready") \cup Sitio("pcp") \cup Sitio("saliente") => Etapa(p) = "admitido"
  BY <1>0, <1>1 DEF Etapa
<1> QED
  BY <1>2, <1>3, <1>4, <1>5, <1>6, <1>7

\* And so it does after a step.
LEMMA EtapasSonLuego ==
  ASSUME (TypeOK /\ UnSitio /\ SinRepetir)'
  PROVE  Etapas'
BY EtapasSon, PTL

-----------------------------------------------------------------------------
(* The places in use are at least the programs admitted. *)

\* A queue holds no more programs than its length.
LEMMA TamanioCola ==
  ASSUME NEW T, NEW s \in Seq(T)
  PROVE  /\ IsFiniteSet(EnCola(s))
         /\ Cardinality(EnCola(s)) \in Nat
         /\ Cardinality(EnCola(s)) <= Len(s)
<1> DEFINE f == [i \in 1..Len(s) |-> s[i]]
<1>1. Len(s) \in Nat
  BY LenProperties
<1>2. f \in Surjection(1..Len(s), EnCola(s))
  BY DEF Surjection, EnCola
<1>3. ExistsSurjection(1..Len(s), EnCola(s))
  BY <1>2 DEF ExistsSurjection
<1> QED
  BY <1>1, <1>3, FS_NatSurjection, FS_SurjCardinalityBound, FS_CardinalityType

\* A function has no more values on a finite set than the set has elements.
LEMMA TamanioImagen ==
  ASSUME NEW S, IsFiniteSet(S), NEW f
  PROVE  /\ IsFiniteSet({f[x] : x \in S})
         /\ Cardinality({f[x] : x \in S}) \in Nat
         /\ Cardinality({f[x] : x \in S}) <= Cardinality(S)
<1> DEFINE T == {f[x] : x \in S}
           g == [x \in S |-> f[x]]
<1>1. g \in Surjection(S, T)
  BY DEF Surjection
<1>2. IsFiniteSet(T) /\ Cardinality(T) <= Cardinality(S)
  <2> HIDE DEF g, T
  <2> QED
    BY <1>1, FS_Surjection
<1> QED
  BY <1>2, FS_CardinalityType

\* What a union of two finite sets has at most.
LEMMA TamanioUnion ==
  ASSUME NEW S, IsFiniteSet(S), NEW T, IsFiniteSet(T)
  PROVE  /\ IsFiniteSet(S \cup T)
         /\ Cardinality(S \cup T) \in Nat
         /\ Cardinality(S \cup T) <= Cardinality(S) + Cardinality(T)
<1>1. IsFiniteSet(S \cap T) /\ Cardinality(S \cap T) \in Nat
  BY FS_Intersection, FS_CardinalityType
<1>2. /\ Cardinality(S) \in Nat /\ Cardinality(T) \in Nat
      /\ Cardinality(S \cup T) = Cardinality(S) + Cardinality(T) - Cardinality(S \cap T)
      /\ IsFiniteSet(S \cup T)
  BY FS_Union, FS_CardinalityType
<1>3. Cardinality(S \cup T) \in Nat
  BY <1>2, FS_CardinalityType
<1> QED
  BY <1>1, <1>2, <1>3

Admitidos == {p \in Programas : Etapa(p) = "admitido"}

\* A program counts as admitted for the place taken for it, in READY, in the
\* PCP or in the hands of a thread: never more than those.
LEMMA AdmitidosCaben ==
  ASSUME TypeOK, UnSitio, Etapas
  PROVE  /\ Cardinality(Admitidos) \in Nat
         /\ Cardinality(Admitidos) <= Uno(plp.paso = "mover") + Len(listaReady)
                                      + Cardinality(enPCP) + Cuenta({"agregar"})
<1> DEFINE M == IF plp.paso = "mover" THEN {Head(newProcesos)} ELSE {}
           H == {g \in Hilos : salida[g] = "agregar"}
           R == EnCola(listaReady)
           S == {saliente[h] : h \in H}
<1>1. Admitidos \subseteq ((M \cup R) \cup enPCP) \cup S
  <2> SUFFICES ASSUME NEW p \in Programas, Etapa(p) = "admitido"
               PROVE  p \in ((M \cup R) \cup enPCP) \cup S
    BY DEF Admitidos
  <2>1. p > pidGeneral \/ \E k \in Sitios : p \in Sitio(k)
    BY Recibidos DEF UnSitio, Programas
  <2>2. \/ p \in Sitio("new") /\ PorMover(p)
        \/ p \in Sitio("ready") \/ p \in Sitio("pcp") \/ p \in Sitio("saliente")
    BY <2>1 DEF Etapas, Sitios
  <2> QED
    BY <2>2, LugaresSon DEF PorMover, Lugares
<1>2. /\ IsFiniteSet(M) /\ Cardinality(M) = Uno(plp.paso = "mover")
  BY FS_EmptySet, FS_Singleton DEF Uno
<1>3. IsFiniteSet(R) /\ Cardinality(R) \in Nat /\ Cardinality(R) <= Len(listaReady)
  BY TamanioCola DEF TypeOK, TiposColas
<1>4. IsFiniteSet(enPCP) /\ Cardinality(enPCP) \in Nat
  BY EnPCPFinito, FS_CardinalityType DEF TypeOK, TiposColas
<1>5. IsFiniteSet(S) /\ Cardinality(S) \in Nat /\ Cardinality(S) <= Cuenta({"agregar"})
  <2>1. IsFiniteSet(H) /\ Cuenta({"agregar"}) = Cardinality(H)
    <3>1. IsFiniteSet(H)
      BY ParametrosPLP, FS_Subset
    <3>2. H = {h \in Hilos : salida[h] \in {"agregar"}}
      OBVIOUS
    <3> QED
      BY <3>1, <3>2 DEF Cuenta
  <2> QED
    BY <2>1, TamanioImagen
<1>6. Len(listaReady) \in Nat /\ Cuenta({"agregar"}) \in Nat
  BY LenProperties, CuentaTipo DEF TypeOK, TiposColas
<1> HIDE DEF M, R, S, H
<1>7. /\ IsFiniteSet(M \cup R) /\ Cardinality(M \cup R) \in Nat
      /\ Cardinality(M \cup R) <= Cardinality(M) + Cardinality(R)
  BY <1>2, <1>3, TamanioUnion
<1>8. /\ IsFiniteSet((M \cup R) \cup enPCP) /\ Cardinality((M \cup R) \cup enPCP) \in Nat
      /\ Cardinality((M \cup R) \cup enPCP) <= Cardinality(M \cup R) + Cardinality(enPCP)
  BY <1>4, <1>7, TamanioUnion
<1>9. /\ IsFiniteSet(((M \cup R) \cup enPCP) \cup S)
      /\ Cardinality(((M \cup R) \cup enPCP) \cup S) \in Nat
      /\ Cardinality(((M \cup R) \cup enPCP) \cup S)
           <= Cardinality((M \cup R) \cup enPCP) + Cardinality(S)
  BY <1>5, <1>8, TamanioUnion
<1>10. /\ IsFiniteSet(Admitidos) /\ Cardinality(Admitidos) \in Nat
       /\ Cardinality(Admitidos) <= Cardinality(((M \cup R) \cup enPCP) \cup S)
  BY <1>1, <1>9, FS_Subset, FS_CardinalityType
<1> QED
  BY <1>2, <1>3, <1>4, <1>5, <1>6, <1>7, <1>8, <1>9, <1>10 DEF Uno

-----------------------------------------------------------------------------
(* Each step is a step of the abstract scheduler, or none. *)

\* A program that stays where it is keeps its stage.
LEMMA EtapaQuieta ==
  ASSUME TypeOK, UnSitio, Etapas, Etapas', NEW q \in Programas,
         \A k \in Sitios : q \in Sitio(k)' <=> q \in Sitio(k),
         (q > pidGeneral)' <=> q > pidGeneral,
         respuesta'[q] = respuesta[q],
         q \in Sitio("new") => (PorMover(q)' <=> PorMover(q))
  PROVE  Etapa(q)' = Etapa(q)
<1>0. {"lista", "plp", "new", "ready", "pcp", "saliente", "exit", "hiloExit",
       "contestado"} \subseteq Sitios
  BY DEF Sitios
<1>1. q > pidGeneral \/ \E k \in Sitios : q \in Sitio(k)
  BY Recibidos DEF UnSitio, Programas
<1>2. CASE q > pidGeneral
  <2>1. Etapa(q) = "afuera"
    BY <1>2 DEF Etapas
  <2>2. Etapa(q)' = "afuera"
    BY <1>0, <1>2 DEF Etapas
  <2> QED
    BY <2>1, <2>2
<1>3. CASE q \in Sitio("lista") \cup Sitio("plp")
  <2>1. Etapa(q) = "recibido"
    BY <1>3 DEF Etapas
  <2>2. Etapa(q)' = "recibido"
    BY <1>0, <1>3 DEF Etapas
  <2> QED
    BY <2>1, <2>2
<1>4. CASE q \in Sitio("new") /\ PorMover(q)
  <2>1. Etapa(q) = "admitido"
    BY <1>4 DEF Etapas
  <2>2. Etapa(q)' = "admitido"
    BY <1>0, <1>4 DEF Etapas
  <2> QED
    BY <2>1, <2>2
<1>5. CASE q \in Sitio("new") /\ ~PorMover(q)
  <2>1. Etapa(q) = "nuevo"
    BY <1>5 DEF Etapas
  <2>2. Etapa(q)' = "nuevo"
    BY <1>0, <1>5 DEF Etapas
  <2> QED
    BY <2>1, <2>2
<1>6. CASE q \in Sitio("ready") \cup Sitio("pcp") \cup Sitio("saliente")
  <2>1. Etapa(q) = "admitido"
    BY <1>6 DEF Etapas
  <2>2. Etapa(q)' = "admitido"
    BY <1>0, <1>6 DEF Etapas
  <2> QED
    BY <2>1, <2>2
<1>7. CASE q \in Sitio("exit") \cup Sitio("hiloExit")
  <2>1. Etapa(q) = "saliendo"
    BY <1>7 DEF Etapas
  <2>2. Etapa(q)' = "saliendo"
    BY <1>0, <1>7 DEF Etapas
  <2> QED
    BY <2>1, <2>2
<1>8. CASE q \in Sitio("contestado") /\ respuesta[q] = "Programa rechazado"
  <2>1. Etapa(q) = "rechazado"
    BY <1>8 DEF Etapas
  <2>2. Etapa(q)' = "rechazado"
    BY <1>0, <1>8 DEF Etapas
  <2> QED
    BY <2>1, <2>2
<1>9. CASE q \in Sitio("contestado") /\ respuesta[q] # "Programa rechazado"
  <2>1. Etapa(q) = "terminado"
    BY <1>9 DEF Etapas
  <2>2. Etapa(q)' = "terminado"
    BY <1>0, <1>9 DEF Etapas
  <2> QED
    BY <2>1, <2>2
<1> QED
  BY <1>1, <1>2, <1>3, <1>4, <1>5, <1>6, <1>7, <1>8, <1>9 DEF Sitios

\* What the abstract scheduler sees of the stages, when one program moves.
LEMMA PasarDe ==
  ASSUME NEW p \in Programas, NEW de, NEW a, Etapa(p) = de, Etapa(p)' = a,
         \A q \in Programas : q # p => Etapa(q)' = Etapa(q)
  PROVE  Abstracto!Pasar(p, de, a)
<1>1. [q \in Programas |-> Etapa(q)]' = [[q \in Programas |-> Etapa(q)] EXCEPT ![p] = a]
  BY Zenon
<1> QED
  BY <1>1 DEF Abstracto!Pasar

\* A step that changes no stage, no weight and no place is not seen.
LEMMA NoSeVe ==
  ASSUME \A q \in Programas : Etapa(q)' = Etapa(q), metadata' = metadata,
         estado_multiprogramacion' = estado_multiprogramacion
  PROVE  UNCHANGED Abstracto!varsLP
<1>1. [q \in Programas |-> Etapa(q)]' = [q \in Programas |-> Etapa(q)]
  BY Zenon
<1>2. [q \in 1..pidGeneral |-> calcular_peso(q)]' = [q \in 1..pidGeneral |-> calcular_peso(q)]
  BY DEF pidGeneral, calcular_peso
<1> QED
  BY <1>1, <1>2 DEF Abstracto!varsLP

\* The weights are not touched by a step that receives no program.
LEMMA PesosQuietos ==
  ASSUME metadata' = metadata
  PROVE  [q \in 1..pidGeneral |-> calcular_peso(q)]'
           = [q \in 1..pidGeneral |-> calcular_peso(q)]
BY DEF pidGeneral, calcular_peso

\* Where the programs of a stage are.
LEMMA DondeEstan ==
  ASSUME TypeOK, UnSitio, Etapas, NEW q \in Programas
  PROVE  /\ Etapa(q) = "recibido" => q \in Sitio("lista") \cup Sitio("plp")
         /\ Etapa(q) = "nuevo" => q \in Sitio("new") /\ ~PorMover(q)
<1>1. q > pidGeneral \/ \E k \in Sitios : q \in Sitio(k)
  BY Recibidos DEF UnSitio, Programas
<1> QED
  BY <1>1 DEF Etapas, Sitios

\* The program the PLP holds came before those still in the list.
LEMMA PrimeroEs ==
  ASSUME TypeOK, EnOrdenDeLlegada, UnSitio, Etapas, plp.paso \in PasosConPrograma,
         NEW p \in Programas, p = plp.prog
  PROVE  Abstracto!Primero(p)
<1> SUFFICES ASSUME NEW q \in Programas, Etapa(q) = "recibido" PROVE p <= q
  BY DEF Abstracto!Primero, Abstracto!En
<1>1. q \in Sitio("lista") \cup Sitio("plp")
  BY DondeEstan
<1>2. CASE q \in Sitio("plp")
  BY <1>2, LugaresSon DEF Lugares, Programas
<1>3. CASE q \in Sitio("lista")
  <2>1. PICK i \in 1..Len(lista_de_programas) : q = lista_de_programas[i]
    BY <1>3, LugaresSon DEF Lugares, EnCola
  <2>2. q = Tomados + i /\ p = Tomados
    BY <2>1 DEF EnOrdenDeLlegada
  <2>3. Tomados \in Int /\ i \in Nat
    BY Recibidos, LenProperties DEF Tomados, TypeOK, TiposColas
  <2> QED
    BY <2>2, <2>3
<1> QED
  BY <1>1, <1>2, <1>3

\* What every step may assume: the invariant and the stages, before and after.
Contexto == InvRefina /\ InvRefina' /\ Etapas /\ Etapas'

\* The main thread receives a program.
LEMMA PasoRecibir ==
  ASSUME Contexto, AgregarPrograma, NEW p \in Programas, p = pidGeneral + 1
  PROVE  Abstracto!Recibir(p)
<1>0. /\ TypeOK /\ TypeOK' /\ UnSitio /\ Etapas /\ Etapas' /\ pidGeneral \in Nat
      /\ "lista" \in Sitios /\ pidGeneral' = pidGeneral + 1
  BY Recibidos, SitiosAgregar DEF Contexto, InvRefina, InvPLP, Sitios
<1>1. \A k \in Sitios : Sitio(k)' = IF k = "lista" THEN Sitio(k) \cup {p} ELSE Sitio(k)
  BY <1>0, SitiosAgregar
<1>2. respuesta' = respuesta /\ plp' = plp /\ newProcesos' = newProcesos
      /\ estado_multiprogramacion' = estado_multiprogramacion
  BY DEF AgregarPrograma
<1>3. ASSUME NEW q \in Programas, q # p PROVE Etapa(q)' = Etapa(q)
  <2>1. (q > pidGeneral)' <=> q > pidGeneral
    BY <1>0, <1>3 DEF Programas
  <2>2. \A k \in Sitios : q \in Sitio(k)' <=> q \in Sitio(k)
    BY <1>1, <1>3
  <2>3. PorMover(q)' <=> PorMover(q)
    BY <1>2 DEF PorMover
  <2> QED
    BY <1>0, <1>2, <2>1, <2>2, <2>3, EtapaQuieta
<1>4. Etapa(p) = "afuera" /\ Etapa(p)' = "recibido"
  <2>1. Etapa(p) = "afuera"
    <3>1. p > pidGeneral
      BY <1>0
    <3> QED
      BY <1>0, <3>1 DEF Etapas
  <2>2. p \in Sitio("lista")'
    BY <1>0, <1>1
  <2>3. Etapa(p)' = "recibido"
    BY <1>0, <2>2 DEF Etapas
  <2> QED
    BY <2>1, <2>3
<1>5. Abstracto!Pasar(p, "afuera", "recibido")
  BY <1>0, <1>3, <1>4, PasarDe
<1> DEFINE P == [q \in 1..pidGeneral |-> calcular_peso(q)]
<1>6. PICK m \in Metadatos : metadata' = Append(metadata, m)
  BY DEF AgregarPrograma
<1>7. /\ P \in Seq(Int) /\ Len(P) = pidGeneral
      /\ \A q \in 1..pidGeneral : P[q] = calcular_peso(q)
  <2>1. \A q \in 1..pidGeneral : calcular_peso(q) \in Int
    BY <1>0, PesoNatural
  <2> QED
    BY <1>0, <2>1
<1>8. P' = Append(P, PesoDe(m))
  <2>1. \A q \in 1..pidGeneral : metadata'[q] = metadata[q]
    BY <1>0, <1>6 DEF TypeOK, TiposColas, pidGeneral
  <2>2. metadata'[pidGeneral + 1] = m
    BY <1>0, <1>6 DEF TypeOK, TiposColas, pidGeneral
  <2>3. P' = [q \in 1..(pidGeneral + 1) |-> PesoDe(metadata'[q])]
    BY <1>0 DEF calcular_peso
  <2>4. Append(P, PesoDe(m)) =
          [q \in 1..(pidGeneral + 1) |-> IF q = pidGeneral + 1 THEN PesoDe(m) ELSE P[q]]
    BY <1>0, <1>7
  <2> QED
    BY <1>0, <2>1, <2>2, <2>3, <2>4 DEF calcular_peso
<1>9. p = Len(P) + 1
  BY <1>7
<1> QED
  BY <1>2, <1>5, <1>6, <1>8, <1>9 DEF Abstracto!Recibir

\* The PLP puts it in NEW: those still in the list came after it.
LEMMA PasoAceptar ==
  ASSUME Contexto, AceptarPrograma, NEW p \in Programas, p = plp.prog
  PROVE  Abstracto!Aceptar(p)
<1>0. /\ TypeOK /\ UnSitio /\ Etapas /\ Etapas' /\ pidGeneral' = pidGeneral
      /\ {"lista", "plp", "new"} \subseteq Sitios /\ EnOrdenDeLlegada
      /\ p \in Sitio("plp") /\ Muda("plp", "new", p)
  BY SitiosAceptar DEF Contexto, InvRefina, InvPLP, Sitios, AceptarPrograma, ventanilla,
     pidGeneral
<1>1. /\ respuesta' = respuesta /\ metadata' = metadata
      /\ estado_multiprogramacion' = estado_multiprogramacion
      /\ plp.paso = "crear" /\ plp'.paso = "promover"
  BY DEF AceptarPrograma, ventanilla
<1>2. ASSUME NEW q \in Programas, q # p PROVE Etapa(q)' = Etapa(q)
  <2>1. PorMover(q)' <=> PorMover(q)
    BY <1>1 DEF PorMover
  <2> QED
    BY <1>0, <1>1, <1>2, <2>1, EtapaQuieta DEF Muda
<1>3. Etapa(p) = "recibido"
  BY <1>0 DEF Etapas
<1>4. Etapa(p)' = "nuevo"
  <2>1. p \in Sitio("new")' /\ ~PorMover(p)'
    BY <1>0, <1>1 DEF Muda, PorMover
  <2> QED
    BY <1>0, <2>1 DEF Etapas
<1>5. Abstracto!Pasar(p, "recibido", "nuevo")
  BY <1>2, <1>3, <1>4, PasarDe
<1>6. Abstracto!Primero(p)
  BY <1>0, <1>1, PrimeroEs DEF PasosConPrograma
<1> QED
  BY <1>1, <1>5, <1>6, PesosQuietos DEF Abstracto!Aceptar

\* Or it rejects it.
LEMMA PasoRechazar ==
  ASSUME Contexto, AvisarRechazo, NEW p \in Programas, p = plp.prog
  PROVE  Abstracto!Rechazar(p)
<1>0. /\ TypeOK /\ UnSitio /\ Etapas /\ Etapas' /\ pidGeneral' = pidGeneral
      /\ {"lista", "plp", "contestado"} \subseteq Sitios /\ EnOrdenDeLlegada
      /\ p \in Sitio("plp") /\ Muda("plp", "contestado", p)
  BY SitiosRechazo DEF Contexto, InvRefina, InvPLP, Sitios, AvisarRechazo, ventanilla,
     pidGeneral
<1>1. /\ respuesta' = [respuesta EXCEPT ![p] = "Programa rechazado"]
      /\ respuesta \in [Programas -> Respuestas] /\ metadata' = metadata
      /\ estado_multiprogramacion' = estado_multiprogramacion
      /\ plp.paso = "avisar" /\ plp'.paso = "promover"
  BY <1>0 DEF AvisarRechazo, ventanilla, TypeOK, TiposUMV
<1>2. ASSUME NEW q \in Programas, q # p PROVE Etapa(q)' = Etapa(q)
  <2>1. PorMover(q)' <=> PorMover(q)
    BY <1>1 DEF PorMover
  <2>2. respuesta'[q] = respuesta[q]
    BY <1>1, <1>2
  <2> QED
    BY <1>0, <1>2, <2>1, <2>2, EtapaQuieta DEF Muda
<1>3. Etapa(p) = "recibido"
  BY <1>0 DEF Etapas
<1>4. Etapa(p)' = "rechazado"
  <2>1. p \in Sitio("contestado")' /\ respuesta'[p] = "Programa rechazado"
    BY <1>0, <1>1 DEF Muda
  <2> QED
    BY <1>0, <2>1 DEF Etapas
<1>5. Abstracto!Pasar(p, "recibido", "rechazado")
  BY <1>2, <1>3, <1>4, PasarDe
<1>6. Abstracto!Primero(p)
  BY <1>0, <1>1, PrimeroEs DEF PasosConPrograma
<1> QED
  BY <1>1, <1>5, <1>6, PesosQuietos DEF Abstracto!Rechazar

\* It takes a place for the head of NEW, the lightest and, of those, the first.
LEMMA PasoAdmitir ==
  ASSUME Contexto, OcuparLugar, NEW p \in Programas, p = Head(newProcesos)
  PROVE  Abstracto!Admitir(p)
<1>0. /\ TypeOK /\ UnSitio /\ Etapas /\ Etapas' /\ PromocionPosible /\ NewOrdenada
      /\ pidGeneral' = pidGeneral /\ "new" \in Sitios
      /\ \A k \in Sitios : Sitio(k)' = Sitio(k)
  BY SitiosQuietos DEF Contexto, InvRefina, InvPLP, Sitios, SinMudanza
<1>1. /\ respuesta' = respuesta /\ newProcesos' = newProcesos /\ metadata' = metadata
      /\ estado_multiprogramacion' = estado_multiprogramacion - 1
      /\ estado_multiprogramacion \in Nat /\ estado_multiprogramacion > 0
      /\ MULTIPROGRAMACION \in Nat
      /\ plp.paso = "ocupar" /\ plp'.paso = "mover" /\ newProcesos # <<>>
  BY <1>0, ParametrosPLP DEF OcuparLugar, ventanilla, TypeOK, TiposPLP, TiposContadores,
     PromocionPosible
<1>2. /\ newProcesos \in Seq(1..pidGeneral) /\ Len(newProcesos) \in Nat \ {0}
      /\ p = newProcesos[1]
  BY <1>0, <1>1, ColaSinCabeza DEF TypeOK, TiposColas
<1>3. ASSUME NEW q \in Programas, q # p PROVE Etapa(q)' = Etapa(q)
  <2>1. ~PorMover(q)' /\ ~PorMover(q)
    BY <1>1, <1>3 DEF PorMover
  <2> QED
    BY <1>0, <1>1, <2>1, EtapaQuieta
<1>4. p \in Sitio("new")
  BY <1>2, LugaresSon DEF Lugares, EnCola
<1>5. Etapa(p) = "nuevo"
  BY <1>0, <1>1, <1>4 DEF Etapas, PorMover
<1>6. Etapa(p)' = "admitido"
  <2>1. p \in Sitio("new")' /\ PorMover(p)'
    BY <1>0, <1>1, <1>4 DEF PorMover
  <2> QED
    BY <1>0, <2>1 DEF Etapas
<1>7. Abstracto!Pasar(p, "nuevo", "admitido")
  BY <1>3, <1>5, <1>6, PasarDe
<1>8. ASSUME NEW q \in Programas, Etapa(q) = "nuevo"
      PROVE  /\ q \in 1..pidGeneral /\ p \in 1..pidGeneral
             /\ \/ calcular_peso(p) < calcular_peso(q)
                \/ calcular_peso(p) = calcular_peso(q) /\ p <= q
  <2>1. q \in Sitio("new")
    BY <1>0, <1>8, DondeEstan
  <2>2. PICK j \in 1..Len(newProcesos) : q = newProcesos[j]
    BY <2>1, LugaresSon DEF Lugares, EnCola
  <2>3. p \in 1..pidGeneral /\ q \in 1..pidGeneral
    BY <1>0, <1>4, <2>1 DEF UnSitio
  <2>4. j = 1 \/ MasLiviano(p, q)
    BY <1>0, <1>2, <2>2 DEF NewOrdenada
  <2>5. j = 1 => p = q
    BY <1>2, <2>2
  <2> QED
    BY <2>3, <2>4, <2>5 DEF MasLiviano
<1>9. Abstracto!MasCorto(p)
  BY <1>8 DEF Abstracto!MasCorto, Abstracto!En
<1> QED
  BY <1>1, <1>7, <1>9, PesosQuietos DEF Abstracto!Admitir

\* A thread puts in EXIT a program that ended.
LEMMA PasoTerminar ==
  ASSUME Contexto, NEW h \in Hilos, AgregarAExit(h), NEW p \in Programas, p = saliente[h]
  PROVE  Abstracto!Terminar(p)
<1>0. /\ TypeOK /\ UnSitio /\ Etapas /\ Etapas' /\ pidGeneral' = pidGeneral
      /\ {"saliente", "exit"} \subseteq Sitios
      /\ p \in Sitio("saliente") /\ Muda("saliente", "exit", p)
  BY SitiosAgregarAExit DEF Contexto, InvRefina, InvPLP, Sitios, AgregarAExit, ventanilla,
     pidGeneral
<1>1. /\ respuesta' = respuesta /\ newProcesos' = newProcesos /\ metadata' = metadata
      /\ estado_multiprogramacion' = estado_multiprogramacion /\ plp' = plp
  BY DEF AgregarAExit, ventanilla
<1>2. ASSUME NEW q \in Programas, q # p PROVE Etapa(q)' = Etapa(q)
  <2>1. PorMover(q)' <=> PorMover(q)
    BY <1>1 DEF PorMover
  <2> QED
    BY <1>0, <1>1, <1>2, <2>1, EtapaQuieta DEF Muda
<1>3. Etapa(p) = "admitido"
  BY <1>0 DEF Etapas
<1>4. Etapa(p)' = "saliendo"
  <2>1. p \in Sitio("exit")'
    BY <1>0 DEF Muda
  <2> QED
    BY <1>0, <2>1 DEF Etapas
<1>5. Abstracto!Pasar(p, "admitido", "saliendo")
  BY <1>2, <1>3, <1>4, PasarDe
<1> QED
  BY <1>1, <1>5, PesosQuietos DEF Abstracto!Terminar

\* Both modules count with the Cardinality of FiniteSets.
LEMMA MismoCardinal == \A S : Abstracto!Cardinality(S) = Cardinality(S)
BY Zenon DEF Abstracto!Cardinality, Cardinality

\* And gives its place back: there is one that no admitted program uses.
LEMMA PasoDesocupar ==
  ASSUME Contexto, NEW h \in Hilos, LiberarLugar(h)
  PROVE  Abstracto!Desocupar
<1>0. /\ TypeOK /\ UnSitio /\ Etapas /\ Etapas' /\ pidGeneral' = pidGeneral
      /\ GradoConservado
      /\ \A k \in Sitios : Sitio(k)' = Sitio(k)
  BY SitiosQuietos DEF Contexto, InvRefina, InvPLP, Sitios, SinMudanza
<1>1. /\ respuesta' = respuesta /\ newProcesos' = newProcesos /\ metadata' = metadata
      /\ estado_multiprogramacion' = estado_multiprogramacion + 1 /\ plp' = plp
      /\ salida \in [Hilos -> PasosSalida] /\ salida[h] = "sumar"
      /\ estado_multiprogramacion \in Nat
  BY <1>0 DEF LiberarLugar, ventanilla, TypeOK, TiposSalida, TiposContadores
<1>2. \A q \in Programas : Etapa(q)' = Etapa(q)
  <2> SUFFICES ASSUME NEW q \in Programas PROVE Etapa(q)' = Etapa(q)
    OBVIOUS
  <2>1. PorMover(q)' <=> PorMover(q)
    BY <1>1 DEF PorMover
  <2> QED
    BY <1>0, <1>1, <2>1, EtapaQuieta
<1>3. [q \in Programas |-> Etapa(q)]' = [q \in Programas |-> Etapa(q)]
  BY Zenon, <1>2
<1>4. Cuenta({"agregar", "sumar"}) >= Cuenta({"agregar"}) + 1
  <2> DEFINE A == {g \in Hilos : salida[g] \in {"agregar"}}
             B == {g \in Hilos : salida[g] \in {"agregar", "sumar"}}
  <2>1. IsFiniteSet(A) /\ IsFiniteSet(B)
    BY ParametrosPLP, FS_Subset
  <2>2. h \in B /\ A \subseteq B \ {h}
    BY <1>1
  <2>3. /\ IsFiniteSet(B \ {h}) /\ Cardinality(B \ {h}) = Cardinality(B) - 1
        /\ Cardinality(B) \in Nat
    BY <2>1, <2>2, FS_RemoveElement, FS_CardinalityType
  <2>4. Cardinality(A) \in Nat /\ Cardinality(A) <= Cardinality(B \ {h})
    BY <2>1, <2>2, <2>3, FS_Subset, FS_CardinalityType
  <2> QED
    BY <2>3, <2>4 DEF Cuenta
<1>5. MULTIPROGRAMACION - estado_multiprogramacion > Cardinality(Admitidos)
  <2>1. /\ Len(listaReady) \in Nat /\ Cardinality(enPCP) \in Nat
        /\ Cuenta({"agregar", "sumar"}) \in Nat /\ Cuenta({"agregar"}) \in Nat
        /\ Uno(plp.paso = "mover") \in Nat /\ MULTIPROGRAMACION \in Nat
    BY <1>0, LenProperties, EnPCPFinito, CuentaTipo, ParametrosPLP
    DEF TypeOK, TiposColas, Uno
  <2>2. /\ Cardinality(Admitidos) \in Nat
        /\ Cardinality(Admitidos) <= Uno(plp.paso = "mover") + Len(listaReady)
                                      + Cardinality(enPCP) + Cuenta({"agregar"})
    BY <1>0, AdmitidosCaben
  <2>3. estado_multiprogramacion + Uno(plp.paso = "mover") + Len(listaReady)
          + Cardinality(enPCP) + Cuenta({"agregar", "sumar"}) = MULTIPROGRAMACION
    BY <1>0 DEF GradoConservado
  <2> QED
    BY <1>1, <1>4, <2>1, <2>2, <2>3
<1>6. Abstracto!En("admitido") = Admitidos
  BY DEF Abstracto!En, Admitidos
<1>7. (MULTIPROGRAMACION - estado_multiprogramacion)'
        = (MULTIPROGRAMACION - estado_multiprogramacion) - 1
  BY <1>1, ParametrosPLP
<1>8. MULTIPROGRAMACION - estado_multiprogramacion > Cardinality(Abstracto!En("admitido"))
  BY <1>5, <1>6
<1>9. UNCHANGED [q \in 1..pidGeneral |-> calcular_peso(q)]
  BY <1>1, PesosQuietos
<1> QED
  BY <1>3, <1>7, <1>8, <1>9, MismoCardinal DEF Abstracto!Desocupar

\* The exit thread answers its client.
LEMMA PasoResponder ==
  ASSUME Contexto, AvisarFin, NEW p \in Programas, p = hiloExit.prog
  PROVE  Abstracto!Responder(p)
<1>0. /\ TypeOK /\ UnSitio /\ Etapas /\ Etapas' /\ pidGeneral' = pidGeneral
      /\ {"hiloExit", "contestado"} \subseteq Sitios
      /\ p \in Sitio("hiloExit") /\ Muda("hiloExit", "contestado", p)
  BY SitiosFin DEF Contexto, InvRefina, InvPLP, Sitios, AvisarFin, ventanilla, pidGeneral
<1>1. /\ respuesta' = [respuesta EXCEPT ![p] = "Termino la ejecucion"]
      /\ respuesta \in [Programas -> Respuestas] /\ metadata' = metadata
      /\ estado_multiprogramacion' = estado_multiprogramacion
      /\ plp' = plp /\ newProcesos' = newProcesos
  BY <1>0 DEF AvisarFin, ventanilla, TypeOK, TiposUMV
<1>2. ASSUME NEW q \in Programas, q # p PROVE Etapa(q)' = Etapa(q)
  <2>1. PorMover(q)' <=> PorMover(q)
    BY <1>1 DEF PorMover
  <2>2. respuesta'[q] = respuesta[q]
    BY <1>1, <1>2
  <2> QED
    BY <1>0, <1>2, <2>1, <2>2, EtapaQuieta DEF Muda
<1>3. Etapa(p) = "saliendo"
  BY <1>0 DEF Etapas
<1>4. Etapa(p)' = "terminado"
  <2>1. p \in Sitio("contestado")' /\ respuesta'[p] # "Programa rechazado"
    BY <1>0, <1>1 DEF Muda
  <2> QED
    BY <1>0, <2>1 DEF Etapas
<1>5. Abstracto!Pasar(p, "saliendo", "terminado")
  BY <1>2, <1>3, <1>4, PasarDe
<1> QED
  BY <1>1, <1>5, PesosQuietos DEF Abstracto!Responder

\* Steps that move no program, or only within a stage, are not seen.
LEMMA PasoQuieto ==
  ASSUME Contexto, SinMudanza, ~OcuparLugar, \A h \in Hilos : ~LiberarLugar(h)
  PROVE  UNCHANGED Abstracto!varsLP
<1>0. /\ TypeOK /\ UnSitio /\ Etapas /\ Etapas' /\ pidGeneral' = pidGeneral
      /\ \A k \in Sitios : Sitio(k)' = Sitio(k)
  BY SitiosQuietos DEF Contexto, InvRefina, InvPLP
<1>1. /\ respuesta' = respuesta /\ newProcesos' = newProcesos /\ metadata' = metadata
      /\ estado_multiprogramacion' = estado_multiprogramacion
      /\ plp.paso = "mover" <=> plp'.paso = "mover"
  BY <1>0 DEF SinMudanza, PostNuevoPrograma, EsperarPrograma, CrearSegmento,
     DestruirRechazado, SacarPrograma, DecidirPromocion, PostReady, EsperarSalida,
     DestruirSegmentos, PostExit, PostLugar, vars, ventanilla, TypeOK, TiposPLP
<1>2. ASSUME NEW q \in Programas PROVE Etapa(q)' = Etapa(q)
  <2>1. PorMover(q)' <=> PorMover(q)
    BY <1>1 DEF PorMover
  <2> QED
    BY <1>0, <1>1, <2>1, EtapaQuieta
<1> QED
  BY <1>1, <1>2, NoSeVe

\* The PLP takes the program it will look at.
LEMMA PasoSacar ==
  ASSUME Contexto, SacarPrograma, lista_de_programas # <<>>, NEW p, p = Head(lista_de_programas)
  PROVE  UNCHANGED Abstracto!varsLP
<1>0. /\ TypeOK /\ UnSitio /\ Etapas /\ Etapas' /\ pidGeneral' = pidGeneral
      /\ {"lista", "plp"} \subseteq Sitios
      /\ p \in Sitio("lista") /\ Muda("lista", "plp", p)
  BY SitiosSacar DEF Contexto, InvRefina, InvPLP, Sitios, SacarPrograma, ventanilla,
     pidGeneral
<1>1. /\ respuesta' = respuesta /\ newProcesos' = newProcesos /\ metadata' = metadata
      /\ estado_multiprogramacion' = estado_multiprogramacion
      /\ plp.paso = "mover" <=> plp'.paso = "mover"
  BY DEF SacarPrograma, ventanilla
<1>2. ASSUME NEW q \in Programas, q # p PROVE Etapa(q)' = Etapa(q)
  <2>1. PorMover(q)' <=> PorMover(q)
    BY <1>1 DEF PorMover
  <2> QED
    BY <1>0, <1>1, <1>2, <2>1, EtapaQuieta DEF Muda
<1>3. p \in Programas
  BY <1>0, Recibidos DEF UnSitio
<1>4. Etapa(p) = "recibido"
  BY <1>0, <1>3 DEF Etapas
<1>5. Etapa(p)' = "recibido"
  <2>1. p \in Sitio("plp")'
    BY <1>0 DEF Muda
  <2> QED
    BY <1>0, <1>3, <2>1 DEF Etapas
<1>6. \A q \in Programas : Etapa(q)' = Etapa(q)
  BY Zenon, <1>2, <1>4, <1>5
<1> QED
  BY <1>1, <1>6, NoSeVe

\* The PCP takes a program from READY.
LEMMA PasoTomar ==
  ASSUME Contexto, TomarDeReady, NEW p, p = Head(listaReady)
  PROVE  UNCHANGED Abstracto!varsLP
<1>0. /\ TypeOK /\ UnSitio /\ Etapas /\ Etapas' /\ pidGeneral' = pidGeneral
      /\ {"ready", "pcp"} \subseteq Sitios
      /\ p \in Sitio("ready") /\ Muda("ready", "pcp", p)
  BY SitiosTomar DEF Contexto, InvRefina, InvPLP, Sitios, TomarDeReady, ventanilla,
     pidGeneral
<1>1. /\ respuesta' = respuesta /\ newProcesos' = newProcesos /\ metadata' = metadata
      /\ estado_multiprogramacion' = estado_multiprogramacion
      /\ plp.paso = "mover" <=> plp'.paso = "mover"
  BY DEF TomarDeReady, ventanilla
<1>2. ASSUME NEW q \in Programas, q # p PROVE Etapa(q)' = Etapa(q)
  <2>1. PorMover(q)' <=> PorMover(q)
    BY <1>1 DEF PorMover
  <2> QED
    BY <1>0, <1>1, <1>2, <2>1, EtapaQuieta DEF Muda
<1>3. p \in Programas
  BY <1>0, Recibidos DEF UnSitio
<1>4. Etapa(p) = "admitido"
  BY <1>0, <1>3 DEF Etapas
<1>5. Etapa(p)' = "admitido"
  <2>1. p \in Sitio("pcp")'
    BY <1>0 DEF Muda
  <2> QED
    BY <1>0, <1>3, <2>1 DEF Etapas
<1>6. \A q \in Programas : Etapa(q)' = Etapa(q)
  BY Zenon, <1>2, <1>4, <1>5
<1> QED
  BY <1>1, <1>6, NoSeVe

\* It gives it back.
LEMMA PasoVolver ==
  ASSUME Contexto, NEW r \in Programas, VolverAReady(r), NEW p, p = r
  PROVE  UNCHANGED Abstracto!varsLP
<1>0. /\ TypeOK /\ UnSitio /\ Etapas /\ Etapas' /\ pidGeneral' = pidGeneral
      /\ {"pcp", "ready"} \subseteq Sitios
      /\ p \in Sitio("pcp") /\ Muda("pcp", "ready", p)
  BY SitiosVolver DEF Contexto, InvRefina, InvPLP, Sitios, VolverAReady, ventanilla,
     pidGeneral
<1>1. /\ respuesta' = respuesta /\ newProcesos' = newProcesos /\ metadata' = metadata
      /\ estado_multiprogramacion' = estado_multiprogramacion
      /\ plp.paso = "mover" <=> plp'.paso = "mover"
  BY DEF VolverAReady, ventanilla
<1>2. ASSUME NEW q \in Programas, q # p PROVE Etapa(q)' = Etapa(q)
  <2>1. PorMover(q)' <=> PorMover(q)
    BY <1>1 DEF PorMover
  <2> QED
    BY <1>0, <1>1, <1>2, <2>1, EtapaQuieta DEF Muda
<1>3. p \in Programas
  BY <1>0, Recibidos DEF UnSitio
<1>4. Etapa(p) = "admitido"
  BY <1>0, <1>3 DEF Etapas
<1>5. Etapa(p)' = "admitido"
  <2>1. p \in Sitio("ready")'
    BY <1>0 DEF Muda
  <2> QED
    BY <1>0, <1>3, <2>1 DEF Etapas
<1>6. \A q \in Programas : Etapa(q)' = Etapa(q)
  BY Zenon, <1>2, <1>4, <1>5
<1> QED
  BY <1>1, <1>6, NoSeVe

\* A thread takes from the PCP a program that ended.
LEMMA PasoSacarDeExec ==
  ASSUME Contexto, NEW h \in Hilos, NEW r \in Programas, SacarDeExec(h, r), NEW p, p = r
  PROVE  UNCHANGED Abstracto!varsLP
<1>0. /\ TypeOK /\ UnSitio /\ Etapas /\ Etapas' /\ pidGeneral' = pidGeneral
      /\ {"pcp", "saliente"} \subseteq Sitios
      /\ p \in Sitio("pcp") /\ Muda("pcp", "saliente", p)
  BY SitiosSacarDeExec DEF Contexto, InvRefina, InvPLP, Sitios, SacarDeExec, ventanilla,
     pidGeneral
<1>1. /\ respuesta' = respuesta /\ newProcesos' = newProcesos /\ metadata' = metadata
      /\ estado_multiprogramacion' = estado_multiprogramacion
      /\ plp.paso = "mover" <=> plp'.paso = "mover"
  BY DEF SacarDeExec, ventanilla
<1>2. ASSUME NEW q \in Programas, q # p PROVE Etapa(q)' = Etapa(q)
  <2>1. PorMover(q)' <=> PorMover(q)
    BY <1>1 DEF PorMover
  <2> QED
    BY <1>0, <1>1, <1>2, <2>1, EtapaQuieta DEF Muda
<1>3. p \in Programas
  BY <1>0, Recibidos DEF UnSitio
<1>4. Etapa(p) = "admitido"
  BY <1>0, <1>3 DEF Etapas
<1>5. Etapa(p)' = "admitido"
  <2>1. p \in Sitio("saliente")'
    BY <1>0 DEF Muda
  <2> QED
    BY <1>0, <1>3, <2>1 DEF Etapas
<1>6. \A q \in Programas : Etapa(q)' = Etapa(q)
  BY Zenon, <1>2, <1>4, <1>5
<1> QED
  BY <1>1, <1>6, NoSeVe

\* The exit thread takes a program of EXIT.
LEMMA PasoSacarDeExit ==
  ASSUME Contexto, SacarDeExit, NEW p, p = Head(exitProcesos)
  PROVE  UNCHANGED Abstracto!varsLP
<1>0. /\ TypeOK /\ UnSitio /\ Etapas /\ Etapas' /\ pidGeneral' = pidGeneral
      /\ {"exit", "hiloExit"} \subseteq Sitios
      /\ p \in Sitio("exit") /\ Muda("exit", "hiloExit", p)
  BY SitiosSacarDeExit DEF Contexto, InvRefina, InvPLP, Sitios, SacarDeExit, ventanilla,
     pidGeneral
<1>1. /\ respuesta' = respuesta /\ newProcesos' = newProcesos /\ metadata' = metadata
      /\ estado_multiprogramacion' = estado_multiprogramacion
      /\ plp.paso = "mover" <=> plp'.paso = "mover"
  BY DEF SacarDeExit, ventanilla
<1>2. ASSUME NEW q \in Programas, q # p PROVE Etapa(q)' = Etapa(q)
  <2>1. PorMover(q)' <=> PorMover(q)
    BY <1>1 DEF PorMover
  <2> QED
    BY <1>0, <1>1, <1>2, <2>1, EtapaQuieta DEF Muda
<1>3. p \in Programas
  BY <1>0, Recibidos DEF UnSitio
<1>4. Etapa(p) = "saliendo"
  BY <1>0, <1>3 DEF Etapas
<1>5. Etapa(p)' = "saliendo"
  <2>1. p \in Sitio("hiloExit")'
    BY <1>0 DEF Muda
  <2> QED
    BY <1>0, <1>3, <2>1 DEF Etapas
<1>6. \A q \in Programas : Etapa(q)' = Etapa(q)
  BY Zenon, <1>2, <1>4, <1>5
<1> QED
  BY <1>1, <1>6, NoSeVe

\* The program whose place was taken goes to READY.
LEMMA PasoMover ==
  ASSUME Contexto, MoverAReady, NEW p, p = Head(newProcesos)
  PROVE  UNCHANGED Abstracto!varsLP
<1>0. /\ TypeOK /\ UnSitio /\ Etapas /\ Etapas' /\ pidGeneral' = pidGeneral
      /\ {"new", "ready"} \subseteq Sitios
      /\ p \in Sitio("new") /\ Muda("new", "ready", p)
  BY SitiosMover DEF Contexto, InvRefina, InvPLP, Sitios, MoverAReady, ventanilla,
     pidGeneral
<1>1. /\ respuesta' = respuesta /\ metadata' = metadata
      /\ estado_multiprogramacion' = estado_multiprogramacion
      /\ plp.paso = "mover" /\ plp'.paso = "postear"
  BY <1>0 DEF MoverAReady, ventanilla, TypeOK, TiposPLP
<1>2. ASSUME NEW q \in Programas, q # p PROVE Etapa(q)' = Etapa(q)
  <2>1. ~PorMover(q)' /\ ~PorMover(q)
    BY <1>1, <1>2 DEF PorMover
  <2> QED
    BY <1>0, <1>1, <1>2, <2>1, EtapaQuieta DEF Muda
<1>3. p \in Programas
  BY <1>0, Recibidos DEF UnSitio
<1>4. Etapa(p) = "admitido"
  BY <1>0, <1>1, <1>3 DEF Etapas, PorMover
<1>5. Etapa(p)' = "admitido"
  <2>1. p \in Sitio("ready")'
    BY <1>0 DEF Muda
  <2> QED
    BY <1>0, <1>3, <2>1 DEF Etapas
<1>6. \A q \in Programas : Etapa(q)' = Etapa(q)
  BY Zenon, <1>2, <1>4, <1>5
<1> QED
  BY <1>1, <1>6, NoSeVe

-----------------------------------------------------------------------------
(* The refinement. *)

\* The kernel starts where the abstract scheduler does.
LEMMA InicioAbstracto ==
  ASSUME Init, TypeOK, UnSitio, SinRepetir
  PROVE  Abstracto!InitLP
<1>1. pidGeneral = 0
  BY DEF Init, pidGeneral
<1>2. \A p \in Programas : Etapa(p) = "afuera"
  <2>1. Etapas
    BY EtapasSon
  <2>2. \A p \in Programas : p > pidGeneral
    BY <1>1, ParametrosPLP DEF Programas
  <2> QED
    BY <2>1, <2>2 DEF Etapas
<1>3. [p \in 1..pidGeneral |-> calcular_peso(p)] = <<>>
  BY <1>1
<1>4. MULTIPROGRAMACION - estado_multiprogramacion = 0
  BY ParametrosPLP DEF Init
<1> QED
  BY <1>2, <1>3, <1>4 DEF Abstracto!InitLP

\* A step of the kernel's threads is one of the abstract scheduler, or unseen.
LEMMA PasoAbstracto ==
  ASSUME InvRefina, InvRefina', [Next]_vars
  PROVE  [Abstracto!NextLP]_Abstracto!varsLP
<1>0. Contexto /\ TypeOK
  BY EtapasSon, EtapasSonLuego DEF Contexto, InvRefina, InvPLP
<1>1. CASE AgregarPrograma
  <2>1. PICK p \in Programas : p = pidGeneral + 1
    BY <1>0, <1>1, Recibidos, ParametrosPLP DEF AgregarPrograma, Programas
  <2> QED
    BY <1>0, <1>1, <2>1, PasoRecibir DEF Abstracto!NextLP
<1>2. CASE SacarPrograma /\ lista_de_programas # <<>>
  BY <1>0, <1>2, PasoSacar
<1>3. CASE AceptarPrograma
  <2>1. PICK p \in Programas : p = plp.prog
    BY <1>0, <1>3, Recibidos DEF AceptarPrograma, PasosConPrograma
  <2> QED
    BY <1>0, <1>3, <2>1, PasoAceptar DEF Abstracto!NextLP
<1>4. CASE AvisarRechazo
  <2>1. PICK p \in Programas : p = plp.prog
    BY <1>0, <1>4, Recibidos DEF AvisarRechazo, PasosConPrograma
  <2> QED
    BY <1>0, <1>4, <2>1, PasoRechazar DEF Abstracto!NextLP
<1>5. CASE MoverAReady
  BY <1>0, <1>5, PasoMover
<1>6. CASE TomarDeReady
  BY <1>0, <1>6, PasoTomar
<1>7. ASSUME NEW r \in Programas, VolverAReady(r)
      PROVE  UNCHANGED Abstracto!varsLP
  BY <1>0, <1>7, PasoVolver
<1>8. ASSUME NEW h \in Hilos, NEW r \in Programas, SacarDeExec(h, r)
      PROVE  UNCHANGED Abstracto!varsLP
  BY <1>0, <1>8, PasoSacarDeExec
<1>9. ASSUME NEW h \in Hilos, AgregarAExit(h) PROVE Abstracto!NextLP
  <2>1. PICK p \in Programas : p = saliente[h]
    BY <1>0, <1>9, Recibidos DEF AgregarAExit
  <2> QED
    BY <1>0, <1>9, <2>1, PasoTerminar DEF Abstracto!NextLP
<1>10. CASE SacarDeExit
  BY <1>0, <1>10, PasoSacarDeExit
<1>11. CASE AvisarFin
  <2>1. PICK p \in Programas : p = hiloExit.prog
    BY <1>0, <1>11, Recibidos DEF AvisarFin
  <2> QED
    BY <1>0, <1>11, <2>1, PasoResponder DEF Abstracto!NextLP
<1>12. CASE OcuparLugar
  <2>1. newProcesos # <<>> /\ newProcesos \in Seq(1..pidGeneral)
    BY <1>0, <1>12 DEF OcuparLugar, Contexto, InvRefina, InvPLP, PromocionPosible,
       TypeOK, TiposColas
  <2>2. PICK p \in Programas : p = Head(newProcesos)
    BY <1>0, <2>1, ColaSinCabeza, Recibidos
  <2> QED
    BY <1>0, <1>12, <2>2, PasoAdmitir DEF Abstracto!NextLP
<1>13. ASSUME NEW h \in Hilos, LiberarLugar(h) PROVE Abstracto!NextLP
  BY <1>0, <1>13, PasoDesocupar DEF Abstracto!NextLP
<1>14. CASE SinMudanza /\ ~OcuparLugar /\ \A h \in Hilos : ~LiberarLugar(h)
  BY <1>0, <1>14, PasoQuieto
<1> QED
  BY <1>1, <1>2, <1>3, <1>4, <1>5, <1>6, <1>7, <1>8, <1>9, <1>10, <1>11, <1>12, <1>13,
     <1>14, Pasos

\* The threads, semaphores and lists of the long-term scheduler implement
\* LargoPlazo: shortest job first, within the degree, nobody lost or served twice.
THEOREM RefinaLargoPlazo == Spec => ImplementaLargoPlazo
<1>1. Init /\ InvRefina => Abstracto!InitLP
  BY InicioAbstracto DEF InvRefina, InvPLP
<1>2. InvRefina /\ InvRefina' /\ [Next]_vars => [Abstracto!NextLP]_Abstracto!varsLP
  BY PasoAbstracto
<1> QED
  BY <1>1, <1>2, InvarianteRefina, PTL
  DEF Spec, ImplementaLargoPlazo, Abstracto!SpecLP

=============================================================================
