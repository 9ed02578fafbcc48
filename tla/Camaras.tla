------------------------------- MODULE Camaras -------------------------------
(***************************************************************************)
(* The camera central (central_de_camaras.rs, camara.rs): cameras record   *)
(* while an incident is near them or near a neighbouring camera, and save  *)
(* energy otherwise.  Each camera only counts; nobody recomputes.          *)
(*                                                                         *)
(* Incidents arrive by a JetStream consumer, so more than once and late;   *)
(* the user adds and removes cameras meanwhile.  A position is the set of  *)
(* cameras within areaincidente of it.  Every message brings its own: a    *)
(* drone that closes an incident reports it from where the drone is        *)
(* (sistema_monitoreo.rs), which need not be where it began.               *)
(***************************************************************************)
EXTENDS Integers, FiniteSets

CONSTANTS
  Camaras,     \* ids of cameras; an id is used once
  Incidentes,
  Rangos,      \* positions: the sets of cameras in range of one
  Lindantes    \* [camera -> cameras within arealindante of it]

ASSUME CamarasAssumption ==
  /\ IsFiniteSet(Camaras) /\ IsFiniteSet(Incidentes)
  /\ Rangos \subseteq SUBSET Camaras
  /\ Lindantes \in [Camaras -> SUBSET Camaras]
  /\ \A c \in Camaras : c \in Lindantes[c]
  /\ \A c, d \in Camaras : c \in Lindantes[d] <=> d \in Lindantes[c]

VARIABLES
  lista_de_camaras, \* the cameras there are
  creadas,          \* the ids used so far
  estado,           \* [camera -> "ahorro" | "grabando"]
  incidentes_id,    \* [camera -> incidents near it]
  numlindantes,     \* [camera -> its count]
  incidentes,       \* the (id, estado) already processed
  alterada          \* history: a camera was added beside one that had an
                    \* incident, or an incident was cancelled where some
                    \* camera did not have it

vars == <<lista_de_camaras, creadas, estado, incidentes_id, numlindantes,
          incidentes, alterada>>

Init ==
  /\ lista_de_camaras = {} /\ creadas = {}
  /\ estado = [c \in Camaras |-> "ahorro"]
  /\ incidentes_id = [c \in Camaras |-> {}]
  /\ numlindantes = [c \in Camaras |-> 0]
  /\ incidentes = {}
  /\ alterada = FALSE

-----------------------------------------------------------------------------
(* How many of the cameras cs have c as a neighbour, itself included.      *)
AvisosDe(cs, c) == Cardinality({d \in cs : c \in Lindantes[d]})

Cercanas(r) == r \cap lista_de_camaras

Toca(cs, c) == c \in lista_de_camaras /\ AvisosDe(cs, c) > 0

(* A message whose (id, estado) was processed before, and any message of a *)
(* state other than these two, changes nothing: the guards below.          *)

RecibePendiente_SinDescontar(i, r) ==
  LET cs == Cercanas(r) IN
  /\ <<i, "pendiente">> \notin incidentes
  /\ incidentes' = incidentes \cup {<<i, "pendiente">>}
  /\ incidentes_id' = [c \in Camaras |->
       IF c \in cs THEN incidentes_id[c] \cup {i} ELSE incidentes_id[c]]
  /\ numlindantes' = [c \in Camaras |->
       IF Toca(cs, c) THEN numlindantes[c] + AvisosDe(cs, c) ELSE numlindantes[c]]
  /\ estado' = [c \in Camaras |->
       IF c \in cs \/ Toca(cs, c) THEN "grabando" ELSE estado[c]]
  /\ UNCHANGED <<lista_de_camaras, creadas, alterada>>

(* Every camera near the incident takes it and counts one less, because it *)
(* is about to be told of itself; then each tells all its neighbours.      *)
RecibePendiente(i, r) ==
  LET cs == Cercanas(r)
      nuevas == {c \in cs : i \notin incidentes_id[c]}
  IN
  /\ <<i, "pendiente">> \notin incidentes
  /\ incidentes' = incidentes \cup {<<i, "pendiente">>}
  /\ incidentes_id' = [c \in Camaras |->
       IF c \in cs THEN incidentes_id[c] \cup {i} ELSE incidentes_id[c]]
  /\ numlindantes' = [c \in Camaras |->
       numlindantes[c] - (IF c \in nuevas THEN 1 ELSE 0)
                       + (IF Toca(cs, c) THEN AvisosDe(cs, c) ELSE 0)]
  /\ estado' = [c \in Camaras |->
       IF c \in nuevas \/ Toca(cs, c) THEN "grabando" ELSE estado[c]]
  /\ UNCHANGED <<lista_de_camaras, creadas, alterada>>

(* A count that goes down k times one by one passes by 0.                  *)
PasaPorCero(num, k) == num \in 1..k

AhorraTrasAvisos_SinMirar(c, num, k) == PasaPorCero(num, k)

AhorraTrasAvisos(c, num, k) ==
  incidentes_id'[c] = {} /\ PasaPorCero(num, k)

(* Every camera near the incident counts one more, drops it if it has it,  *)
(* and rests if it is left with nothing; then each tells its neighbours,   *)
(* which count one less and rest when they get to nothing.  The central    *)
(* may not have seen the incident begin, and a camera that has it may be   *)
(* out of range of this message: it keeps the incident for good.           *)
RecibeCancelado(i, r) ==
  LET cs == Cercanas(r)
      num(c) == numlindantes[c] + (IF c \in cs THEN 1 ELSE 0)
      avisos(c) == IF Toca(cs, c) THEN AvisosDe(cs, c) ELSE 0
  IN
  /\ <<i, "cancelado">> \notin incidentes
  /\ incidentes' = incidentes \cup {<<i, "cancelado">>}
  /\ incidentes_id' = [c \in Camaras |->
       IF c \in cs THEN incidentes_id[c] \ {i} ELSE incidentes_id[c]]
  /\ numlindantes' = [c \in Camaras |-> num(c) - avisos(c)]
  /\ estado' = [c \in Camaras |->
       IF \/ i \in incidentes_id[c] /\ c \in cs
             /\ incidentes_id'[c] = {} /\ num(c) = 0
          \/ AhorraTrasAvisos(c, num(c), avisos(c))
       THEN "ahorro" ELSE estado[c]]
  /\ alterada' = (alterada \/ \E c \in cs : i \notin incidentes_id[c])
  /\ UNCHANGED <<lista_de_camaras, creadas>>

-----------------------------------------------------------------------------
(* The user                                                                *)

NuevaCamara_SinAnotar(c) ==
  /\ c \notin creadas
  /\ lista_de_camaras' = lista_de_camaras \cup {c}
  /\ UNCHANGED <<creadas, estado, incidentes_id, numlindantes, incidentes,
                 alterada>>

NuevaCamara(c) ==
  /\ c \notin creadas
  /\ creadas' = creadas \cup {c}
  /\ lista_de_camaras' = lista_de_camaras \cup {c}
  /\ alterada' = (alterada \/ \E d \in lista_de_camaras :
                              c \in Lindantes[d] /\ incidentes_id[d] # {})
  /\ UNCHANGED <<estado, incidentes_id, numlindantes, incidentes>>

EliminarCamara_SinAvisar(c) ==
  /\ c \in lista_de_camaras
  /\ lista_de_camaras' = lista_de_camaras \ {c}
  /\ UNCHANGED <<creadas, incidentes, alterada, estado, incidentes_id,
                 numlindantes>>

(* It tells its neighbours once for each incident it has, and goes.        *)
EliminarCamara(c) ==
  LET veces == Cardinality(incidentes_id[c])
      lindantes == Lindantes[c] \cap lista_de_camaras
  IN
  /\ c \in lista_de_camaras
  /\ lista_de_camaras' = lista_de_camaras \ {c}
  /\ incidentes_id' = [incidentes_id EXCEPT ![c] = {}]
  /\ numlindantes' = [d \in Camaras |->
       IF d \in lindantes THEN numlindantes[d] - veces ELSE numlindantes[d]]
  /\ estado' = [d \in Camaras |->
       IF d \in lindantes /\ AhorraTrasAvisos(d, numlindantes[d], veces)
       THEN "ahorro" ELSE estado[d]]
  /\ UNCHANGED <<creadas, incidentes, alterada>>

(* The stream keeps the order: no incident begins after it was cancelled.  *)
EnOrden(i) == <<i, "cancelado">> \notin incidentes

Next ==
  \/ \E i \in Incidentes, r \in Rangos :
       \/ RecibeCancelado(i, r)
       \/ EnOrden(i) /\ RecibePendiente(i, r)
  \/ \E c \in Camaras : NuevaCamara(c) \/ EliminarCamara(c)

Spec == Init /\ [][Next]_vars

-----------------------------------------------------------------------------
(* Properties                                                              *)

TypeOK ==
  /\ lista_de_camaras \subseteq creadas /\ creadas \subseteq Camaras
  /\ estado \in [Camaras -> {"ahorro", "grabando"}]
  /\ incidentes_id \in [Camaras -> SUBSET Incidentes]
  /\ numlindantes \in [Camaras -> Int]
  /\ incidentes \subseteq Incidentes \X {"pendiente", "cancelado"}
  /\ alterada \in BOOLEAN

(* A camera with an incident near it is recording, whatever came before:   *)
(* late cameras, removed ones, duplicated messages, counts gone wrong.     *)
GrabaSuIncidente ==
  \A c \in lista_de_camaras : incidentes_id[c] # {} => estado[c] = "grabando"

Vecinas(c) == {d \in lista_de_camaras : c \in Lindantes[d] /\ d # c}

(* The incidents of the neighbours, one by one.                            *)
DeVecinas(c) ==
  {p \in Camaras \X Incidentes : p[1] \in Vecinas(c) /\ p[2] \in incidentes_id[p[1]]}

(* The count of a camera is what its neighbours have, whatever the order   *)
(* of incidents that overlap, messages that come twice, cameras removed,   *)
(* and cancels out of range.  Two things break it, and are left out: a     *)
(* camera added beside one that has an incident starts from 0 (it is not   *)
(* told), and a cancel that reaches a camera without the incident          *)
(* discounts its neighbours, and it itself, for what they never counted.   *)
CuentaExacta ==
  alterada \/ \A c \in lista_de_camaras :
    numlindantes[c] = Cardinality(DeVecinas(c))

(* With the same two left out, a camera records exactly while it or a      *)
(* neighbour has an incident.  One that was cancelled out of its range is  *)
(* still had, so it goes on recording.                                     *)
GrabaLoJusto ==
  alterada \/ \A c \in lista_de_camaras :
    estado[c] = "grabando" <=>
      \E d \in lista_de_camaras : c \in Lindantes[d] /\ incidentes_id[d] # {}
=============================================================================
