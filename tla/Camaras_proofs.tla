--------------------------- MODULE Camaras_proofs ---------------------------
(***************************************************************************)
(* The cameras, for every finite set of them and of incidents, whatever    *)
(* the positions reach: a camera records while it has an incident, and the *)
(* counts are exact until a camera is added beside an incident or one is   *)
(* cancelled where it was not.                                             *)
(***************************************************************************)
EXTENDS Camaras, FiniteSetTheorems, TLAPS

(* The id of a camera that was never added: nothing reaches it.            *)
SinCrear ==
  \A c \in Camaras \ creadas :
    estado[c] = "ahorro" /\ incidentes_id[c] = {} /\ numlindantes[c] = 0

(* A camera only has incidents that the central saw begin.                 *)
TienenLoVisto ==
  \A c \in Camaras : \A i \in incidentes_id[c] : <<i, "pendiente">> \in incidentes

Inv ==
  /\ TypeOK
  /\ SinCrear
  /\ TienenLoVisto
  /\ GrabaSuIncidente
  /\ CuentaExacta
  /\ GrabaLoJusto

-----------------------------------------------------------------------------
(* Counting                                                                *)

LEMMA AvisosNatural ==
  ASSUME NEW cs \in SUBSET Camaras, NEW c \in Camaras
  PROVE  /\ AvisosDe(cs, c) \in Nat
         /\ AvisosDe(cs, c) > 0 <=> \E d \in cs : c \in Lindantes[d]
<1> DEFINE A == {d \in cs : c \in Lindantes[d]}
<1>1. IsFiniteSet(A)
  BY CamarasAssumption, FS_Subset, A \in SUBSET Camaras
<1>2. Cardinality(A) \in Nat /\ (Cardinality(A) = 0 <=> A = {})
  BY <1>1, FS_CardinalityType, FS_EmptySet
<1> QED BY <1>2 DEF AvisosDe

(* What the cameras cs bring to the count of c with the incident i.        *)
Traen(cs, c, i) ==
  {p \in Camaras \X Incidentes :
     p[1] \in cs /\ p[1] # c /\ c \in Lindantes[p[1]] /\ p[2] = i}

(* Each of them is one incident: a camera tells itself too, which is the   *)
(* one that the code discounts.                                            *)
LEMMA TraenUnoCadaUna ==
  ASSUME NEW cs \in SUBSET Camaras, NEW c \in Camaras, NEW i \in Incidentes
  PROVE  /\ IsFiniteSet(Traen(cs, c, i))
         /\ Cardinality(Traen(cs, c, i)) =
              AvisosDe(cs, c) - (IF c \in cs THEN 1 ELSE 0)
<1> DEFINE A == {d \in cs : c \in Lindantes[d]}
<1>1. IsFiniteSet(A) /\ Cardinality(A) = AvisosDe(cs, c) /\ Cardinality(A) \in Nat
  BY CamarasAssumption, FS_Subset, FS_CardinalityType, A \in SUBSET Camaras
     DEF AvisosDe
<1>2. c \in A <=> c \in cs
  BY CamarasAssumption
<1>3. /\ IsFiniteSet(A \ {c})
      /\ Cardinality(A \ {c}) =
           IF c \in A THEN Cardinality(A) - 1 ELSE Cardinality(A)
  BY <1>1, FS_RemoveElement
<1>4. Traen(cs, c, i) = (A \ {c}) \X {i}
  BY DEF Traen
<1>5. /\ IsFiniteSet((A \ {c}) \X {i})
      /\ Cardinality((A \ {c}) \X {i}) = Cardinality(A \ {c}) * Cardinality({i})
      /\ Cardinality({i}) = 1
  BY <1>3, FS_Product, FS_Singleton
<1>6. Cardinality(A \ {c}) \in Nat
  BY <1>3, FS_CardinalityType
<1> HIDE DEF A
<1> QED BY <1>1, <1>2, <1>3, <1>4, <1>5, <1>6

(* The incidents inc of the cameras L that c has as neighbours.            *)
Pares(L, inc, c) ==
  {p \in Camaras \X Incidentes :
     p[1] \in L /\ c \in Lindantes[p[1]] /\ p[1] # c /\ p[2] \in inc[p[1]]}

(* There is something to count exactly when a neighbour has an incident.   *)
LEMMA ParesContados ==
  ASSUME NEW L \in SUBSET Camaras, NEW inc \in [Camaras -> SUBSET Incidentes],
         NEW c \in Camaras
  PROVE  /\ IsFiniteSet(Pares(L, inc, c))
         /\ Cardinality(Pares(L, inc, c)) \in Nat
         /\ Cardinality(Pares(L, inc, c)) = 0 <=>
              \A d \in L : d # c /\ c \in Lindantes[d] => inc[d] = {}
<1> DEFINE P == Pares(L, inc, c)
<1> USE DEF Pares
<1>1. IsFiniteSet(Camaras \X Incidentes)
  BY CamarasAssumption, FS_Product
<1>2. P \in SUBSET (Camaras \X Incidentes)
  OBVIOUS
<1>3. IsFiniteSet(P) /\ Cardinality(P) \in Nat /\ (Cardinality(P) = 0 <=> P = {})
  BY <1>1, <1>2, FS_Subset, FS_CardinalityType, FS_EmptySet
<1>4. ASSUME P # {}
      PROVE  \E d \in L : d # c /\ c \in Lindantes[d] /\ inc[d] # {}
  BY <1>4
<1>5. ASSUME NEW d \in L, d # c, c \in Lindantes[d], inc[d] # {}
      PROVE  P # {}
  <2>1. PICK j \in inc[d] : TRUE
    BY <1>5
  <2>2. <<d, j>> \in P
    BY <1>5, <2>1
  <2> QED BY <2>2
<1> QED BY <1>3, <1>4, <1>5

LEMMA DeVecinasContados ==
  ASSUME TypeOK, NEW c \in Camaras
  PROVE  /\ IsFiniteSet(DeVecinas(c))
         /\ Cardinality(DeVecinas(c)) \in Nat
         /\ Cardinality(DeVecinas(c)) = 0 <=>
              \A d \in lista_de_camaras :
                d # c /\ c \in Lindantes[d] => incidentes_id[d] = {}
<1>1. /\ lista_de_camaras \in SUBSET Camaras
      /\ incidentes_id \in [Camaras -> SUBSET Incidentes]
  BY DEF TypeOK
<1>2. DeVecinas(c) = Pares(lista_de_camaras, incidentes_id, c)
  BY DEF DeVecinas, Vecinas, Pares
<1> QED BY <1>1, <1>2, ParesContados

LEMMA DeVecinasContadosLuego ==
  ASSUME TypeOK', NEW c \in Camaras
  PROVE  /\ Cardinality(DeVecinas(c)') \in Nat
         /\ Cardinality(DeVecinas(c)') = 0 <=>
              \A d \in lista_de_camaras' :
                d # c /\ c \in Lindantes[d] => incidentes_id'[d] = {}
<1>1. /\ lista_de_camaras' \in SUBSET Camaras
      /\ incidentes_id' \in [Camaras -> SUBSET Incidentes]
  BY DEF TypeOK
<1>2. DeVecinas(c)' = Pares(lista_de_camaras', incidentes_id', c)
  BY DEF DeVecinas, Vecinas, Pares
<1> QED BY <1>1, <1>2, ParesContados

LEMMA UnionDisjunta ==
  ASSUME NEW S, IsFiniteSet(S), NEW T, IsFiniteSet(T), S \cap T = {}
  PROVE  Cardinality(S \cup T) = Cardinality(S) + Cardinality(T)
<1>1. Cardinality(S) \in Nat /\ Cardinality(T) \in Nat
  BY FS_CardinalityType
<1>2. Cardinality(S \cup T) = Cardinality(S) + Cardinality(T) - Cardinality(S \cap T)
  BY FS_Union
<1>3. Cardinality(S \cap T) = 0
  BY FS_EmptySet
<1> QED BY <1>1, <1>2, <1>3

LEMMA RestaDeParte ==
  ASSUME NEW S, IsFiniteSet(S), NEW T, T \subseteq S
  PROVE  Cardinality(S \ T) = Cardinality(S) - Cardinality(T)
<1>1. S \cap T = T
  OBVIOUS
<1> QED BY <1>1, FS_Difference

-----------------------------------------------------------------------------
(* An incident begins                                                      *)

LEMMA PendienteTypeOK ==
  ASSUME TypeOK, NEW i \in Incidentes, NEW r \in Rangos, RecibePendiente(i, r)
  PROVE  TypeOK'
<1>1. Cercanas(r) \in SUBSET Camaras
  BY DEF TypeOK, Cercanas
<1>2. \A c \in Camaras : AvisosDe(Cercanas(r), c) \in Nat
  BY <1>1, AvisosNatural
<1>3. numlindantes' \in [Camaras -> Int]
  BY <1>2 DEF TypeOK, RecibePendiente
<1>4. estado' \in [Camaras -> {"ahorro", "grabando"}]
  BY DEF TypeOK, RecibePendiente
<1>5. incidentes_id' \in [Camaras -> SUBSET Incidentes]
  BY DEF TypeOK, RecibePendiente
<1> QED BY <1>3, <1>4, <1>5 DEF TypeOK, RecibePendiente

LEMMA PendienteSinCrear ==
  ASSUME Inv, NEW i \in Incidentes, NEW r \in Rangos, RecibePendiente(i, r)
  PROVE  SinCrear'
<1> SUFFICES ASSUME NEW c \in Camaras, c \notin creadas
             PROVE  /\ estado'[c] = "ahorro" /\ incidentes_id'[c] = {}
                    /\ numlindantes'[c] = 0
  BY DEF RecibePendiente, SinCrear
<1>1. c \notin lista_de_camaras
  BY DEF Inv, TypeOK
<1> QED BY <1>1 DEF Inv, SinCrear, RecibePendiente, Cercanas, Toca

LEMMA PendienteTienenLoVisto ==
  ASSUME Inv, NEW i \in Incidentes, NEW r \in Rangos, RecibePendiente(i, r)
  PROVE  TienenLoVisto'
<1> SUFFICES ASSUME NEW c \in Camaras, NEW j \in incidentes_id'[c]
             PROVE  <<j, "pendiente">> \in incidentes'
  BY DEF TienenLoVisto
<1>1. j \in incidentes_id[c] \cup {i}
  BY DEF RecibePendiente
<1>2. incidentes' = incidentes \cup {<<i, "pendiente">>}
  BY DEF RecibePendiente
<1> QED BY <1>1, <1>2 DEF Inv, TienenLoVisto

LEMMA PendienteGraba ==
  ASSUME Inv, NEW i \in Incidentes, NEW r \in Rangos, RecibePendiente(i, r)
  PROVE  GrabaSuIncidente'
<1> SUFFICES ASSUME NEW c \in lista_de_camaras, incidentes_id'[c] # {}
             PROVE  estado'[c] = "grabando"
  BY DEF RecibePendiente, GrabaSuIncidente
<1>1. c \in Camaras
  BY DEF Inv, TypeOK
<1>2. c \in Cercanas(r) /\ i \notin incidentes_id[c] => estado'[c] = "grabando"
  BY <1>1 DEF RecibePendiente
<1>3. incidentes_id[c] # {} => estado'[c] = "grabando"
  BY <1>1 DEF Inv, GrabaSuIncidente, RecibePendiente
<1>4. c \notin Cercanas(r) => incidentes_id'[c] = incidentes_id[c]
  BY <1>1 DEF RecibePendiente
<1> QED BY <1>2, <1>3, <1>4

(* The incident is new to every camera, and the count of each grows by     *)
(* what its neighbours now have.                                           *)
LEMMA PendienteCuenta ==
  ASSUME Inv, NEW i \in Incidentes, NEW r \in Rangos, RecibePendiente(i, r), ~alterada,
         NEW c \in lista_de_camaras
  PROVE  numlindantes'[c] = Cardinality(DeVecinas(c)')
<1> DEFINE cs == Cercanas(r)
<1>1. c \in Camaras /\ cs \in SUBSET Camaras /\ cs \subseteq lista_de_camaras
  BY DEF Inv, TypeOK, Cercanas
<1>2. \A d \in lista_de_camaras : i \notin incidentes_id[d]
  BY <1>1 DEF Inv, TypeOK, TienenLoVisto, RecibePendiente
<1>3. numlindantes'[c] = numlindantes[c] - (IF c \in cs THEN 1 ELSE 0)
                                         + AvisosDe(cs, c)
  <2>1. AvisosDe(cs, c) \in Nat /\ numlindantes[c] \in Int
    BY <1>1, AvisosNatural DEF Inv, TypeOK
  <2>2. numlindantes'[c] =
          numlindantes[c] - (IF c \in cs /\ i \notin incidentes_id[c] THEN 1 ELSE 0)
            + (IF AvisosDe(cs, c) > 0 THEN AvisosDe(cs, c) ELSE 0)
    BY <1>1 DEF RecibePendiente, Toca
  <2> QED BY <1>2, <2>1, <2>2
<1>4. DeVecinas(c)' = DeVecinas(c) \cup Traen(cs, c, i)
  <2>1. \A d \in lista_de_camaras : incidentes_id'[d] =
          IF d \in cs THEN incidentes_id[d] \cup {i} ELSE incidentes_id[d]
    BY DEF Inv, TypeOK, RecibePendiente
  <2>2. lista_de_camaras' = lista_de_camaras
    BY DEF RecibePendiente
  <2>3. ASSUME NEW p \in Camaras \X Incidentes
        PROVE  p \in DeVecinas(c)' <=> p \in DeVecinas(c) \/ p \in Traen(cs, c, i)
    <3> HIDE DEF cs
    <3>1. CASE p[1] \in cs
      <4>1. /\ p[1] \in lista_de_camaras
            /\ incidentes_id'[p[1]] = incidentes_id[p[1]] \cup {i}
        BY <1>1, <2>1, <3>1
      <4>2. p \in DeVecinas(c)' <=> p[1] \in Vecinas(c) /\ p[2] \in incidentes_id'[p[1]]
        BY <2>2 DEF DeVecinas, Vecinas
      <4>3. p \in Traen(cs, c, i) <=> p[1] \in Vecinas(c) /\ p[2] = i
        BY <3>1, <4>1 DEF Traen, Vecinas
      <4> QED BY <4>1, <4>2, <4>3 DEF DeVecinas
    <3>2. CASE p[1] \notin cs
      BY <1>1, <2>1, <2>2, <3>2 DEF DeVecinas, Vecinas, Traen
    <3> QED BY <3>1, <3>2
  <2>4. /\ DeVecinas(c)' \subseteq Camaras \X Incidentes
        /\ DeVecinas(c) \subseteq Camaras \X Incidentes
        /\ Traen(cs, c, i) \subseteq Camaras \X Incidentes
    BY DEF DeVecinas, Traen
  <2> QED BY <2>3, <2>4
<1>5. DeVecinas(c) \cap Traen(cs, c, i) = {}
  BY <1>2 DEF DeVecinas, Vecinas, Traen
<1>6. /\ IsFiniteSet(Traen(cs, c, i))
      /\ Cardinality(Traen(cs, c, i)) =
           AvisosDe(cs, c) - (IF c \in cs THEN 1 ELSE 0)
  BY <1>1, TraenUnoCadaUna
<1>7. IsFiniteSet(DeVecinas(c))
  BY <1>1, DeVecinasContados DEF Inv
<1>8. Cardinality(DeVecinas(c)') =
        Cardinality(DeVecinas(c)) + Cardinality(Traen(cs, c, i))
  BY <1>4, <1>5, <1>6, <1>7, UnionDisjunta
<1>9. numlindantes[c] = Cardinality(DeVecinas(c))
  BY DEF Inv, CuentaExacta
<1>10. AvisosDe(cs, c) \in Nat /\ numlindantes[c] \in Int
  BY <1>1, AvisosNatural DEF Inv, TypeOK
<1> HIDE DEF cs
<1> QED BY <1>3, <1>6, <1>8, <1>9, <1>10

LEMMA PendienteLoJusto ==
  ASSUME Inv, NEW i \in Incidentes, NEW r \in Rangos, RecibePendiente(i, r)
  PROVE  GrabaLoJusto'
<1> SUFFICES ASSUME ~alterada, NEW c \in lista_de_camaras
             PROVE  estado'[c] = "grabando" <=>
                      \E d \in lista_de_camaras :
                        c \in Lindantes[d] /\ incidentes_id'[d] # {}
  BY DEF RecibePendiente, GrabaLoJusto
<1>1. /\ c \in Camaras /\ c \in Lindantes[c]
      /\ Cercanas(r) \in SUBSET Camaras /\ Cercanas(r) \subseteq lista_de_camaras
  BY CamarasAssumption DEF Inv, TypeOK, Cercanas
<1>2. estado'[c] =
        IF \/ c \in Cercanas(r) /\ i \notin incidentes_id[c]
           \/ AvisosDe(Cercanas(r), c) > 0
        THEN "grabando" ELSE estado[c]
  BY <1>1 DEF RecibePendiente, Toca
<1>3. AvisosDe(Cercanas(r), c) > 0 <=> \E d \in Cercanas(r) : c \in Lindantes[d]
  BY <1>1, AvisosNatural
<1>4. \A d \in lista_de_camaras : incidentes_id'[d] =
        IF d \in Cercanas(r) THEN incidentes_id[d] \cup {i} ELSE incidentes_id[d]
  BY DEF Inv, TypeOK, RecibePendiente
<1>5. estado[c] = "grabando" <=>
        \E d \in lista_de_camaras : c \in Lindantes[d] /\ incidentes_id[d] # {}
  BY DEF Inv, GrabaLoJusto
<1> QED BY <1>1, <1>2, <1>3, <1>4, <1>5

-----------------------------------------------------------------------------
(* An incident ends                                                        *)

LEMMA CanceladoTypeOK ==
  ASSUME TypeOK, NEW i \in Incidentes, NEW r \in Rangos, RecibeCancelado(i, r)
  PROVE  TypeOK'
<1>1. Cercanas(r) \in SUBSET Camaras
  BY DEF TypeOK, Cercanas
<1>2. \A c \in Camaras : AvisosDe(Cercanas(r), c) \in Nat
  BY <1>1, AvisosNatural
<1>3. numlindantes' \in [Camaras -> Int]
  BY <1>2 DEF TypeOK, RecibeCancelado
<1>4. estado' \in [Camaras -> {"ahorro", "grabando"}]
  BY DEF TypeOK, RecibeCancelado
<1>5. incidentes_id' \in [Camaras -> SUBSET Incidentes]
  BY DEF TypeOK, RecibeCancelado
<1>6. /\ incidentes' = incidentes \cup {<<i, "cancelado">>}
      /\ alterada' \in BOOLEAN
      /\ UNCHANGED <<lista_de_camaras, creadas>>
  BY DEF RecibeCancelado
<1> QED BY <1>3, <1>4, <1>5, <1>6 DEF TypeOK

LEMMA CanceladoSinCrear ==
  ASSUME Inv, NEW i \in Incidentes, NEW r \in Rangos, RecibeCancelado(i, r)
  PROVE  SinCrear'
<1> SUFFICES ASSUME NEW c \in Camaras, c \notin creadas
             PROVE  /\ estado'[c] = "ahorro" /\ incidentes_id'[c] = {}
                    /\ numlindantes'[c] = 0
  BY DEF RecibeCancelado, SinCrear
<1>1. c \notin lista_de_camaras
  BY DEF Inv, TypeOK
<1>2. estado[c] = "ahorro" /\ incidentes_id[c] = {} /\ numlindantes[c] = 0
  BY DEF Inv, SinCrear
<1>3. c \notin Cercanas(r) /\ ~Toca(Cercanas(r), c)
  BY <1>1 DEF Cercanas, Toca
<1> QED BY <1>2, <1>3 DEF RecibeCancelado

LEMMA CanceladoTienenLoVisto ==
  ASSUME Inv, NEW i \in Incidentes, NEW r \in Rangos, RecibeCancelado(i, r)
  PROVE  TienenLoVisto'
<1> SUFFICES ASSUME NEW c \in Camaras, NEW j \in incidentes_id'[c]
             PROVE  <<j, "pendiente">> \in incidentes'
  BY DEF TienenLoVisto
<1>1. j \in incidentes_id[c]
  BY DEF RecibeCancelado
<1>2. incidentes' = incidentes \cup {<<i, "cancelado">>}
  BY DEF RecibeCancelado
<1> QED BY <1>1, <1>2 DEF Inv, TienenLoVisto

(* A camera only rests when it is left with no incident of its own.        *)
LEMMA CanceladoAhorra ==
  ASSUME TypeOK, NEW i \in Incidentes, NEW r \in Rangos, RecibeCancelado(i, r), NEW c \in Camaras
  PROVE  /\ incidentes_id'[c] # {} => estado'[c] = estado[c]
         /\ estado'[c] \in {"ahorro", estado[c]}
  BY DEF RecibeCancelado, AhorraTrasAvisos

LEMMA CanceladoGraba ==
  ASSUME Inv, NEW i \in Incidentes, NEW r \in Rangos, RecibeCancelado(i, r)
  PROVE  GrabaSuIncidente'
<1> SUFFICES ASSUME NEW c \in lista_de_camaras, incidentes_id'[c] # {}
             PROVE  estado'[c] = "grabando"
  BY DEF RecibeCancelado, GrabaSuIncidente
<1>1. c \in Camaras
  BY DEF Inv, TypeOK
<1>2. estado'[c] = estado[c]
  BY <1>1, CanceladoAhorra DEF Inv
<1>3. incidentes_id[c] # {}
  BY <1>1 DEF RecibeCancelado
<1> QED BY <1>2, <1>3 DEF Inv, GrabaSuIncidente

(* While no cancel reached a camera without the incident, the count of     *)
(* each goes down by what its neighbours lose, though others keep it.      *)
LEMMA CanceladoCuenta ==
  ASSUME Inv, NEW i \in Incidentes, NEW r \in Rangos, RecibeCancelado(i, r), ~alterada',
         NEW c \in lista_de_camaras
  PROVE  /\ numlindantes'[c] = Cardinality(DeVecinas(c)')
         /\ numlindantes'[c] =
              numlindantes[c] + (IF c \in Cercanas(r) THEN 1 ELSE 0)
                              - AvisosDe(Cercanas(r), c)
<1> DEFINE cs == Cercanas(r)
<1>1. c \in Camaras /\ cs \in SUBSET Camaras /\ cs \subseteq lista_de_camaras
  BY DEF Inv, TypeOK, Cercanas
<1>2. ~alterada /\ \A d \in cs : i \in incidentes_id[d]
  BY DEF Inv, TypeOK, RecibeCancelado
<1>3. numlindantes'[c] = numlindantes[c] + (IF c \in cs THEN 1 ELSE 0)
                                         - AvisosDe(cs, c)
  <2>1. AvisosDe(cs, c) \in Nat /\ numlindantes[c] \in Int
    BY <1>1, AvisosNatural DEF Inv, TypeOK
  <2>2. numlindantes'[c] =
          (numlindantes[c] + (IF c \in cs THEN 1 ELSE 0))
            - (IF AvisosDe(cs, c) > 0 THEN AvisosDe(cs, c) ELSE 0)
    BY <1>1 DEF RecibeCancelado, Toca
  <2> HIDE DEF cs
  <2> QED BY <2>1, <2>2
<1>4. DeVecinas(c)' = DeVecinas(c) \ Traen(cs, c, i)
  <2>1. \A d \in lista_de_camaras : incidentes_id'[d] =
          IF d \in cs THEN incidentes_id[d] \ {i} ELSE incidentes_id[d]
    BY DEF Inv, TypeOK, RecibeCancelado
  <2>2. lista_de_camaras' = lista_de_camaras
    BY DEF RecibeCancelado
  <2>3. ASSUME NEW p \in Camaras \X Incidentes
        PROVE  p \in DeVecinas(c)' <=> p \in DeVecinas(c) /\ p \notin Traen(cs, c, i)
    <3> HIDE DEF cs
    <3> QED BY <1>1, <2>1, <2>2 DEF DeVecinas, Vecinas, Traen
  <2>4. /\ DeVecinas(c)' \subseteq Camaras \X Incidentes
        /\ DeVecinas(c) \subseteq Camaras \X Incidentes
    BY DEF DeVecinas
  <2> QED BY <2>3, <2>4
<1>5. Traen(cs, c, i) \subseteq DeVecinas(c)
  <2> HIDE DEF cs
  <2> QED BY <1>1, <1>2 DEF DeVecinas, Vecinas, Traen
<1>6. Cardinality(Traen(cs, c, i)) =
        AvisosDe(cs, c) - (IF c \in cs THEN 1 ELSE 0)
  BY <1>1, TraenUnoCadaUna
<1>7. IsFiniteSet(DeVecinas(c))
  BY <1>1, DeVecinasContados DEF Inv
<1>8. Cardinality(DeVecinas(c)') =
        Cardinality(DeVecinas(c)) - Cardinality(Traen(cs, c, i))
  BY <1>4, <1>5, <1>7, RestaDeParte
<1>9. numlindantes[c] = Cardinality(DeVecinas(c))
  BY <1>2 DEF Inv, CuentaExacta
<1>10. AvisosDe(cs, c) \in Nat /\ numlindantes[c] \in Int
  BY <1>1, AvisosNatural DEF Inv, TypeOK
<1> HIDE DEF cs
<1>11. numlindantes'[c] = Cardinality(DeVecinas(c)')
  BY <1>3, <1>6, <1>8, <1>9, <1>10
<1> QED BY <1>3, <1>11 DEF cs

(* The count cannot go below 0, so that the camera that gets to nothing    *)
(* passes by 0 and rests, and the one that does not keeps recording.       *)
LEMMA CanceladoLoJusto ==
  ASSUME Inv, NEW i \in Incidentes, NEW r \in Rangos, RecibeCancelado(i, r), TypeOK'
  PROVE  GrabaLoJusto'
<1> SUFFICES ASSUME ~alterada', NEW c \in lista_de_camaras
             PROVE  estado'[c] = "grabando" <=>
                      \E d \in lista_de_camaras :
                        c \in Lindantes[d] /\ incidentes_id'[d] # {}
  BY DEF RecibeCancelado, GrabaLoJusto
<1> DEFINE k == AvisosDe(Cercanas(r), c)
           uno == IF c \in Cercanas(r) THEN 1 ELSE 0
<1>1. /\ c \in Camaras /\ c \in Lindantes[c] /\ ~alterada
      /\ Cercanas(r) \in SUBSET Camaras /\ Cercanas(r) \subseteq lista_de_camaras
      /\ lista_de_camaras' = lista_de_camaras
  BY CamarasAssumption DEF Inv, TypeOK, Cercanas, RecibeCancelado
<1>2. k \in Nat /\ (c \in Cercanas(r) => k > 0) /\ numlindantes[c] \in Int
  BY <1>1, AvisosNatural DEF Inv, TypeOK
<1>3. numlindantes'[c] = numlindantes[c] + uno - k
  BY CanceladoCuenta
<1>4. /\ numlindantes'[c] \in Nat
      /\ numlindantes'[c] # 0 <=>
           \E d \in lista_de_camaras :
             d # c /\ c \in Lindantes[d] /\ incidentes_id'[d] # {}
  BY <1>1, CanceladoCuenta, DeVecinasContadosLuego
<1>5. /\ incidentes_id'[c] \subseteq incidentes_id[c]
      /\ c \notin Cercanas(r) => incidentes_id'[c] = incidentes_id[c]
  BY <1>1 DEF RecibeCancelado
<1>6. estado'[c] =
        IF \/ i \in incidentes_id[c] /\ c \in Cercanas(r)
              /\ incidentes_id'[c] = {} /\ numlindantes[c] + uno = 0
           \/ /\ incidentes_id'[c] = {}
              /\ numlindantes[c] + uno \in 1..(IF k > 0 THEN k ELSE 0)
        THEN "ahorro" ELSE estado[c]
  BY <1>1 DEF RecibeCancelado, Toca, AhorraTrasAvisos, PasaPorCero
<1>7. numlindantes[c] \in Nat /\
      (estado[c] = "grabando" <=> incidentes_id[c] # {} \/ numlindantes[c] # 0)
  <2>1. numlindantes[c] = Cardinality(DeVecinas(c))
    BY <1>1 DEF Inv, CuentaExacta
  <2>2. estado[c] = "grabando" <=>
          \E d \in lista_de_camaras : c \in Lindantes[d] /\ incidentes_id[d] # {}
    BY <1>1 DEF Inv, GrabaLoJusto
  <2> QED BY <1>1, <2>1, <2>2, DeVecinasContados DEF Inv
<1>8. estado'[c] = "grabando" <=> incidentes_id'[c] # {} \/ numlindantes'[c] # 0
  <2>1. estado[c] \in {"ahorro", "grabando"}
    BY <1>1 DEF Inv, TypeOK
  <2>2. uno \in 0..1 /\ (c \notin Cercanas(r) => uno = 0)
        /\ (c \in Cercanas(r) => uno = 1)
    OBVIOUS
  <2> HIDE DEF k, uno
  <2>3. CASE incidentes_id'[c] # {}
    BY <1>5, <1>6, <1>7, <2>3
  <2>4. CASE incidentes_id'[c] = {} /\ numlindantes'[c] # 0
    <3>1. numlindantes[c] + uno > k
      BY <1>2, <1>3, <1>4, <2>4, <2>2, <1>7
    <3> QED BY <1>2, <1>6, <1>7, <2>2, <2>4, <3>1
  <2>5. CASE incidentes_id'[c] = {} /\ numlindantes'[c] = 0
    <3>1. numlindantes[c] + uno = k
      BY <1>2, <1>3, <2>2, <2>5, <1>7
    <3>2. CASE k > 0
      BY <1>2, <1>6, <2>5, <3>1, <3>2
    <3>3. CASE k = 0
      BY <1>2, <1>5, <1>6, <1>7, <2>1, <2>2, <2>5, <3>1, <3>3
    <3> QED BY <1>2, <3>2, <3>3
  <2> QED BY <2>3, <2>4, <2>5
<1> HIDE DEF k, uno
<1> QED BY <1>1, <1>4, <1>8

-----------------------------------------------------------------------------
(* The user                                                                *)

(* A new camera beside no incident counts 0, and brings nothing to count.  *)
LEMMA NuevaInv ==
  ASSUME Inv, NEW n \in Camaras, NuevaCamara(n)
  PROVE  Inv'
<1> USE DEF Inv, NuevaCamara
<1>1. TypeOK'
  BY DEF TypeOK
<1>2. SinCrear'
  BY DEF SinCrear
<1>3. estado[n] = "ahorro" /\ incidentes_id[n] = {} /\ numlindantes[n] = 0
  BY DEF SinCrear
<1>4. ASSUME ~alterada'
      PROVE  ~alterada /\ \A d \in lista_de_camaras :
                             n \in Lindantes[d] => incidentes_id[d] = {}
  BY <1>4
<1>5. TienenLoVisto'
  BY DEF TienenLoVisto
<1>6. GrabaSuIncidente'
  BY <1>3 DEF GrabaSuIncidente
<1>7. ASSUME ~alterada', NEW c \in lista_de_camaras'
      PROVE  numlindantes'[c] = Cardinality(DeVecinas(c)')
  <2>1. c \in Camaras
    BY <1>7 DEF TypeOK
  <2>2. CASE c = n
    <3>1. \A d \in lista_de_camaras' :
            d # c /\ c \in Lindantes[d] => incidentes_id'[d] = {}
      BY <1>4, <1>7, <2>2
    <3>2. Cardinality(DeVecinas(c)') = 0
      BY <1>1, <2>1, <3>1, DeVecinasContadosLuego
    <3> QED BY <1>3, <2>2, <3>2
  <2>3. CASE c # n
    <3>1. c \in lista_de_camaras /\ ~alterada
      BY <1>4, <1>7, <2>3
    <3>2. DeVecinas(c)' = DeVecinas(c)
      BY <1>3 DEF DeVecinas, Vecinas
    <3>3. numlindantes[c] = Cardinality(DeVecinas(c))
      BY <3>1 DEF CuentaExacta
    <3> QED BY <3>2, <3>3
  <2> QED BY <2>2, <2>3
<1>8. CuentaExacta'
  BY <1>7 DEF CuentaExacta
<1>9. GrabaLoJusto'
  <2> SUFFICES ASSUME ~alterada', NEW c \in lista_de_camaras'
               PROVE  estado[c] = "grabando" <=>
                        \E d \in lista_de_camaras' :
                          c \in Lindantes[d] /\ incidentes_id[d] # {}
    BY DEF GrabaLoJusto
  <2>1. CASE c = n
    BY <1>3, <1>4, <2>1
  <2>2. CASE c # n
    <3>1. c \in lista_de_camaras /\ ~alterada
      BY <1>4, <2>2
    <3> QED BY <1>3, <3>1 DEF GrabaLoJusto
  <2> QED BY <2>1, <2>2
<1> QED BY <1>1, <1>2, <1>5, <1>6, <1>8, <1>9

(* The camera that goes takes its incidents out of the count of each       *)
(* neighbour, one by one.                                                  *)
LEMMA EliminarCuenta ==
  ASSUME Inv, NEW e \in Camaras, EliminarCamara(e), ~alterada,
         NEW c \in lista_de_camaras'
  PROVE  /\ numlindantes'[c] = Cardinality(DeVecinas(c)')
         /\ numlindantes'[c] = numlindantes[c] -
              (IF c \in Lindantes[e] THEN Cardinality(incidentes_id[e]) ELSE 0)
<1> DEFINE veces == Cardinality(incidentes_id[e])
           suyos == {e} \X incidentes_id[e]
<1>1. /\ c \in Camaras /\ c \in lista_de_camaras /\ c # e
      /\ e \in lista_de_camaras
      /\ c \in Lindantes[e] <=> e \in Lindantes[c]
      /\ lista_de_camaras \subseteq Camaras
      /\ lista_de_camaras' = lista_de_camaras \ {e}
  BY CamarasAssumption DEF Inv, TypeOK, EliminarCamara
<1>2. /\ IsFiniteSet(incidentes_id[e]) /\ veces \in Nat
      /\ incidentes_id[e] \subseteq Incidentes
  BY CamarasAssumption, FS_Subset, FS_CardinalityType DEF Inv, TypeOK
<1>3. Cardinality(suyos) = veces
  <2>1. IsFiniteSet({e}) /\ Cardinality({e}) = 1
    BY FS_Singleton, FS_EmptySet, FS_AddElement
  <2>2. Cardinality(suyos) = 1 * veces
    BY <1>2, <2>1, FS_Product
  <2> QED BY <1>2, <2>2
<1>4. IsFiniteSet(DeVecinas(c)) /\ numlindantes[c] = Cardinality(DeVecinas(c))
  BY <1>1, DeVecinasContados DEF Inv, CuentaExacta
<1>5. numlindantes'[c] =
        IF c \in Lindantes[e] THEN numlindantes[c] - veces ELSE numlindantes[c]
  BY <1>1 DEF EliminarCamara
<1>6. \A d \in Camaras :
        incidentes_id'[d] = IF d = e THEN {} ELSE incidentes_id[d]
  BY DEF Inv, TypeOK, EliminarCamara
<1>7. ASSUME NEW p \in Camaras \X Incidentes
      PROVE  p \in DeVecinas(c)' <=> p \in DeVecinas(c) /\ p[1] # e
  BY <1>1, <1>6 DEF DeVecinas, Vecinas
<1>8. /\ DeVecinas(c)' \subseteq Camaras \X Incidentes
      /\ DeVecinas(c) \subseteq Camaras \X Incidentes
  BY DEF DeVecinas
<1>9. CASE c \in Lindantes[e]
  <2>1. suyos \subseteq DeVecinas(c)
    BY <1>1, <1>2, <1>9, CamarasAssumption DEF DeVecinas, Vecinas
  <2>2. DeVecinas(c)' = DeVecinas(c) \ suyos
    <3>1. \A p \in DeVecinas(c) : p \in suyos <=> p[1] = e
      BY <1>1 DEF DeVecinas, Vecinas
    <3> QED BY <1>7, <1>8, <3>1
  <2>3. Cardinality(DeVecinas(c)') = Cardinality(DeVecinas(c)) - Cardinality(suyos)
    BY <1>4, <2>1, <2>2, RestaDeParte
  <2> QED BY <1>3, <1>4, <1>5, <1>9, <2>3
<1>10. CASE c \notin Lindantes[e]
  <2>1. DeVecinas(c)' = DeVecinas(c)
    <3>1. \A p \in DeVecinas(c) : p[1] # e
      BY <1>1, <1>10 DEF DeVecinas, Vecinas
    <3> QED BY <1>7, <1>8, <3>1
  <2>2. numlindantes[c] \in Int
    BY <1>1 DEF Inv, TypeOK
  <2> QED BY <1>4, <1>5, <1>10, <2>1, <2>2
<1> QED BY <1>9, <1>10

LEMMA EliminarLoJusto ==
  ASSUME Inv, NEW e \in Camaras, EliminarCamara(e), TypeOK'
  PROVE  GrabaLoJusto'
<1> SUFFICES ASSUME ~alterada, NEW c \in lista_de_camaras'
             PROVE  estado'[c] = "grabando" <=>
                      \E d \in lista_de_camaras' :
                        c \in Lindantes[d] /\ incidentes_id'[d] # {}
  BY DEF EliminarCamara, GrabaLoJusto
<1> DEFINE k == Cardinality(incidentes_id[e])
<1>1. /\ c \in Camaras /\ c \in lista_de_camaras /\ c # e
      /\ c \in Lindantes[c] /\ e \in lista_de_camaras
      /\ c \in Lindantes[e] <=> e \in Lindantes[c]
      /\ lista_de_camaras' = lista_de_camaras \ {e}
  BY CamarasAssumption DEF Inv, TypeOK, EliminarCamara
<1>2. k \in Nat
  BY CamarasAssumption, FS_Subset, FS_CardinalityType DEF Inv, TypeOK
<1>3. numlindantes'[c] = numlindantes[c] - (IF c \in Lindantes[e] THEN k ELSE 0)
  BY EliminarCuenta
<1>4. /\ numlindantes'[c] \in Nat
      /\ numlindantes'[c] = 0 <=>
           \A d \in lista_de_camaras' :
             d # c /\ c \in Lindantes[d] => incidentes_id'[d] = {}
  BY <1>1, EliminarCuenta, DeVecinasContadosLuego
<1>5. incidentes_id'[c] = incidentes_id[c]
  BY <1>1 DEF Inv, TypeOK, EliminarCamara
<1>6. estado'[c] =
        IF c \in Lindantes[e] /\ incidentes_id'[c] = {} /\ numlindantes[c] \in 1..k
        THEN "ahorro" ELSE estado[c]
  BY <1>1 DEF EliminarCamara, AhorraTrasAvisos, PasaPorCero
<1>7. numlindantes[c] \in Nat /\
      (estado[c] = "grabando" <=> incidentes_id[c] # {} \/ numlindantes[c] # 0)
  <2>1. numlindantes[c] = Cardinality(DeVecinas(c))
    BY <1>1 DEF Inv, CuentaExacta
  <2>2. estado[c] = "grabando" <=>
          \E d \in lista_de_camaras : c \in Lindantes[d] /\ incidentes_id[d] # {}
    BY <1>1 DEF Inv, GrabaLoJusto
  <2> QED BY <1>1, <2>1, <2>2, DeVecinasContados DEF Inv
<1>8. estado'[c] = "grabando" <=> incidentes_id'[c] # {} \/ numlindantes'[c] # 0
  <2>1. estado[c] \in {"ahorro", "grabando"}
    BY <1>1 DEF Inv, TypeOK
  <2> HIDE DEF k
  <2>2. CASE c \in Lindantes[e]
    BY <1>2, <1>3, <1>4, <1>5, <1>6, <1>7, <2>1, <2>2
  <2>3. CASE c \notin Lindantes[e]
    BY <1>3, <1>5, <1>6, <1>7, <2>3
  <2> QED BY <2>2, <2>3
<1> HIDE DEF k
<1> QED BY <1>1, <1>4, <1>8

LEMMA EliminarInv ==
  ASSUME Inv, NEW e \in Camaras, EliminarCamara(e)
  PROVE  Inv'
<1> USE DEF Inv
<1>1. TypeOK'
  <2>1. Cardinality(incidentes_id[e]) \in Nat
    BY CamarasAssumption, FS_Subset, FS_CardinalityType DEF TypeOK
  <2>2. numlindantes' \in [Camaras -> Int]
    BY <2>1 DEF TypeOK, EliminarCamara
  <2>3. estado' \in [Camaras -> {"ahorro", "grabando"}]
    BY DEF TypeOK, EliminarCamara
  <2>4. incidentes_id' \in [Camaras -> SUBSET Incidentes]
    BY DEF TypeOK, EliminarCamara
  <2> QED BY <2>2, <2>3, <2>4 DEF TypeOK, EliminarCamara
<1>2. \A c \in Camaras :
        incidentes_id'[c] = IF c = e THEN {} ELSE incidentes_id[c]
  BY DEF TypeOK, EliminarCamara
<1>3. SinCrear'
  BY <1>2 DEF SinCrear, TypeOK, EliminarCamara
<1>4. TienenLoVisto'
  BY <1>2 DEF TienenLoVisto, TypeOK, EliminarCamara
<1>5. GrabaSuIncidente'
  BY <1>2 DEF GrabaSuIncidente, TypeOK, EliminarCamara, AhorraTrasAvisos
<1>6. CuentaExacta'
  BY EliminarCuenta DEF CuentaExacta, EliminarCamara
<1>7. GrabaLoJusto'
  BY <1>1, EliminarLoJusto
<1> QED BY <1>1, <1>3, <1>4, <1>5, <1>6, <1>7

-----------------------------------------------------------------------------
(* The specification                                                       *)

LEMMA InitInv == Init => Inv
<1> SUFFICES ASSUME Init PROVE Inv
  OBVIOUS
<1> USE DEF Init
<1>1. TypeOK
  <2>1. numlindantes \in [Camaras -> Int]
    OBVIOUS
  <2>2. incidentes_id \in [Camaras -> SUBSET Incidentes]
    OBVIOUS
  <2>3. estado \in [Camaras -> {"ahorro", "grabando"}]
    OBVIOUS
  <2> QED BY <2>1, <2>2, <2>3 DEF TypeOK
<1>2. TienenLoVisto /\ GrabaSuIncidente /\ GrabaLoJusto
  BY DEF TienenLoVisto, GrabaSuIncidente, GrabaLoJusto
<1>3. CuentaExacta
  BY DEF CuentaExacta
<1>4. SinCrear
  BY DEF SinCrear
<1> QED BY <1>1, <1>2, <1>3, <1>4 DEF Inv

LEMMA NextInv == Inv /\ [Next]_vars => Inv'
<1> SUFFICES ASSUME Inv, [Next]_vars PROVE Inv'
  OBVIOUS
<1>1. CASE \E i \in Incidentes, r \in Rangos : RecibeCancelado(i, r)
  <2>1. PICK i \in Incidentes, r \in Rangos : RecibeCancelado(i, r)
    BY <1>1
  <2>2. TypeOK'
    BY <2>1, CanceladoTypeOK DEF Inv
  <2>3. CuentaExacta'
    BY <2>1, CanceladoCuenta DEF CuentaExacta, RecibeCancelado
  <2> QED BY <2>1, <2>2, <2>3, CanceladoSinCrear, CanceladoTienenLoVisto,
             CanceladoGraba, CanceladoLoJusto DEF Inv
<1>2. CASE \E i \in Incidentes, r \in Rangos : EnOrden(i) /\ RecibePendiente(i, r)
  <2>1. PICK i \in Incidentes, r \in Rangos : RecibePendiente(i, r)
    BY <1>2
  <2>2. TypeOK'
    BY <2>1, PendienteTypeOK DEF Inv
  <2>3. CuentaExacta'
    BY <2>1, PendienteCuenta DEF CuentaExacta, RecibePendiente
  <2> QED BY <2>1, <2>2, <2>3, PendienteSinCrear, PendienteTienenLoVisto,
             PendienteGraba, PendienteLoJusto DEF Inv
<1>3. CASE \E c \in Camaras : NuevaCamara(c) \/ EliminarCamara(c)
  BY <1>3, NuevaInv, EliminarInv
<1>4. CASE UNCHANGED vars
  <2> USE <1>4 DEF vars
  <2>1. TypeOK' /\ SinCrear' /\ TienenLoVisto' /\ GrabaSuIncidente'
    BY DEF Inv, TypeOK, SinCrear, TienenLoVisto, GrabaSuIncidente
  <2>2. CuentaExacta' /\ GrabaLoJusto'
    BY DEF Inv, CuentaExacta, DeVecinas, Vecinas, GrabaLoJusto
  <2> QED BY <2>1, <2>2 DEF Inv
<1> QED BY <1>1, <1>2, <1>3, <1>4 DEF Next

LEMMA InvSiempre == Spec => []Inv
  BY InitInv, NextInv, PTL DEF Spec

(* The tables of the cameras are what they should be after any order of    *)
(* incidents, additions and removals.                                      *)
THEOREM TypeOKSiempre == Spec => []TypeOK
<1>1. Inv => TypeOK
  BY DEF Inv
<1> QED BY <1>1, InvSiempre, PTL

(* A camera with an incident near it is recording, with late cameras,      *)
(* removed ones and counts gone wrong (central_de_camaras.rs).             *)
THEOREM GrabaSuIncidenteSiempre == Spec => []GrabaSuIncidente
<1>1. Inv => GrabaSuIncidente
  BY DEF Inv
<1> QED BY <1>1, InvSiempre, PTL

(* The counting one by one that process_incidents and eliminar_camara do   *)
(* counts the incidents of the neighbours, until a camera is added beside  *)
(* one or a cancel reaches a camera that does not have it.                 *)
THEOREM CuentaExactaSiempre == Spec => []CuentaExacta
<1>1. Inv => CuentaExacta
  BY DEF Inv
<1> QED BY <1>1, InvSiempre, PTL

(* And then a camera rests exactly when neither it nor a neighbour has an  *)
(* incident, ended or not.                                                 *)
THEOREM GrabaLoJustoSiempre == Spec => []GrabaLoJusto
<1>1. Inv => GrabaLoJusto
  BY DEF Inv
<1> QED BY <1>1, InvSiempre, PTL
=============================================================================
