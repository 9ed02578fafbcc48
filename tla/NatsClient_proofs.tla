-------------------------- MODULE NatsClient_proofs --------------------------
(* Proofs about NatsClient, for every set of patterns, of limits, and any  *)
(* number of subscriptions, operations and publications.                   *)
EXTENDS NatsClient, SequenceTheorems, FiniteSetTheorems, WellFoundedInduction, TLAPS

Topes == {SinLimite} \cup {<<n>> : n \in Nat}
Fila == [id : Ids, patron : Patrones, max : Topes, consumer : BOOLEAN]

Tipado ==
  /\ usuario \in [fase : {"conecta", "libre", "fin"}]
                 \cup [fase : {"anota"}, id : Ids, patron : Patrones]
                 \cup [fase : {"desuscribe"}, id : Ids, max : Topes]
                 \cup [fase : {"une"}, id : Ids]
  /\ nats \in {"libre", "usuario"}
  /\ sub_id \in 0..MaxSubs
  /\ suscriptions \in Seq(Fila)
  /\ candado \in {"libre", "oyente", "envenenado"}
  /\ oyente \in [fase : {"lee", "fin"}] \cup [fase : {"une"}, id : Ids]
  /\ abierta \subseteq Ids
  /\ cola \in [Ids -> Seq(BOOLEAN)]
  /\ hilo \in [Ids -> {"no", "espera", "atiende", "responde", "fin"}]
  /\ limite \in [Ids -> {<< >>} \cup (Nat \X Nat)]

IdsDe(ss) == {ss[i].id : i \in 1..Len(ss)}
Distintas(ss) ==
  \A i, j \in 1..Len(ss) : ss[i].id = ss[j].id => i = j

EnTabla == abierta = IdsDe(suscriptions) /\ Distintas(suscriptions)

(* A thread begins with its row and ends after it, with nothing left.      *)
PorHilo ==
  \A id \in Ids :
    /\ id > sub_id => hilo[id] = "no"
    /\ hilo[id] = "no" => cola[id] = << >> /\ id \notin abierta /\ limite[id] = << >>
    /\ hilo[id] = "fin" => cola[id] = << >> /\ id \notin abierta

Anotando ==
  usuario.fase = "anota" => usuario.id = sub_id /\ hilo[usuario.id] = "no"

Envenenado == candado = "envenenado" => oyente = Fin

(* An id without a row has no thread, or it is being noted or joined, or   *)
(* was, unless the listening thread or the connection are no more.         *)
Saldada(id) ==
  \/ hilo[id] \in {"fin", "no"}
  \/ usuario.fase \in {"anota", "une"} /\ usuario.id = id
  \/ oyente.fase = "une" /\ oyente.id = id
  \/ oyente = Fin \/ conexion = "rota"

SinFila == \A id \in 1..sub_id : id \notin abierta => Saldada(id)

(* What a row may still get and what it got make its limit.                *)
Alcanza(f, l) ==
  (l # << >> /\ l[1] > 0) => f.max # SinLimite /\ f.max[1] > 0 /\ l[2] + f.max[1] = l[1]

PorLimite ==
  \A i \in 1..Len(suscriptions) :
    Alcanza(suscriptions[i], limite[suscriptions[i].id])

Inv ==
  /\ Tipado
  /\ EnTabla
  /\ PorHilo
  /\ Anotando
  /\ Envenenado
  /\ SinFila
  /\ PorLimite
  /\ LimiteLocal

-----------------------------------------------------------------------------
(* The table                                                               *)

LEMMA Quitada ==
  ASSUME NEW S, NEW s \in Seq(S), NEW i \in 1..Len(s)
  PROVE  /\ RemoveAt(s, i) \in Seq(S)
         /\ Len(s) \in Nat
         /\ Len(RemoveAt(s, i)) = Len(s) - 1
         /\ \A j \in 1..(Len(s) - 1) :
              RemoveAt(s, i)[j] = IF j < i THEN s[j] ELSE s[j + 1]
<1> DEFINE a == SubSeq(s, 1, i - 1)
           b == SubSeq(s, i + 1, Len(s))
<1>1. Len(s) \in Nat /\ \A j \in 1..Len(s) : s[j] \in S
  BY LenProperties, ElementOfSeq
<1>2. /\ a \in Seq(S) /\ Len(a) = i - 1
      /\ \A j \in 1..(i - 1) : a[j] = s[j]
  <2>1. /\ a \in Seq(S)
        /\ Len(a) = IF 1 <= i - 1 THEN i - 1 - 1 + 1 ELSE 0
        /\ \A j \in 1..(i - 1 - 1 + 1) : a[j] = s[1 + j - 1]
    BY <1>1, SubSeqProperties
  <2> HIDE DEF a
  <2>2. QED
    BY <2>1, <1>1
<1>3. /\ b \in Seq(S) /\ Len(b) = Len(s) - i
      /\ \A j \in 1..(Len(s) - i) : b[j] = s[i + j]
  <2>1. /\ b \in Seq(S)
        /\ Len(b) = IF i + 1 <= Len(s) THEN Len(s) - (i + 1) + 1 ELSE 0
        /\ \A j \in 1..(Len(s) - (i + 1) + 1) : b[j] = s[i + 1 + j - 1]
    BY <1>1, SubSeqProperties
  <2> HIDE DEF b
  <2>2. QED
    BY <2>1, <1>1
<1>4. RemoveAt(s, i) = a \o b
  BY DEF RemoveAt
<1> HIDE DEF a, b
<1>5. /\ a \o b \in Seq(S)
      /\ Len(a \o b) = Len(a) + Len(b)
      /\ \A j \in 1..Len(a) + Len(b) :
           (a \o b)[j] = IF j <= Len(a) THEN a[j] ELSE b[j - Len(a)]
  BY <1>2, <1>3, ConcatProperties
<1>6. ASSUME NEW j \in 1..(Len(s) - 1)
      PROVE  (a \o b)[j] = IF j < i THEN s[j] ELSE s[j + 1]
  <2>1. CASE j < i
    BY <2>1, <1>1, <1>2, <1>3, <1>5
  <2>2. CASE ~(j < i)
    <3>1. j - (i - 1) \in 1..(Len(s) - i) /\ i + (j - (i - 1)) = j + 1
      BY <2>2, <1>1
    <3>2. (a \o b)[j] = b[j - (i - 1)]
      BY <2>2, <1>1, <1>2, <1>3, <1>5
    <3>3. QED
      BY <2>2, <3>1, <3>2, <1>3
  <2>3. QED
    BY <2>1, <2>2
<1>7. QED
  BY <1>1, <1>2, <1>3, <1>4, <1>5, <1>6

(* A row leaves the table, and with it its id.                             *)
LEMMA SinUna ==
  ASSUME NEW s \in Seq(Fila), Distintas(s), NEW i \in 1..Len(s)
  PROVE  /\ RemoveAt(s, i) \in Seq(Fila)
         /\ Distintas(RemoveAt(s, i))
         /\ IdsDe(RemoveAt(s, i)) = IdsDe(s) \ {s[i].id}
         /\ \A j \in 1..Len(RemoveAt(s, i)) :
              \E k \in 1..Len(s) : k # i /\ RemoveAt(s, i)[j] = s[k]
<1> DEFINE r == RemoveAt(s, i)
<1>1. /\ r \in Seq(Fila) /\ Len(s) \in Nat /\ Len(r) = Len(s) - 1
      /\ \A j \in 1..(Len(s) - 1) : r[j] = IF j < i THEN s[j] ELSE s[j + 1]
  BY Quitada
<1> HIDE DEF r
<1>2. ASSUME NEW j \in 1..Len(r)
      PROVE  \E k \in 1..Len(s) : k # i /\ r[j] = s[k] /\ (k = j \/ k = j + 1)
                                  /\ (k = j <=> j < i)
  <2>1. CASE j < i
    BY <2>1, <1>1
  <2>2. CASE ~(j < i)
    BY <2>2, <1>1
  <2>3. QED
    BY <2>1, <2>2
<1>3. ASSUME NEW j \in 1..Len(r), NEW m \in 1..Len(r), r[j].id = r[m].id
      PROVE  j = m
  <2>1. PICK k \in 1..Len(s) : r[j] = s[k] /\ (k = j \/ k = j + 1) /\ (k = j <=> j < i)
    BY <1>2
  <2>2. PICK q \in 1..Len(s) : r[m] = s[q] /\ (q = m \/ q = m + 1) /\ (q = m <=> m < i)
    BY <1>2
  <2>3. k = q
    BY <1>3, <2>1, <2>2 DEF Distintas
  <2>4. QED
    BY <2>1, <2>2, <2>3, <1>1
<1>4. ASSUME NEW k \in 1..Len(s), k # i
      PROVE  \E j \in 1..Len(r) : r[j] = s[k]
  <2>1. CASE k < i
    BY <2>1, <1>1
  <2>2. CASE k > i
    <3>1. k - 1 \in 1..Len(r) /\ r[k - 1] = s[k]
      BY <2>2, <1>1
    <3>2. QED
      BY <3>1
  <2>3. QED
    BY <2>1, <2>2, <1>4, <1>1
<1>5. IdsDe(r) = IdsDe(s) \ {s[i].id}
  <2>1. ASSUME NEW x \in IdsDe(r)
        PROVE  x \in IdsDe(s) \ {s[i].id}
    <3>1. PICK j \in 1..Len(r) : x = r[j].id
      BY DEF IdsDe
    <3>2. PICK k \in 1..Len(s) : k # i /\ r[j] = s[k]
      BY <1>2
    <3>3. QED
      BY <3>1, <3>2 DEF IdsDe, Distintas
  <2>2. ASSUME NEW x \in IdsDe(s) \ {s[i].id}
        PROVE  x \in IdsDe(r)
    <3>1. PICK k \in 1..Len(s) : x = s[k].id
      BY DEF IdsDe
    <3>2. PICK j \in 1..Len(r) : r[j] = s[k]
      BY <3>1, <1>4
    <3>3. QED
      BY <3>1, <3>2 DEF IdsDe
  <2>3. QED
    BY <2>1, <2>2
<1>6. QED
  BY <1>1, <1>2, <1>3, <1>5 DEF r, Distintas

(* A row comes in at the end.                                              *)
LEMMA ConUna ==
  ASSUME NEW s \in Seq(Fila), Distintas(s), NEW f \in Fila, f.id \notin IdsDe(s)
  PROVE  /\ Append(s, f) \in Seq(Fila)
         /\ Distintas(Append(s, f))
         /\ IdsDe(Append(s, f)) = IdsDe(s) \cup {f.id}
         /\ \A j \in 1..Len(Append(s, f)) :
              \/ Append(s, f)[j] = f
              \/ j \in 1..Len(s) /\ Append(s, f)[j] = s[j]
<1> DEFINE r == Append(s, f)
<1>1. /\ r \in Seq(Fila) /\ Len(s) \in Nat /\ Len(r) = Len(s) + 1
      /\ \A j \in 1..Len(s) : r[j] = s[j]
      /\ r[Len(s) + 1] = f
  BY AppendProperties, LenProperties
<1> HIDE DEF r
<1>2. \A j \in 1..Len(r) : j \in 1..Len(s) \/ j = Len(s) + 1
  BY <1>1
<1>3. \A j \in 1..Len(s) : s[j].id # f.id
  BY DEF IdsDe
<1>4. Distintas(r)
  BY <1>1, <1>2, <1>3 DEF Distintas
<1>5. IdsDe(r) = IdsDe(s) \cup {f.id}
  <2>1. \A x : x \in IdsDe(r) => x \in IdsDe(s) \cup {f.id}
    BY <1>1, <1>2 DEF IdsDe
  <2>2. \A x : x \in IdsDe(s) => x \in IdsDe(r)
    BY <1>1 DEF IdsDe
  <2>3. f.id \in IdsDe(r)
    BY <1>1 DEF IdsDe
  <2>4. QED
    BY <2>1, <2>2, <2>3
<1>6. QED
  BY <1>1, <1>2, <1>4, <1>5 DEF r

(* A row gets a limit.                                                     *)
LEMMA ConTope ==
  ASSUME NEW s \in Seq(Fila), Distintas(s), NEW k \in 1..Len(s), NEW m \in Topes
  PROVE  LET r == [s EXCEPT ![k].max = m] IN
         /\ r \in Seq(Fila)
         /\ Distintas(r)
         /\ IdsDe(r) = IdsDe(s)
         /\ \A j \in 1..Len(r) :
              /\ j \in 1..Len(s) /\ r[j].id = s[j].id
              /\ r[j].max = IF j = k THEN m ELSE s[j].max
<1> DEFINE f == [s[k] EXCEPT !.max = m]
           r == [s EXCEPT ![k] = f]
<1>1. s[k] \in Fila /\ Len(s) \in Nat
  BY LenProperties, ElementOfSeq
<1>2. f \in Fila /\ f.id = s[k].id /\ f.max = m
  BY <1>1 DEF Fila
<1> HIDE DEF f
<1>3. r \in Seq(Fila) /\ Len(r) = Len(s)
  BY <1>2, ExceptSeq
<1>4. \A j \in 1..Len(s) : r[j] = IF j = k THEN f ELSE s[j]
  BY <1>2
<1> HIDE DEF r
<1>5. \A j \in 1..Len(r) :
        /\ j \in 1..Len(s) /\ r[j].id = s[j].id
        /\ r[j].max = IF j = k THEN m ELSE s[j].max
  BY <1>2, <1>3, <1>4
<1>6. Distintas(r) /\ IdsDe(r) = IdsDe(s)
  BY <1>3, <1>5 DEF Distintas, IdsDe
<1>7. r = [s EXCEPT ![k].max = m]
  BY DEF r, f
<1>8. QED
  BY <1>3, <1>5, <1>6, <1>7

(* The row that was found is one of the table.                             *)
LEMMA Hallado ==
  ASSUME NEW s, Len(s) \in Nat, NEW I \in SUBSET (1..Len(s)), I # {}
  PROVE  Min(I) \in I /\ \A y \in I : Min(I) =< y
<1> DEFINE R == OpToRel(<, Nat)
<1>1. IsWellFoundedOn(R, Nat)
  BY NatLessThanWellFounded, Zenon
<1>2. \A x, y \in Nat : x < y => <<x, y>> \in R
  BY DEF OpToRel
<1> HIDE DEF R
<1>3. I \subseteq Nat
  OBVIOUS
<1>4. PICK x \in I : \A y \in I : ~(<<y, x>> \in R)
  BY <1>1, <1>3, WFMin
<1>5. ASSUME NEW y \in I
      PROVE  x =< y
  <2>1. ~(y < x)
    BY <1>2, <1>3, <1>4
  <2>2. QED
    BY <2>1, <1>3
<1>6. QED
  BY <1>4, <1>5 DEF Min

LEMMA IndiceHalla ==
  ASSUME suscriptions \in Seq(Fila), NEW id, Indice(id) # 0
  PROVE  Indice(id) \in 1..Len(suscriptions) /\ suscriptions[Indice(id)].id = id
<1> DEFINE I == {i \in 1..Len(suscriptions) : suscriptions[i].id = id}
<1>1. I # {} /\ Indice(id) = Min(I)
  BY DEF Indice, SelectInSeq
<1>2. I \in SUBSET (1..Len(suscriptions)) /\ Len(suscriptions) \in Nat
  BY LenProperties
<1> HIDE DEF I
<1>3. Min(I) \in I
  BY <1>1, <1>2, Hallado
<1>4. QED
  BY <1>1, <1>3 DEF I

LEMMA PrimeraHalla ==
  ASSUME suscriptions \in Seq(Fila), NEW tema, Primera(tema) # 0
  PROVE  Primera(tema) \in 1..Len(suscriptions)
<1> DEFINE I == {i \in 1..Len(suscriptions) : EsPara(suscriptions[i], tema)}
<1>1. I # {} /\ Primera(tema) = Min(I)
  BY DEF Primera, SelectInSeq
<1>2. I \in SUBSET (1..Len(suscriptions)) /\ Len(suscriptions) \in Nat
  BY LenProperties
<1> HIDE DEF I
<1>3. Min(I) \in I
  BY <1>1, <1>2, Hallado
<1>4. QED
  BY <1>1, <1>3 DEF I

-----------------------------------------------------------------------------
LEMMA Formas ==
  ASSUME Tipado
  PROVE  /\ oyente = Fin <=> oyente.fase = "fin"
         /\ oyente = Lee <=> oyente.fase = "lee"
         /\ oyente.fase = "une" => oyente.id \in Ids
         /\ usuario = Libre <=> usuario.fase = "libre"
         /\ usuario = Fin <=> usuario.fase = "fin"
         /\ usuario.fase \in {"anota", "desuscribe", "une"} => usuario.id \in Ids
         /\ usuario.fase = "anota" => usuario.patron \in Patrones
         /\ usuario.fase = "desuscribe" => usuario.max \in Topes
<1>1. /\ oyente = Fin <=> oyente.fase = "fin"
      /\ oyente = Lee <=> oyente.fase = "lee"
      /\ oyente.fase = "une" => oyente.id \in Ids
  BY DEF Tipado, Fin, Lee
<1>2. /\ usuario = Libre <=> usuario.fase = "libre"
      /\ usuario = Fin <=> usuario.fase = "fin"
  BY DEF Tipado, Libre, Fin
<1>3. /\ usuario.fase \in {"anota", "desuscribe", "une"} => usuario.id \in Ids
      /\ usuario.fase = "anota" => usuario.patron \in Patrones
      /\ usuario.fase = "desuscribe" => usuario.max \in Topes
  BY DEF Tipado
<1>4. QED
  BY <1>1, <1>2, <1>3

LEMMA InitInv == Init => Inv
<1>1. SUFFICES ASSUME Init
               PROVE  Inv
  OBVIOUS
<1>2. MaxSubs \in Nat
  BY NatsClientAssumption
<1>3. Tipado
  BY <1>1, <1>2 DEF Init, Tipado, Lee, Nada
<1>4. EnTabla /\ PorLimite
  BY <1>1 DEF Init, EnTabla, IdsDe, Distintas, PorLimite
<1>5. PorHilo /\ Anotando /\ Envenenado /\ SinFila /\ LimiteLocal
  BY <1>1 DEF Init, PorHilo, Anotando, Envenenado, SinFila, LimiteLocal, Nada
<1>6. QED
  BY <1>3, <1>4, <1>5 DEF Inv

-----------------------------------------------------------------------------
(* What leaves the table as it is                                          *)

Tabla == <<suscriptions, abierta, cola, hilo, limite>>
Actores == <<usuario, nats, sub_id, candado, oyente, conexion>>

LEMMA NadaCambia ==
  ASSUME Inv, UNCHANGED <<Tabla, Actores>>
  PROVE  Inv'
<1> USE DEF Tabla, Actores
<1>1. Tipado'
  BY DEF Inv, Tipado
<1>2. EnTabla' /\ PorHilo' /\ PorLimite' /\ LimiteLocal'
  BY DEF Inv, EnTabla, PorHilo, PorLimite, LimiteLocal
<1>3. Anotando' /\ Envenenado' /\ SinFila'
  BY DEF Inv, Anotando, Envenenado, SinFila, Saldada
<1>4. QED
  BY <1>1, <1>2, <1>3 DEF Inv

(* Where the threads are may change.                                       *)
LEMMA TablaIgual ==
  ASSUME Inv, UNCHANGED Tabla, sub_id' \in {sub_id, sub_id + 1}
  PROVE  /\ EnTabla' /\ PorHilo' /\ PorLimite' /\ LimiteLocal'
         /\ suscriptions' \in Seq(Fila) /\ abierta' \subseteq Ids
         /\ cola' \in [Ids -> Seq(BOOLEAN)]
         /\ hilo' \in [Ids -> {"no", "espera", "atiende", "responde", "fin"}]
         /\ limite' \in [Ids -> {<< >>} \cup (Nat \X Nat)]
<1> USE DEF Tabla
<1>1. EnTabla' /\ PorLimite' /\ LimiteLocal'
  BY DEF Inv, EnTabla, PorLimite, LimiteLocal
<1>2. PorHilo'
  <2>1. \A id \in Ids : id > sub_id' => id > sub_id
    BY DEF Inv, Tipado, Ids
  <2>2. QED
    BY <2>1 DEF Inv, PorHilo
<1>3. QED
  BY <1>1, <1>2 DEF Inv, Tipado

LEMMA ServidorInv ==
  ASSUME Inv, ServidorAcepta \/ ServidorRechaza \/ ServidorPing
              \/ \E tema \in Temas : ServidorPublica(tema)
  PROVE  Inv'
<1>1. UNCHANGED <<Tabla, Actores>>
  BY DEF ServidorAcepta, ServidorRechaza, ServidorPing, ServidorPublica, Tabla,
         Actores, delUsuario, hilos, delServidor
<1>2. QED
  BY <1>1, NadaCambia

LEMMA RompeInv ==
  ASSUME Inv, Rompe
  PROVE  Inv'
<1>1. /\ UNCHANGED <<Tabla, usuario, nats, sub_id, candado, oyente>>
      /\ conexion' = "rota"
  BY DEF Rompe, Tabla, delUsuario, hilos
<1>2. Tipado'
  BY <1>1, TablaIgual DEF Inv, Tipado
<1>3. Anotando' /\ Envenenado' /\ SinFila'
  BY <1>1 DEF Inv, Anotando, Envenenado, SinFila, Saldada, Tabla
<1>4. QED
  BY <1>1, <1>2, <1>3, TablaIgual DEF Inv

LEMMA UnaEscrituraInv ==
  ASSUME Inv, Publica \/ CreateStream \/ HPublica \/ NoCreaConsumer
  PROVE  Inv'
<1>1. UNCHANGED <<Tabla, Actores>>
  BY DEF Publica, CreateStream, HPublica, NoCreaConsumer, UnaEscritura, Tabla,
         Actores, hilos, Empieza
<1>2. QED
  BY <1>1, NadaCambia

LEMMA EscribeSubInv ==
  ASSUME Inv, NEW patron \in Patrones, NEW antes, EscribeSub(patron, antes)
  PROVE  Inv'
<1> DEFINE id == sub_id + 1
<1>1. /\ UNCHANGED <<Tabla, candado, oyente, conexion>>
      /\ usuario.fase = "libre" /\ sub_id < MaxSubs /\ sub_id' = id
      /\ usuario' = [fase |-> "anota", id |-> id, patron |-> patron]
      /\ nats' = "usuario"
  BY DEF EscribeSub, Empieza, Tabla, Libre
<1>2. id \in Ids /\ id \in 0..MaxSubs /\ id > sub_id
  BY <1>1, NatsClientAssumption DEF Inv, Tipado, Ids
<1>3. Tipado'
  BY <1>1, <1>2, TablaIgual DEF Inv, Tipado
<1>4. Anotando' /\ Envenenado'
  BY <1>1, <1>2 DEF Inv, PorHilo, Anotando, Envenenado, Tabla
<1>5. SinFila'
  <2>1. SUFFICES ASSUME NEW i \in 1..id, i \notin abierta
                 PROVE  Saldada(i)'
    BY <1>1 DEF SinFila, Tabla
  <2>2. CASE i = id
    BY <1>1, <2>2 DEF Saldada
  <2>3. CASE i # id
    <3>1. i \in 1..sub_id
      BY <2>3 DEF Inv, Tipado
    <3>2. QED
      BY <1>1, <2>1, <3>1 DEF Inv, SinFila, Saldada, Tabla
  <2>4. QED
    BY <2>2, <2>3
<1>6. QED
  BY <1>1, <1>3, <1>4, <1>5, TablaIgual DEF Inv

LEMMA NoEscribeSubInv ==
  ASSUME Inv, NEW sigue \in {Fin, Libre}, NoEscribeSub(sigue)
  PROVE  Inv'
<1>1. /\ UNCHANGED <<Tabla, nats, candado, oyente, conexion>>
      /\ sub_id < MaxSubs /\ sub_id' = sub_id + 1
      /\ conexion = "rota" /\ usuario' = sigue
      /\ usuario'.fase \in {"libre", "fin"}
  BY DEF NoEscribeSub, NoEscribe, Empieza, Tabla, hilos, Libre, Fin
<1>2. sub_id' \in 0..MaxSubs
  BY <1>1, NatsClientAssumption DEF Inv, Tipado
<1>3. Tipado'
  BY <1>1, <1>2, TablaIgual DEF Inv, Tipado, Libre, Fin
<1>4. Anotando' /\ Envenenado' /\ SinFila'
  BY <1>1 DEF Inv, Anotando, Envenenado, SinFila, Saldada
<1>5. QED
  BY <1>1, <1>3, <1>4, TablaIgual DEF Inv

LEMMA DesuscribeInv ==
  ASSUME Inv, NEW id \in 1..sub_id, NEW max \in {SinLimite} \cup {<<n>> : n \in Limites},
         Desuscribe(id, max)
  PROVE  Inv'
<1>1. /\ UNCHANGED <<Tabla, sub_id, candado, oyente, conexion>>
      /\ usuario.fase = "libre"
      /\ \/ nats' = "usuario" /\ usuario' = [fase |-> "desuscribe", id |-> id, max |-> max]
         \/ nats' = nats /\ usuario' = Fin
  BY DEF Desuscribe, Empieza, Tabla, Libre
<1>2. id \in Ids
  BY NatsClientAssumption DEF Inv, Tipado, Ids
<1>3. max \in Topes
  BY NatsClientAssumption DEF Topes
<1>4. Tipado'
  BY <1>1, <1>2, <1>3, TablaIgual DEF Inv, Tipado, Fin
<1>5. usuario'.fase \in {"desuscribe", "fin"}
  BY <1>1 DEF Fin
<1>6. Anotando' /\ Envenenado' /\ SinFila'
  BY <1>1, <1>5 DEF Inv, Anotando, Envenenado, SinFila, Saldada, Tabla
<1>7. QED
  BY <1>1, <1>4, <1>6, TablaIgual DEF Inv

(* The user's thread goes back to its program or ends it.                  *)
LEMMA UsuarioSigue ==
  ASSUME Inv, usuario' \in {Libre, Fin}, nats' \in {nats, "libre"},
         UNCHANGED <<Tabla, sub_id, candado, oyente, conexion>>,
         \/ usuario.fase \notin {"anota", "une"}
         \/ usuario.fase = "une" /\ hilo[usuario.id] = "fin"
         \/ usuario.fase = "anota" /\ hilo[usuario.id] = "no"
         \/ candado = "envenenado"
  PROVE  Inv'
<1>1. Tipado'
  BY TablaIgual DEF Inv, Tipado, Libre, Fin
<1>2. usuario'.fase \in {"libre", "fin"}
  BY DEF Libre, Fin
<1>3. Anotando' /\ Envenenado'
  BY <1>2 DEF Inv, Anotando, Envenenado
<1>4. SinFila'
  BY <1>2 DEF Inv, SinFila, Saldada, Envenenado, Tabla
<1>5. QED
  BY <1>1, <1>3, <1>4, TablaIgual DEF Inv

LEMMA UsuarioInv ==
  ASSUME Inv, Une \/ Falla \/ NoConecta \/ OyenteOk
  PROVE  Inv'
<1>1. CASE Une
  BY <1>1, UsuarioSigue DEF Une, Tabla, hilos
<1>2. CASE Falla
  BY <1>2, UsuarioSigue DEF Falla, Tabla, hilos
<1>3. CASE NoConecta
  BY <1>3, UsuarioSigue DEF NoConecta, Tabla, hilos
<1>4. CASE OyenteOk
  <2>1. UNCHANGED <<Tabla, nats, sub_id, candado, oyente, conexion>>
    BY <1>4 DEF OyenteOk, Tabla, hilos
  <2>2. CASE usuario.fase = "conecta"
    BY <1>4, <2>1, <2>2, UsuarioSigue DEF OyenteOk
  <2>3. CASE usuario.fase # "conecta"
    BY <1>4, <2>1, <2>3, NadaCambia DEF OyenteOk, Actores
  <2>4. QED
    BY <2>2, <2>3
<1>5. QED
  BY <1>1, <1>2, <1>3, <1>4

(* A subscription that failed leaves no thread.                            *)
LEMMA NoAnotaInv ==
  ASSUME Inv, NoAnota
  PROVE  Inv'
<1>1. usuario.fase = "anota" /\ hilo[usuario.id] = "no"
  BY DEF NoAnota, Inv, Anotando
<1>2. QED
  BY <1>1, UsuarioSigue DEF NoAnota, Tabla

(* So does the listening thread.                                           *)
LEMMA OyenteSigue ==
  ASSUME Inv, OyentePing \/ SinDestino \/ OyenteError \/ OyenteFinDeArchivo \/ OyenteUne
  PROVE  Inv'
<1>1. UNCHANGED <<Tabla, usuario, nats, sub_id, conexion>>
  BY DEF OyentePing, SinDestino, OyenteError, OyenteFinDeArchivo, OyenteUne, Tabla,
         delUsuario, hilos
<1>2. CASE OyentePing \/ SinDestino
  BY <1>1, <1>2, NadaCambia DEF OyentePing, SinDestino, Actores
<1>3. CASE OyenteError \/ OyenteFinDeArchivo
  <2>1. oyente' = Fin /\ candado' = candado
    BY <1>3 DEF OyenteError, OyenteFinDeArchivo
  <2>2. Tipado'
    BY <1>1, <2>1, TablaIgual DEF Inv, Tipado, Fin
  <2>3. Anotando' /\ Envenenado' /\ SinFila'
    BY <1>1, <2>1 DEF Inv, Anotando, Envenenado, SinFila, Saldada, Tabla
  <2>4. QED
    BY <1>1, <2>2, <2>3, TablaIgual DEF Inv
<1>4. CASE OyenteUne
  <2>1. /\ oyente.fase = "une" /\ hilo[oyente.id] = "fin"
        /\ oyente' = Lee /\ candado' = "libre" /\ oyente # Fin
    BY <1>4 DEF OyenteUne, Fin
  <2>2. Tipado'
    BY <1>1, <2>1, TablaIgual DEF Inv, Tipado, Lee
  <2>3. Anotando' /\ Envenenado'
    BY <1>1, <2>1 DEF Inv, Anotando, Envenenado, Tabla
  <2>4. SinFila'
    BY <1>1, <2>1 DEF Inv, SinFila, Saldada, Tabla
  <2>5. QED
    BY <1>1, <2>2, <2>3, <2>4, TablaIgual DEF Inv
<1>5. QED
  BY <1>2, <1>3, <1>4

-----------------------------------------------------------------------------
(* Rows that come and go                                                   *)

LEMMA AnotaInv ==
  ASSUME Inv, Anota
  PROVE  Inv'
<1> DEFINE id == usuario.id
           f == [id |-> id, patron |-> usuario.patron, max |-> SinLimite,
                 consumer |-> usuario.patron \in Consumidores]
           s == suscriptions
<1>1. /\ usuario.fase = "anota" /\ candado = "libre"
      /\ suscriptions' = Append(s, f)
      /\ abierta' = abierta \cup {id}
      /\ hilo' = [hilo EXCEPT ![id] = "espera"]
      /\ nats' = "libre" /\ usuario' = Libre
      /\ UNCHANGED <<sub_id, candado, oyente, cola, limite, conexion>>
  BY DEF Anota
<1>2. /\ id \in Ids /\ usuario.patron \in Patrones /\ id = sub_id
      /\ hilo[id] = "no" /\ cola[id] = << >> /\ id \notin abierta /\ limite[id] = << >>
  BY <1>1, Formas DEF Inv, Anotando, PorHilo
<1>3. f \in Fila
  BY <1>2 DEF Fila, Topes
<1>4. f.id = id /\ f.max = SinLimite
  OBVIOUS
<1> HIDE DEF f
<1>5. /\ s \in Seq(Fila) /\ Distintas(s) /\ abierta = IdsDe(s)
  BY DEF Inv, Tipado, EnTabla
<1>6. /\ suscriptions' \in Seq(Fila)
      /\ Distintas(suscriptions')
      /\ IdsDe(suscriptions') = abierta \cup {id}
      /\ \A j \in 1..Len(suscriptions') :
           suscriptions'[j] = f \/ (j \in 1..Len(s) /\ suscriptions'[j] = s[j])
  BY <1>1, <1>2, <1>3, <1>4, <1>5, ConUna
<1>7. Tipado'
  BY <1>1, <1>2, <1>6 DEF Inv, Tipado, Libre
<1>8. EnTabla'
  BY <1>1, <1>6 DEF EnTabla
<1>9. usuario'.fase = "libre"
  BY <1>1 DEF Libre
<1>10. PorHilo'
  BY <1>1, <1>2 DEF Inv, Tipado, PorHilo
<1>11. Anotando' /\ Envenenado'
  BY <1>1, <1>9 DEF Inv, Anotando, Envenenado
<1>12. SinFila'
  <2>1. \A i \in 1..sub_id : i \notin abierta' => Saldada(i)
    BY <1>1 DEF Inv, SinFila
  <2>2. \A i \in 1..sub_id : i # id /\ Saldada(i) => Saldada(i)'
    BY <1>1, <1>2 DEF Inv, Tipado, Saldada, Ids
  <2>3. QED
    BY <2>1, <2>2, <1>1 DEF SinFila
<1>13. PorLimite'
  <2>1. SUFFICES ASSUME NEW j \in 1..Len(suscriptions')
                 PROVE  Alcanza(suscriptions'[j], limite[suscriptions'[j].id])
    BY <1>1 DEF PorLimite
  <2>2. CASE suscriptions'[j] = f
    BY <2>2, <1>2, <1>4 DEF Alcanza
  <2>3. CASE j \in 1..Len(s) /\ suscriptions'[j] = s[j]
    BY <2>3 DEF Inv, PorLimite
  <2>4. QED
    BY <2>2, <2>3, <1>6
<1>14. LimiteLocal'
  BY <1>1 DEF Inv, LimiteLocal
<1>15. QED
  BY <1>7, <1>8, <1>10, <1>11, <1>12, <1>13, <1>14 DEF Inv

LEMMA TopeNatural ==
  ASSUME NEW m \in Topes, m # SinLimite
  PROVE  m[1] \in Nat /\ m = <<m[1]>>
  BY DEF Topes, SinLimite

LEMMA FijaLimiteInv ==
  ASSUME Inv, FijaLimite
  PROVE  Inv'
<1> DEFINE id == usuario.id
           m == usuario.max
           s == suscriptions
           k == Indice(id)
<1>1. /\ usuario.fase = "desuscribe" /\ m # SinLimite
      /\ k # 0
      /\ suscriptions' = [s EXCEPT ![k].max = m]
      /\ limite' = [limite EXCEPT ![id] = <<m[1], 0>>]
      /\ nats' = "libre" /\ usuario' = Libre
      /\ UNCHANGED <<sub_id, candado, oyente, cola, abierta, hilo, conexion>>
  BY DEF FijaLimite
<1>2. id \in Ids /\ m \in Topes
  BY <1>1, Formas DEF Inv
<1>3. m[1] \in Nat
  BY <1>1, <1>2, TopeNatural
<1>4. s \in Seq(Fila) /\ Distintas(s) /\ abierta = IdsDe(s)
  BY DEF Inv, Tipado, EnTabla
<1>5. k \in 1..Len(s) /\ s[k].id = id
  BY <1>1, <1>4, IndiceHalla
<1> HIDE DEF k, m, id
<1> DEFINE r == [s EXCEPT ![k].max = m]
<1>6. /\ r \in Seq(Fila)
      /\ Distintas(r)
      /\ IdsDe(r) = IdsDe(s)
      /\ \A j \in 1..Len(r) :
           /\ j \in 1..Len(s) /\ r[j].id = s[j].id
           /\ r[j].max = IF j = k THEN m ELSE s[j].max
  BY <1>2, <1>4, <1>5, ConTope
<1>7. suscriptions' = r
  BY <1>1
<1> HIDE DEF r
<1>8. /\ suscriptions' \in Seq(Fila)
      /\ Distintas(suscriptions')
      /\ IdsDe(suscriptions') = abierta
      /\ \A j \in 1..Len(suscriptions') :
           /\ j \in 1..Len(s) /\ suscriptions'[j].id = s[j].id
           /\ suscriptions'[j].max = IF j = k THEN m ELSE s[j].max
  BY <1>6, <1>7, <1>4
<1>9. id \in abierta
  BY <1>4, <1>5 DEF IdsDe
<1>10. usuario'.fase = "libre"
  BY <1>1 DEF Libre
<1>11. limite' \in [Ids -> {<< >>} \cup (Nat \X Nat)]
  BY <1>1, <1>2, <1>3 DEF Inv, Tipado
<1>12. Tipado'
  BY <1>1, <1>8, <1>11 DEF Inv, Tipado, Libre
<1>13. EnTabla'
  BY <1>1, <1>8 DEF EnTabla
<1>14. PorHilo'
  BY <1>1, <1>9 DEF Inv, Tipado, PorHilo
<1>15. Anotando' /\ Envenenado'
  BY <1>1, <1>10 DEF Inv, Anotando, Envenenado
<1>16. SinFila'
  BY <1>1 DEF Inv, SinFila, Saldada
<1>17. limite'[id] = <<m[1], 0>> /\ \A i \in Ids : i # id => limite'[i] = limite[i]
  BY <1>1, <1>2 DEF Inv, Tipado
<1>18. PorLimite'
  <2>1. SUFFICES ASSUME NEW j \in 1..Len(suscriptions')
                 PROVE  Alcanza(suscriptions'[j], limite'[suscriptions'[j].id])
    BY DEF PorLimite
  <2>2. CASE j = k
    BY <2>2, <1>1, <1>3, <1>5, <1>8, <1>17 DEF Alcanza
  <2>3. CASE j # k
    <3>1. j \in 1..Len(s) /\ s[j] \in Fila
      BY <1>4, <1>8, ElementOfSeq
    <3>2. s[j].id # id /\ s[j].id \in Ids
      BY <2>3, <3>1, <1>4, <1>5 DEF Distintas, Fila
    <3>3. Alcanza(s[j], limite[s[j].id])
      BY <1>8 DEF Inv, PorLimite
    <3>4. QED
      BY <2>3, <3>2, <3>3, <1>8, <1>17 DEF Alcanza
  <2>4. QED
    BY <2>2, <2>3
<1>19. LimiteLocal'
  BY <1>3, <1>17 DEF Inv, LimiteLocal
<1>20. QED
  BY <1>12, <1>13, <1>14, <1>15, <1>16, <1>18, <1>19 DEF Inv

(* A row goes: its id is open no more, and the others are as they were.    *)
LEMMA QuitadaInv ==
  ASSUME Inv, NEW i \in 1..Len(suscriptions),
         suscriptions' = RemoveAt(suscriptions, i),
         abierta' = abierta \ {suscriptions[i].id},
         \A id \in Ids : id # suscriptions[i].id => limite'[id] = limite[id]
  PROVE  /\ suscriptions' \in Seq(Fila) /\ abierta' \subseteq Ids
         /\ EnTabla' /\ PorLimite'
<1> DEFINE s == suscriptions
<1>1. s \in Seq(Fila) /\ Distintas(s) /\ abierta = IdsDe(s) /\ abierta \subseteq Ids
  BY DEF Inv, Tipado, EnTabla
<1> DEFINE r == RemoveAt(s, i)
<1>2. /\ r \in Seq(Fila)
      /\ Distintas(r)
      /\ IdsDe(r) = IdsDe(s) \ {s[i].id}
      /\ \A j \in 1..Len(r) : \E k \in 1..Len(s) : k # i /\ r[j] = s[k]
  BY <1>1, SinUna
<1>3. suscriptions' = r
  OBVIOUS
<1> HIDE DEF r
<1>4. /\ suscriptions' \in Seq(Fila)
      /\ Distintas(suscriptions')
      /\ IdsDe(suscriptions') = IdsDe(s) \ {s[i].id}
      /\ \A j \in 1..Len(suscriptions') :
           \E k \in 1..Len(s) : k # i /\ suscriptions'[j] = s[k]
  BY <1>2, <1>3
<1>5. EnTabla'
  BY <1>1, <1>4 DEF EnTabla
<1>6. PorLimite'
  <2>1. SUFFICES ASSUME NEW j \in 1..Len(suscriptions')
                 PROVE  Alcanza(suscriptions'[j], limite'[suscriptions'[j].id])
    BY DEF PorLimite
  <2>2. PICK k \in 1..Len(s) : k # i /\ suscriptions'[j] = s[k]
    BY <1>4
  <2>3. s[k] \in Fila
    BY <1>1, ElementOfSeq
  <2>4. s[k].id # s[i].id /\ s[k].id \in Ids
    BY <2>2, <2>3, <1>1 DEF Distintas, Fila
  <2>5. Alcanza(s[k], limite[s[k].id])
    BY DEF Inv, PorLimite
  <2>6. QED
    BY <2>2, <2>4, <2>5
<1>7. QED
  BY <1>1, <1>4, <1>5, <1>6

(* A row goes to the end, changed.                                         *)
LEMMA ReencolaInv ==
  ASSUME Inv, NEW i \in 1..Len(suscriptions), NEW f \in Fila,
         f.id = suscriptions[i].id, Reencola(i, f), abierta' = abierta,
         \A id \in Ids : id # f.id => limite'[id] = limite[id],
         Alcanza(f, limite'[f.id])
  PROVE  /\ suscriptions' \in Seq(Fila) /\ abierta' \subseteq Ids
         /\ EnTabla' /\ PorLimite'
<1> DEFINE s == suscriptions
           r == RemoveAt(s, i)
<1>1. s \in Seq(Fila) /\ Distintas(s) /\ abierta = IdsDe(s) /\ abierta \subseteq Ids
  BY DEF Inv, Tipado, EnTabla
<1>2. /\ r \in Seq(Fila) /\ Distintas(r)
      /\ IdsDe(r) = IdsDe(s) \ {s[i].id}
      /\ \A j \in 1..Len(r) : \E k \in 1..Len(s) : k # i /\ r[j] = s[k]
  BY <1>1, SinUna
<1>3. suscriptions' = Append(r, f)
  BY DEF Reencola
<1> HIDE DEF r
<1>4. /\ r \in Seq(Fila) /\ Distintas(r)
      /\ IdsDe(r) = IdsDe(s) \ {f.id}
      /\ \A j \in 1..Len(r) : \E k \in 1..Len(s) : k # i /\ r[j] = s[k]
  BY <1>2
<1>5. /\ suscriptions' \in Seq(Fila) /\ Distintas(suscriptions')
      /\ IdsDe(suscriptions') = IdsDe(r) \cup {f.id}
      /\ \A j \in 1..Len(suscriptions') :
           suscriptions'[j] = f \/ (j \in 1..Len(r) /\ suscriptions'[j] = r[j])
  BY <1>4, <1>3, ConUna
<1>6. f.id \in IdsDe(s)
  BY DEF IdsDe
<1>7. EnTabla'
  BY <1>1, <1>4, <1>5, <1>6 DEF EnTabla
<1>8. PorLimite'
  <2>1. SUFFICES ASSUME NEW j \in 1..Len(suscriptions')
                 PROVE  Alcanza(suscriptions'[j], limite'[suscriptions'[j].id])
    BY DEF PorLimite
  <2>2. CASE suscriptions'[j] = f
    BY <2>2
  <2>3. CASE j \in 1..Len(r) /\ suscriptions'[j] = r[j]
    <3>1. PICK k \in 1..Len(s) : k # i /\ suscriptions'[j] = s[k]
      BY <2>3, <1>4
    <3>2. s[k] \in Fila
      BY <1>1, ElementOfSeq
    <3>3. s[k].id # f.id /\ s[k].id \in Ids
      BY <3>1, <3>2, <1>1 DEF Distintas, Fila
    <3>4. Alcanza(s[k], limite[s[k].id])
      BY DEF Inv, PorLimite
    <3>5. QED
      BY <3>1, <3>3, <3>4
  <2>4. QED
    BY <2>2, <2>3, <1>5
<1>9. QED
  BY <1>1, <1>5, <1>7, <1>8

LEMMA QuitaFilaInv ==
  ASSUME Inv, QuitaFila
  PROVE  Inv'
<1> DEFINE id == usuario.id
           k == Indice(id)
<1>1. /\ usuario.fase = "desuscribe" /\ k # 0
      /\ suscriptions' = RemoveAt(suscriptions, k)
      /\ abierta' = abierta \ {id}
      /\ usuario' = En("une", id)
      /\ UNCHANGED <<sub_id, nats, candado, oyente, cola, hilo, limite, conexion>>
  BY DEF QuitaFila
<1>2. id \in Ids /\ suscriptions \in Seq(Fila)
  BY <1>1, Formas DEF Inv, Tipado
<1>3. k \in 1..Len(suscriptions) /\ suscriptions[k].id = id
  BY <1>1, <1>2, IndiceHalla
<1> HIDE DEF k
<1>4. /\ suscriptions' \in Seq(Fila) /\ abierta' \subseteq Ids
      /\ EnTabla' /\ PorLimite'
  BY <1>1, <1>3, QuitadaInv
<1>5. usuario'.fase = "une" /\ usuario'.id = id
  BY <1>1 DEF En
<1>6. Tipado'
  BY <1>1, <1>2, <1>4 DEF Inv, Tipado, En
<1>7. PorHilo' /\ Anotando' /\ Envenenado' /\ LimiteLocal'
  BY <1>1, <1>5 DEF Inv, PorHilo, Anotando, Envenenado, LimiteLocal
<1>8. SinFila'
  BY <1>1, <1>5 DEF Inv, SinFila, Saldada
<1>9. QED
  BY <1>4, <1>6, <1>7, <1>8 DEF Inv

-----------------------------------------------------------------------------
(* Messages for a row                                                      *)

(* The thread of a row gets a message.                                     *)
LEMMA EntregaInv ==
  ASSUME Inv, NEW i \in 1..Len(suscriptions), NEW msg,
         EnviaAlHilo(suscriptions[i].id, msg),
         UNCHANGED <<hilo, sub_id>>, abierta' \subseteq abierta
  PROVE  LET id == suscriptions[i].id IN
         /\ suscriptions[i] \in Fila /\ id \in Ids
         /\ cola' \in [Ids -> Seq(BOOLEAN)]
         /\ limite' \in [Ids -> {<< >>} \cup (Nat \X Nat)]
         /\ limite'[id] = IF limite[id] = << >> THEN << >>
                          ELSE <<limite[id][1], limite[id][2] + 1>>
         /\ \A o \in Ids : o # id => limite'[o] = limite[o]
         /\ PorHilo' /\ LimiteLocal'
<1> DEFINE s == suscriptions[i]
           id == s.id
           l == limite[id]
<1>1. s \in Fila /\ abierta = IdsDe(suscriptions)
  BY ElementOfSeq DEF Inv, Tipado, EnTabla
<1>2. id \in Ids
  BY <1>1 DEF Fila
<1>3. id \in abierta
  BY <1>1 DEF IdsDe
<1>4. Alcanza(s, l)
  BY DEF Inv, PorLimite
<1>5. s.max \in Topes
  BY <1>1 DEF Fila
<1> HIDE DEF s, id
<1>6. /\ cola' = [cola EXCEPT ![id] = Append(@, msg.tipo = "HMSG")]
      /\ limite' = [limite EXCEPT ![id] = IF @ = << >> THEN @ ELSE <<@[1], @[2] + 1>>]
  BY DEF EnviaAlHilo, s, id
<1>7. /\ cola \in [Ids -> Seq(BOOLEAN)]
      /\ limite \in [Ids -> {<< >>} \cup (Nat \X Nat)]
  BY DEF Inv, Tipado
<1>8. Append(cola[id], msg.tipo = "HMSG") \in Seq(BOOLEAN)
  <2>1. cola[id] \in Seq(BOOLEAN) /\ (msg.tipo = "HMSG") \in BOOLEAN
    BY <1>2, <1>7
  <2>2. QED
    BY <2>1, AppendProperties
<1>9. cola' \in [Ids -> Seq(BOOLEAN)] /\ \A o \in Ids : o # id => cola'[o] = cola[o]
  BY <1>2, <1>6, <1>7, <1>8
<1>10. l = << >> \/ (l # << >> /\ l[1] \in Nat /\ l[2] \in Nat)
  BY <1>2, <1>7
<1>11. (IF l = << >> THEN l ELSE <<l[1], l[2] + 1>>) \in {<< >>} \cup (Nat \X Nat)
  BY <1>10
<1>12. /\ limite' \in [Ids -> {<< >>} \cup (Nat \X Nat)]
       /\ limite'[id] = IF l = << >> THEN << >> ELSE <<l[1], l[2] + 1>>
       /\ \A o \in Ids : o # id => limite'[o] = limite[o]
  BY <1>2, <1>6, <1>7, <1>11
<1>13. PorHilo'
  <2>1. SUFFICES ASSUME NEW o \in Ids
                 PROVE  /\ o > sub_id => hilo[o] = "no"
                        /\ hilo[o] = "no" => cola'[o] = << >> /\ o \notin abierta'
                                             /\ limite'[o] = << >>
                        /\ hilo[o] = "fin" => cola'[o] = << >> /\ o \notin abierta'
    BY DEF PorHilo
  <2>2. CASE o = id
    BY <2>2, <1>3 DEF Inv, PorHilo
  <2>3. CASE o # id
    BY <2>3, <1>9, <1>12 DEF Inv, PorHilo
  <2>4. QED
    BY <2>2, <2>3
<1>14. LimiteLocal'
  <2>1. SUFFICES ASSUME NEW o \in Ids, limite'[o] # << >>, limite'[o][1] > 0
                 PROVE  limite'[o][2] =< limite'[o][1]
    BY DEF LimiteLocal
  <2>2. CASE o = id
    <3>1. /\ l # << >> /\ l[1] > 0
          /\ limite'[o][1] = l[1] /\ limite'[o][2] = l[2] + 1
      BY <2>1, <2>2, <1>12
    <3>2. s.max # SinLimite /\ s.max[1] > 0 /\ l[2] + s.max[1] = l[1]
      BY <3>1, <1>4 DEF Alcanza
    <3>3. s.max[1] \in Nat
      BY <3>2, <1>5, TopeNatural
    <3>4. QED
      BY <3>1, <3>2, <3>3, <1>10
  <2>3. CASE o # id
    BY <2>1, <2>3, <1>12 DEF Inv, LimiteLocal
  <2>4. QED
    BY <2>2, <2>3
<1>15. QED
  BY <1>1, <1>2, <1>9, <1>12, <1>13, <1>14 DEF s, id

LEMMA ReparteInv ==
  ASSUME Inv, Reparte
  PROVE  Inv'
<1> DEFINE i == Primera(Head(desde).tema)
           s == suscriptions[i]
           queda == IF s.max = SinLimite THEN s ELSE [s EXCEPT !.max = <<@[1] - 1>>]
           l == limite[s.id]
<1>1. /\ i # 0 /\ ~Ultimo(s) /\ ~Agotada(s)
      /\ EnviaAlHilo(s.id, Head(desde))
      /\ Reencola(i, queda)
      /\ UNCHANGED <<usuario, sub_id, nats, candado, oyente, abierta, hilo, conexion>>
  BY DEF Reparte, delUsuario
<1>2. i \in 1..Len(suscriptions)
  BY <1>1, PrimeraHalla DEF Inv, Tipado
<1> HIDE DEF i
<1>3. /\ s \in Fila /\ s.id \in Ids
      /\ cola' \in [Ids -> Seq(BOOLEAN)]
      /\ limite' \in [Ids -> {<< >>} \cup (Nat \X Nat)]
      /\ limite'[s.id] = IF l = << >> THEN << >> ELSE <<l[1], l[2] + 1>>
      /\ \A o \in Ids : o # s.id => limite'[o] = limite[o]
      /\ PorHilo' /\ LimiteLocal'
  BY <1>1, <1>2, EntregaInv
<1>4. Alcanza(s, l)
  BY <1>2 DEF Inv, PorLimite
<1>5. l \in {<< >>} \cup (Nat \X Nat)
  BY <1>3 DEF Inv, Tipado
<1>6. s.max \in Topes
  BY <1>3 DEF Fila
<1>7. queda \in Fila /\ queda.id = s.id /\ Alcanza(queda, limite'[s.id])
  <2>1. CASE s.max = SinLimite
    <3>1. queda = s /\ (l = << >> \/ ~(l[1] > 0))
      BY <2>1, <1>4 DEF Alcanza
    <3>2. limite'[s.id] = << >> \/ ~(limite'[s.id][1] > 0)
      BY <3>1, <1>3
    <3>3. QED
      BY <3>1, <3>2, <1>3 DEF Alcanza
  <2>2. CASE s.max # SinLimite
    <3>1. s.max[1] \in Nat /\ s.max[1] # 0 /\ s.max[1] # 1
      BY <2>2, <1>1, <1>6, TopeNatural DEF Ultimo, Agotada
    <3>2. queda = [s EXCEPT !.max = <<s.max[1] - 1>>]
      BY <2>2
    <3>3. s.max[1] - 1 \in Nat /\ s.max[1] - 1 > 0
      BY <3>1
    <3>4. <<s.max[1] - 1>> \in Topes /\ <<s.max[1] - 1>> # SinLimite
      BY <3>3 DEF Topes, SinLimite
    <3>5. queda \in Fila /\ queda.id = s.id /\ queda.max = <<s.max[1] - 1>>
      BY <3>2, <3>4, <1>3 DEF Fila
    <3>6. ASSUME limite'[s.id] # << >>, limite'[s.id][1] > 0
          PROVE  limite'[s.id][2] + (s.max[1] - 1) = limite'[s.id][1]
      <4>1. /\ l # << >> /\ l[1] \in Nat /\ l[2] \in Nat
            /\ limite'[s.id][1] = l[1] /\ limite'[s.id][2] = l[2] + 1
        BY <3>6, <1>3, <1>5
      <4>2. l[2] + s.max[1] = l[1]
        BY <4>1, <3>6, <1>4 DEF Alcanza
      <4>3. \A a, b, n \in Nat : b + n = a => (b + 1) + (n - 1) = a
        OBVIOUS
      <4>4. (l[2] + 1) + (s.max[1] - 1) = l[1]
        BY <4>1, <4>2, <4>3, <3>1, Zenon
      <4>5. QED
        BY <4>1, <4>4, Zenon
    <3> HIDE DEF queda
    <3>7. QED
      BY <3>3, <3>4, <3>5, <3>6 DEF Alcanza
  <2>3. QED
    BY <2>1, <2>2
<1> HIDE DEF queda
<1>8. /\ suscriptions' \in Seq(Fila) /\ abierta' \subseteq Ids
      /\ EnTabla' /\ PorLimite'
  BY <1>1, <1>2, <1>3, <1>7, ReencolaInv
<1>9. Tipado'
  BY <1>1, <1>3, <1>8 DEF Inv, Tipado
<1>10. Anotando' /\ Envenenado' /\ SinFila'
  BY <1>1 DEF Inv, Anotando, Envenenado, SinFila, Saldada
<1>11. QED
  BY <1>3, <1>8, <1>9, <1>10 DEF Inv

LEMMA ReparteUltimoInv ==
  ASSUME Inv, ReparteUltimo
  PROVE  Inv'
<1> DEFINE i == Primera(Head(desde).tema)
           s == suscriptions[i]
<1>1. /\ i # 0
      /\ EnviaAlHilo(s.id, Head(desde))
      /\ suscriptions' = RemoveAt(suscriptions, i)
      /\ abierta' = abierta \ {s.id}
      /\ candado' = "oyente" /\ oyente' = En("une", s.id)
      /\ oyente = Lee
      /\ UNCHANGED <<usuario, sub_id, nats, hilo, conexion>>
  BY DEF ReparteUltimo, delUsuario, RecibeMensaje, LeeMsg, LeeHmsg, OyenteRecibe
<1>2. i \in 1..Len(suscriptions)
  BY <1>1, PrimeraHalla DEF Inv, Tipado
<1> HIDE DEF i
<1>3. /\ s.id \in Ids
      /\ cola' \in [Ids -> Seq(BOOLEAN)]
      /\ limite' \in [Ids -> {<< >>} \cup (Nat \X Nat)]
      /\ \A o \in Ids : o # s.id => limite'[o] = limite[o]
      /\ PorHilo' /\ LimiteLocal'
  BY <1>1, <1>2, EntregaInv
<1>4. /\ suscriptions' \in Seq(Fila) /\ abierta' \subseteq Ids
      /\ EnTabla' /\ PorLimite'
  BY <1>1, <1>2, <1>3, QuitadaInv
<1>5. Tipado'
  BY <1>1, <1>3, <1>4 DEF Inv, Tipado, En
<1>6. /\ oyente.fase = "lee" /\ oyente # Fin
      /\ oyente'.fase = "une" /\ oyente'.id = s.id
  BY <1>1 DEF Lee, Fin, En
<1>7. Anotando' /\ Envenenado'
  BY <1>1, <1>6 DEF Inv, Anotando, Envenenado
<1>8. SinFila'
  BY <1>1, <1>6 DEF Inv, SinFila, Saldada
<1>9. QED
  BY <1>3, <1>4, <1>5, <1>7, <1>8 DEF Inv

LEMMA RepartePasadoInv ==
  ASSUME Inv, RepartePasado
  PROVE  Inv'
<1> DEFINE i == Primera(Head(desde).tema)
           s == suscriptions[i]
           f == [s EXCEPT !.max = SinLimite]
           l == limite[s.id]
<1>1. /\ i # 0 /\ Agotada(s)
      /\ EnviaAlHilo(s.id, Head(desde))
      /\ UNCHANGED <<usuario, sub_id, nats, hilo, conexion>>
      /\ \/ /\ oyente' = Fin /\ candado' = "envenenado"
            /\ suscriptions' = RemoveAt(suscriptions, i)
            /\ abierta' = abierta \ {s.id}
         \/ /\ Reencola(i, f)
            /\ UNCHANGED <<oyente, candado, abierta>>
  BY DEF RepartePasado, delUsuario
<1>2. i \in 1..Len(suscriptions)
  BY <1>1, PrimeraHalla DEF Inv, Tipado
<1> HIDE DEF i
<1>3. /\ s \in Fila /\ s.id \in Ids
      /\ cola' \in [Ids -> Seq(BOOLEAN)]
      /\ limite' \in [Ids -> {<< >>} \cup (Nat \X Nat)]
      /\ limite'[s.id] = IF l = << >> THEN << >> ELSE <<l[1], l[2] + 1>>
      /\ \A o \in Ids : o # s.id => limite'[o] = limite[o]
      /\ PorHilo' /\ LimiteLocal'
  BY <1>1, <1>2, EntregaInv
<1>4. CASE /\ oyente' = Fin /\ candado' = "envenenado"
           /\ suscriptions' = RemoveAt(suscriptions, i)
           /\ abierta' = abierta \ {s.id}
  <2>1. /\ suscriptions' \in Seq(Fila) /\ abierta' \subseteq Ids
        /\ EnTabla' /\ PorLimite'
    BY <1>2, <1>3, <1>4, QuitadaInv
  <2>2. Tipado'
    BY <1>1, <1>3, <1>4, <2>1 DEF Inv, Tipado, Fin
  <2>3. Anotando' /\ Envenenado' /\ SinFila'
    BY <1>1, <1>4 DEF Inv, Anotando, Envenenado, SinFila, Saldada
  <2>4. QED
    BY <1>3, <2>1, <2>2, <2>3 DEF Inv
<1>5. CASE Reencola(i, f) /\ UNCHANGED <<oyente, candado, abierta>>
  <2>1. f \in Fila /\ f.id = s.id
    BY <1>3 DEF Fila, Topes
  <2>2. Alcanza(f, limite'[s.id])
    <3>1. Alcanza(s, l) /\ s.max[1] = 0
      BY <1>1, <1>2 DEF Inv, PorLimite, Agotada
    <3>2. l = << >> \/ ~(l[1] > 0)
      BY <3>1 DEF Alcanza
    <3>3. limite'[s.id] = << >> \/ ~(limite'[s.id][1] > 0)
      BY <3>2, <1>3
    <3> HIDE DEF f
    <3>4. QED
      BY <3>3 DEF Alcanza
  <2> HIDE DEF f
  <2>3. /\ suscriptions' \in Seq(Fila) /\ abierta' \subseteq Ids
        /\ EnTabla' /\ PorLimite'
    BY <1>2, <1>3, <1>5, <2>1, <2>2, ReencolaInv
  <2>4. Tipado'
    BY <1>1, <1>3, <1>5, <2>3 DEF Inv, Tipado
  <2>5. Anotando' /\ Envenenado' /\ SinFila'
    BY <1>1, <1>5 DEF Inv, Anotando, Envenenado, SinFila, Saldada
  <2>6. QED
    BY <1>3, <2>3, <2>4, <2>5 DEF Inv
<1>6. QED
  BY <1>1, <1>4, <1>5

LEMMA PierdeFilaInv ==
  ASSUME Inv, PierdeFila
  PROVE  Inv'
<1> DEFINE i == Primera(Head(desde).tema)
           s == suscriptions[i]
<1>1. /\ i # 0
      /\ suscriptions' = RemoveAt(suscriptions, i)
      /\ abierta' = abierta \ {s.id}
      /\ conexion = "rota"
      /\ UNCHANGED <<usuario, sub_id, nats, candado, oyente, cola, hilo, limite, conexion>>
  BY DEF PierdeFila, NoEscribe, delUsuario
<1>2. i \in 1..Len(suscriptions)
  BY <1>1, PrimeraHalla DEF Inv, Tipado
<1> HIDE DEF i
<1>3. /\ suscriptions' \in Seq(Fila) /\ abierta' \subseteq Ids
      /\ EnTabla' /\ PorLimite'
  BY <1>1, <1>2, QuitadaInv
<1>4. Tipado'
  BY <1>1, <1>3 DEF Inv, Tipado
<1>5. PorHilo' /\ LimiteLocal'
  BY <1>1 DEF Inv, PorHilo, LimiteLocal
<1>6. Anotando' /\ Envenenado' /\ SinFila'
  BY <1>1 DEF Inv, Anotando, Envenenado, SinFila, Saldada
<1>7. QED
  BY <1>3, <1>4, <1>5, <1>6 DEF Inv

(* A thread takes a message, runs its callback or ends.                    *)
LEMMA HiloInv ==
  ASSUME Inv, NEW id \in Ids, Hilo(id)
  PROVE  Inv'
<1>1. UNCHANGED <<usuario, sub_id, nats, suscriptions, candado, oyente, abierta, limite,
                  conexion>>
  BY DEF Hilo, HiloToma, HiloAtiende, HiloTermina, delUsuario
<1>2. PICK f \in {"espera", "atiende", "responde", "fin"} :
        /\ hilo[id] \in {"espera", "atiende", "responde"}
        /\ hilo' = [hilo EXCEPT ![id] = f]
        /\ f = "fin" => cola[id] = << >> /\ id \notin abierta
        /\ \/ cola' = cola
           \/ /\ cola[id] # << >> /\ cola' = [cola EXCEPT ![id] = Tail(cola[id])]
              /\ f # "fin"
  BY DEF Hilo, HiloToma, HiloAtiende, HiloTermina
<1>3. cola \in [Ids -> Seq(BOOLEAN)]
      /\ hilo \in [Ids -> {"no", "espera", "atiende", "responde", "fin"}]
  BY DEF Inv, Tipado
<1>4. /\ cola' \in [Ids -> Seq(BOOLEAN)]
      /\ \A o \in Ids : o # id => cola'[o] = cola[o]
      /\ f = "fin" => cola'[id] = << >>
  <2>1. CASE cola' = cola
    BY <2>1, <1>2, <1>3
  <2>2. CASE /\ cola[id] # << >> /\ cola' = [cola EXCEPT ![id] = Tail(cola[id])]
             /\ f # "fin"
    <3>1. cola[id] \in Seq(BOOLEAN)
      BY <1>3
    <3>2. Tail(cola[id]) \in Seq(BOOLEAN)
      BY <2>2, <3>1, HeadTailProperties
    <3>3. QED
      BY <2>2, <3>2, <1>3
  <2>3. QED
    BY <2>1, <2>2, <1>2
<1>5. /\ hilo' \in [Ids -> {"no", "espera", "atiende", "responde", "fin"}]
      /\ hilo'[id] = f /\ f # "no"
      /\ \A o \in Ids : o # id => hilo'[o] = hilo[o]
  BY <1>2, <1>3
<1>6. Tipado'
  BY <1>1, <1>4, <1>5 DEF Inv, Tipado
<1>7. PorHilo'
  <2>1. SUFFICES ASSUME NEW o \in Ids
                 PROVE  /\ o > sub_id => hilo'[o] = "no"
                        /\ hilo'[o] = "no" => cola'[o] = << >> /\ o \notin abierta
                                              /\ limite[o] = << >>
                        /\ hilo'[o] = "fin" => cola'[o] = << >> /\ o \notin abierta
    BY <1>1 DEF PorHilo
  <2>2. CASE o = id
    BY <2>2, <1>2, <1>4, <1>5 DEF Inv, PorHilo
  <2>3. CASE o # id
    BY <2>3, <1>4, <1>5 DEF Inv, PorHilo
  <2>4. QED
    BY <2>2, <2>3
<1>8. Anotando' /\ Envenenado'
  <2>1. usuario.fase = "anota" => usuario.id \in Ids
    BY Formas DEF Inv
  <2>2. QED
    BY <2>1, <1>1, <1>2, <1>5 DEF Inv, Anotando, Envenenado
<1>9. SinFila'
  <2>1. \A o \in 1..sub_id : o \in Ids
    BY NatsClientAssumption DEF Inv, Tipado, Ids
  <2>2. \A o \in Ids : Saldada(o) => Saldada(o)'
    BY <1>1, <1>2, <1>5 DEF Saldada
  <2>3. QED
    BY <2>1, <2>2, <1>1 DEF Inv, SinFila
<1>10. EnTabla' /\ PorLimite' /\ LimiteLocal'
  BY <1>1 DEF Inv, EnTabla, PorLimite, LimiteLocal
<1>11. QED
  BY <1>6, <1>7, <1>8, <1>9, <1>10 DEF Inv

-----------------------------------------------------------------------------
LEMMA SiguienteInv == Inv /\ [Next]_vars => Inv'
<1>1. SUFFICES ASSUME Inv, [Next]_vars
               PROVE  Inv'
  OBVIOUS
<1>2. CASE Servidor
  BY <1>1, <1>2, ServidorInv, RompeInv DEF Servidor
<1>3. CASE Pide
  <2>1. CASE Publica \/ CreateStream \/ HPublica \/ NoCreaConsumer
    BY <1>1, <2>1, UnaEscrituraInv
  <2>2. ASSUME NEW patron \in Patrones, Suscribe(patron)
        PROVE  Inv'
    BY <1>1, <2>2, EscribeSubInv, NoEscribeSubInv DEF Suscribe
  <2>3. ASSUME NEW patron \in Patrones, CreaConsumer(patron)
        PROVE  Inv'
    BY <1>1, <2>3, EscribeSubInv, NoEscribeSubInv DEF CreaConsumer
  <2>4. ASSUME NEW id \in 1..sub_id, NEW max \in {SinLimite} \cup {<<n>> : n \in Limites},
               Desuscribe(id, max)
        PROVE  Inv'
    BY <1>1, <2>4, DesuscribeInv
  <2>5. CASE NoAnota
    BY <1>1, <2>5, NoAnotaInv
  <2>6. QED
    BY <1>3, <2>1, <2>2, <2>3, <2>4, <2>5 DEF Pide
<1>4. CASE Usuario
  BY <1>1, <1>4, AnotaInv, FijaLimiteInv, QuitaFilaInv, UsuarioInv DEF Usuario
<1>5. CASE Oyente
  BY <1>1, <1>5, UsuarioInv, OyenteSigue, ReparteInv, ReparteUltimoInv,
     RepartePasadoInv, PierdeFilaInv DEF Oyente
<1>6. CASE \E id \in Ids : Hilo(id)
  BY <1>1, <1>6, HiloInv
<1>7. CASE UNCHANGED vars
  BY <1>1, <1>7, NadaCambia DEF vars, delUsuario, hilos, Tabla, Actores
<1>8. QED
  BY <1>1, <1>2, <1>3, <1>4, <1>5, <1>6, <1>7 DEF Next

(* The table, the threads, their senders and the limits agree, whatever    *)
(* the user, the server and the connection do.                             *)
THEOREM InvSiempre == Spec => []Inv
<1>1. QED
  BY InitInv, SiguienteInv, PTL DEF Spec

(* A sender is open exactly while its row is in the table, no two rows     *)
(* share an id, and no thread has anything before it was asked for.        *)
THEOREM TypeOKSiempre == Spec => []TypeOK
<1>1. Inv => TypeOK
  <2>1. SUFFICES ASSUME Inv
                 PROVE  TypeOK
    OBVIOUS
  <2>2. usuario.fase \in {"conecta", "libre", "anota", "desuscribe", "une", "fin"}
    BY <2>1 DEF Inv, Tipado
  <2>3. /\ oyente.fase \in {"lee", "une", "fin"}
        /\ candado \in {"libre", "oyente", "envenenado"}
        /\ nats \in {"libre", "usuario"}
    BY <2>1 DEF Inv, Tipado
  <2>4. /\ abierta = {suscriptions[i].id : i \in 1..Len(suscriptions)}
        /\ IsInjective([i \in 1..Len(suscriptions) |-> suscriptions[i].id])
    BY <2>1 DEF Inv, EnTabla, IdsDe, Distintas, IsInjective
  <2>5. \A i \in Ids : hilo[i] = "no" => cola[i] = << >> /\ i \notin abierta
    BY <2>1 DEF Inv, PorHilo
  <2>6. QED
    BY <2>2, <2>3, <2>4, <2>5 DEF TypeOK
<1>2. QED
  BY <1>1, InvSiempre, PTL

(* After unsubscribe(id, n) the callback runs for n more messages at the   *)
(* most, also when the command crosses copies that are under way, when     *)
(* others match the same subject and when a limit is replaced by another.  *)
THEOREM LimiteLocalSiempre == Spec => []LimiteLocal
<1>1. Inv => LimiteLocal
  BY DEF Inv
<1>2. QED
  BY <1>1, InvSiempre, PTL

(* Once unsubscribe has returned without a limit, or the last message was  *)
(* handed over, the thread has ended and dealt with what it had: the join  *)
(* of the user and the join of the listening thread leave nothing behind.  *)
THEOREM NadaTrasDesuscribirSiempre == Spec => []NadaTrasDesuscribir
<1>1. Inv => NadaTrasDesuscribir
  <2>1. SUFFICES ASSUME Inv, NEW id \in 1..sub_id,
                        usuario = Libre, id \notin abierta, oyente = Lee,
                        conexion = "viva"
                 PROVE  hilo[id] \in {"fin", "no"} /\ cola[id] = << >>
    BY DEF NadaTrasDesuscribir
  <2>2. hilo[id] \in {"fin", "no"}
    BY <2>1 DEF Inv, SinFila, Saldada, Libre, Lee, Fin
  <2>3. id \in Ids
    BY <2>1, NatsClientAssumption DEF Inv, Tipado, Ids
  <2>4. QED
    BY <2>1, <2>2, <2>3 DEF Inv, PorHilo
<1>2. QED
  BY <1>1, InvSiempre, PTL

-----------------------------------------------------------------------------
(* The copies of a publication.  What follows relates the copies on the    *)
(* way to the rows of the table that wait for them, and the table to the   *)
(* rows of the server through the commands on the way; it holds as long as *)
(* no command has crossed a copy.                                          *)

(* The lines the client sends, and those the server writes.                *)
Comandos ==
  [tipo : {"CONNECT", "RECHAZADA"}]
  \cup [tipo : {"SUB"}, id : Ids, patron : Patrones]
  \cup [tipo : {"UNSUB"}, id : Ids, max : Topes]
Escritos == [tipo : {"+OK", "PING", "-ERR"}]
           \cup [tipo : {"MSG", "HMSG"}, tema : Temas, n : Nat]

(* What is on the way, and the rows of the server, have their form.        *)
Red ==
  /\ hacia \in Seq(Comandos)
  /\ desde \in Seq(Escritos)
  /\ filas \subseteq [id : Ids, patron : Patrones, max : Topes]
  /\ publicadas \in Nat
  /\ candado # "envenenado"

(* What a subscription got is the beginning of what was written to it.     *)
Historias ==
  /\ enviadas \in [Ids -> Seq(Nat)] /\ recibidas \in [Ids -> Seq(Nat)]
  /\ \A id \in Ids :
       /\ Len(recibidas[id]) <= Len(enviadas[id])
       /\ \A k \in 1..Len(recibidas[id]) : recibidas[id][k] = enviadas[id][k]
       /\ \A j, k \in 1..Len(enviadas[id]) : j < k => enviadas[id][j] < enviadas[id][k]
       /\ \A k \in 1..Len(enviadas[id]) : enviadas[id][k] <= publicadas

(* What a subscription got, how many copies it lacks and which.            *)
Tiene(id) == {recibidas[id][k] : k \in 1..Len(recibidas[id])}
Faltan(id) == Len(enviadas[id]) - Len(recibidas[id])
Debe(id) == {enviadas[id][k] : k \in (Len(recibidas[id]) + 1)..Len(enviadas[id])}

(* Nothing is owed to a row that is gone, nor more than its limit to       *)
(* another.                                                                *)
SinDeuda ==
  /\ \A id \in Ids : id \notin abierta => Debe(id) = {}
  /\ \A i \in 1..Len(suscriptions) :
       suscriptions[i].max # SinLimite
         => Faltan(suscriptions[i].id) <= suscriptions[i].max[1]

(* A copy on the way is owed to a row, or the row has had its own, or it   *)
(* was out of messages at the server.                                      *)
Toca(s, msg) ==
  \/ msg.n \in Debe(s.id) \cup Tiene(s.id)
  \/ /\ Faltan(s.id) > 0 /\ s.max = <<Faltan(s.id)>>
     /\ \A m \in Debe(s.id) : m < msg.n

(* A copy on the way is the latest of what any row has had, and goes to    *)
(* the rows that match its subject.                                        *)
EnCamino(msg) ==
  /\ msg.n <= publicadas
  /\ \A id \in Ids : \A m \in Tiene(id) : m <= msg.n
  /\ \A i \in 1..Len(suscriptions) :
       /\ EsPara(suscriptions[i], msg.tema) => Toca(suscriptions[i], msg)
       /\ msg.n \in Debe(suscriptions[i].id) => EsPara(suscriptions[i], msg.tema)

(* Copies travel in the order of the publications.                         *)
EnOrden ==
  \A j, k \in 1..Len(desde) :
    (j < k /\ EsMensaje(desde[j]) /\ EsMensaje(desde[k])) => desde[j].n <= desde[k].n

(* There are as many copies of a publication as rows it is owed to.        *)
CopiasDe(d, n) == {k \in 1..Len(d) : EsMensaje(d[k]) /\ d[k].n = n}
Deudores(n) == {id \in Ids : n \in Debe(id)}

Cuentas == \A n \in Nat : Cardinality(CopiasDe(desde, n)) = Cardinality(Deudores(n))

(* The rows that have had a publication come after those that wait for it. *)
Turnos ==
  \A i, j \in 1..Len(suscriptions) :
    i < j => Tiene(suscriptions[i].id) \cap Debe(suscriptions[j].id) = {}

Caminos == \A k \in 1..Len(desde) : EsMensaje(desde[k]) => EnCamino(desde[k])

(* The copies on the way and the rows of the table that wait for them.     *)
Reparto ==
  /\ SinDeuda
  /\ Caminos
  /\ EnOrden
  /\ Cuentas
  /\ Turnos

(* Nothing is on the way while a command is carried out.                   *)
Calma == OrdenEnCurso => ~HayMensajes

(* A command for a subscription.                                           *)
DeId(orden, id) == orden.tipo \in {"SUB", "UNSUB"} /\ orden.id = id

(* One row at the server for each subscription, and none before its SUB.   *)
FilasUnicas ==
  /\ \A f, g \in filas : f.id = g.id => f = g
  /\ \A f \in filas : f.id \in 1..sub_id
  /\ \A k \in 1..Len(hacia) :
       /\ hacia[k].tipo \in {"SUB", "UNSUB"} => hacia[k].id \in 1..sub_id
       /\ hacia[k].tipo = "SUB" =>
            /\ \A f \in filas : f.id # hacia[k].id
            /\ \A j \in 1..(k - 1) : ~DeId(hacia[j], hacia[k].id)

(* The table when the user's operation is over.                            *)
Quita(id) == usuario.fase = "desuscribe" /\ usuario.id = id
Futura(id, p, m) ==
  \/ usuario.fase = "anota" /\ usuario.id = id /\ usuario.patron = p /\ m = SinLimite
  \/ \E i \in 1..Len(suscriptions) :
       LET s == suscriptions[i] IN
       /\ s.id = id /\ s.patron = p
       /\ IF Quita(id) THEN m = usuario.max /\ m # SinLimite ELSE m = s.max

(* The limit that a command sets, and the last command for a               *)
(* subscription.                                                           *)
Tope(orden) == IF orden.tipo = "SUB" THEN SinLimite ELSE orden.max
EsUltima(k, id) == DeId(hacia[k], id) /\ \A j \in (k + 1)..Len(hacia) : ~DeId(hacia[j], id)

(* The limit of the table is that of the server and what is still owed;    *)
(* or the server has written all it had to and has dropped the row.        *)
Cuadra(id, m) ==
  \/ \E f \in filas :
       /\ f.id = id
       /\ f.max = SinLimite <=> m = SinLimite
       /\ m # SinLimite =>
            m[1] = f.max[1] + Faltan(id) /\ (f.max[1] = 0 => Faltan(id) = 0)
  \/ (\A f \in filas : f.id # id) /\ Faltan(id) > 0 /\ m = <<Faltan(id)>>

(* A row of the table that will stay: the commands on the way end in it.   *)
Servida(id, p, m) ==
  /\ \A f \in filas : f.id = id => f.patron = p
  /\ \A k \in 1..Len(hacia) : DeId(hacia[k], id) =>
       IF hacia[k].tipo = "SUB" THEN hacia[k].patron = p ELSE hacia[k].max # SinLimite
  /\ \A k \in 1..Len(hacia) : EsUltima(k, id) => m = Tope(hacia[k])
  /\ (\A k \in 1..Len(hacia) : ~DeId(hacia[k], id)) => Cuadra(id, m)

(* A row that is no more: the server has none, or will drop it.            *)
Olvidada(id) ==
  \/ (\A f \in filas : f.id # id)
     /\ \A k \in 1..Len(hacia) : hacia[k].tipo = "SUB" => hacia[k].id # id
  \/ \E k \in 1..Len(hacia) :
       hacia[k].tipo = "UNSUB" /\ hacia[k].id = id /\ hacia[k].max = SinLimite

(* The table of the client, once the operation in course is over, and the  *)
(* rows of the server, once it has read the commands on the way, agree.    *)
Acuerdo ==
  /\ FilasUnicas
  /\ \A id \in Ids, p \in Patrones, m \in Topes : Futura(id, p, m) => Servida(id, p, m)
  /\ \A id \in Ids :
       (\A p \in Patrones, m \in Topes : ~Futura(id, p, m)) => Olvidada(id)

(* Both ends still read what the other writes.                             *)
Viva == conexion = "viva" /\ ~SinLector

(* The inductive invariant, while no command has crossed a copy.           *)
Bien ==
  /\ Red
  /\ Historias
  /\ Reparto
  /\ Calma
  /\ Viva => Acuerdo

Copias == cruce \/ Bien

-----------------------------------------------------------------------------
(* Histories of one subscription                                           *)

LEMMA Contada ==
  ASSUME Historias, NEW id \in Ids
  PROVE  /\ enviadas[id] \in Seq(Nat) /\ recibidas[id] \in Seq(Nat)
         /\ Len(enviadas[id]) \in Nat /\ Len(recibidas[id]) \in Nat
         /\ Faltan(id) \in Nat
         /\ Debe(id) \subseteq Nat /\ Tiene(id) \subseteq Nat
         /\ Faltan(id) = 0 <=> Debe(id) = {}
<1> DEFINE env == enviadas[id]
           rec == recibidas[id]
<1>1. env \in Seq(Nat) /\ rec \in Seq(Nat) /\ Len(rec) <= Len(env)
  BY DEF Historias
<1>2. /\ Len(env) \in Nat /\ \A k \in 1..Len(env) : env[k] \in Nat
      /\ Len(rec) \in Nat /\ \A k \in 1..Len(rec) : rec[k] \in Nat
  BY <1>1, LenProperties, ElementOfSeq
<1> HIDE DEF env, rec
<1>3. Faltan(id) = Len(env) - Len(rec) /\ Faltan(id) \in Nat
  BY <1>1, <1>2 DEF Faltan, env, rec
<1>4. Tiene(id) \subseteq Nat
  BY <1>2 DEF Tiene, rec
<1>5. Debe(id) = {env[k] : k \in (Len(rec) + 1)..Len(env)}
  BY DEF Debe, env, rec
<1>6. Debe(id) \subseteq Nat
  BY <1>1, <1>2, <1>5
<1>7. Faltan(id) = 0 => Debe(id) = {}
  <2>1. Len(env) = Len(rec) => (Len(rec) + 1)..Len(env) = {}
    BY <1>2
  <2>2. QED
    BY <2>1, <1>2, <1>3, <1>5
<1>8. Faltan(id) # 0 => env[Len(env)] \in Debe(id)
  <2>1. Faltan(id) # 0 => Len(env) \in (Len(rec) + 1)..Len(env)
    BY <1>1, <1>2, <1>3
  <2>2. QED
    BY <2>1, <1>5
<1>9. QED
  BY <1>1, <1>2, <1>3, <1>4, <1>6, <1>7, <1>8 DEF env, rec

(* The oldest of those that are owed is the next one.                      *)
LEMMA Siguiente ==
  ASSUME Historias, NEW id \in Ids, NEW n \in Debe(id), \A m \in Debe(id) : n <= m
  PROVE  /\ Faltan(id) > 0
         /\ n = enviadas[id][Len(recibidas[id]) + 1]
<1> DEFINE env == enviadas[id]
           rec == recibidas[id]
           j == Len(rec) + 1
<1>1. /\ Len(env) \in Nat /\ Len(rec) \in Nat /\ Len(rec) <= Len(env)
      /\ Debe(id) \subseteq Nat
      /\ \A a, b \in 1..Len(env) : a < b => env[a] < env[b]
  BY Contada DEF Historias
<1> HIDE DEF env, rec
<1>2. PICK k \in j..Len(env) : n = env[k]
  BY DEF Debe, env, rec
<1>3. j \in j..Len(env) /\ j \in 1..Len(env) /\ k \in 1..Len(env)
  BY <1>1, <1>2
<1>4. env[j] \in Debe(id)
  BY <1>3 DEF Debe, env, rec
<1>5. ~(j < k)
  <2>1. SUFFICES ASSUME j < k
                 PROVE  FALSE
    OBVIOUS
  <2>2. env[j] < n
    BY <2>1, <1>1, <1>2, <1>3
  <2>3. n <= env[j] /\ n \in Nat /\ env[j] \in Nat
    BY <1>1, <1>4
  <2>4. QED
    BY <2>2, <2>3
<1>6. k = j
  BY <1>1, <1>2, <1>5
<1>7. n = env[j]
  BY <1>2, <1>6
<1>8. Len(env) - Len(rec) > 0
  BY <1>1, <1>3
<1>9. QED
  BY <1>7, <1>8 DEF Faltan, env, rec

(* It reaches its subscription.                                            *)
LEMMA Entregada ==
  ASSUME Historias, NEW id \in Ids, NEW n \in Debe(id), \A m \in Debe(id) : n <= m,
         recibidas' = [recibidas EXCEPT ![id] = Append(@, n)],
         UNCHANGED <<enviadas, publicadas>>
  PROVE  /\ Historias'
         /\ Faltan(id) > 0 /\ Faltan(id)' = Faltan(id) - 1
         /\ Debe(id)' = Debe(id) \ {n} /\ Tiene(id)' = Tiene(id) \cup {n}
         /\ \A o \in Ids : o # id =>
              Faltan(o)' = Faltan(o) /\ Debe(o)' = Debe(o) /\ Tiene(o)' = Tiene(o)
<1> DEFINE env == enviadas[id]
           rec == recibidas[id]
           j == Len(rec) + 1
           nueva == Append(rec, n)
<1>1. /\ env \in Seq(Nat) /\ rec \in Seq(Nat)
      /\ Len(env) \in Nat /\ Len(rec) \in Nat /\ Len(rec) <= Len(env)
      /\ n \in Nat
      /\ \A k \in 1..Len(rec) : rec[k] = env[k]
      /\ \A a, b \in 1..Len(env) : a < b => env[a] < env[b]
  BY Contada DEF Historias
<1>2. Faltan(id) > 0 /\ n = env[j]
  BY Siguiente
<1>3. Faltan(id) = Len(env) - Len(rec)
  BY DEF Faltan
<1>4. /\ nueva \in Seq(Nat) /\ Len(nueva) = j
      /\ \A k \in 1..Len(rec) : nueva[k] = rec[k]
      /\ nueva[j] = n
  BY <1>1, AppendProperties
<1>5. /\ recibidas' \in [Ids -> Seq(Nat)] /\ recibidas'[id] = nueva
      /\ \A o \in Ids : o # id => recibidas'[o] = recibidas[o]
  BY <1>4 DEF Historias
<1> HIDE DEF env, rec, nueva
<1>6. /\ Len(nueva) <= Len(env)
      /\ \A k \in 1..Len(nueva) : nueva[k] = env[k]
  <2>1. \A k \in 1..Len(nueva) : k \in 1..Len(rec) \/ k = j
    BY <1>1, <1>4
  <2>2. j <= Len(env)
    BY <1>1, <1>2, <1>3
  <2>3. \A k \in 1..Len(nueva) : nueva[k] = env[k]
    BY <2>1, <1>1, <1>2, <1>4
  <2>4. QED
    BY <2>2, <2>3, <1>4
<1>7. Historias'
  <2>1. SUFFICES ASSUME NEW o \in Ids
                 PROVE  /\ Len(recibidas'[o]) <= Len(enviadas[o])
                        /\ \A k \in 1..Len(recibidas'[o]) : recibidas'[o][k] = enviadas[o][k]
    BY <1>5 DEF Historias
  <2>2. QED
    BY <1>5, <1>6 DEF Historias, env
<1>8. Faltan(id)' = Faltan(id) - 1
  <2>1. Faltan(id)' = Len(env) - Len(nueva)
    BY <1>5 DEF Faltan, env
  <2>2. QED
    BY <2>1, <1>1, <1>3, <1>4
<1>9. Debe(id)' = Debe(id) \ {n}
  <2>1. Debe(id)' = {env[k] : k \in (j + 1)..Len(env)}
    BY <1>4, <1>5 DEF Debe, env
  <2>2. Debe(id) = {env[k] : k \in j..Len(env)}
    BY DEF Debe, env, rec
  <2>3. j \in 1..Len(env) /\ j \in j..Len(env)
    BY <1>1, <1>2, <1>3
  <2>4. \A k \in j..Len(env) : k = j \/ k \in (j + 1)..Len(env)
    BY <1>1
  <2>5. \A k \in (j + 1)..Len(env) : k \in j..Len(env) /\ env[k] # n
    <3>1. SUFFICES ASSUME NEW k \in (j + 1)..Len(env)
                   PROVE  k \in j..Len(env) /\ env[k] # n
      OBVIOUS
    <3>2. k \in 1..Len(env) /\ j < k /\ k \in j..Len(env)
      BY <1>1
    <3>3. env[j] < env[k]
      BY <3>2, <2>3, <1>1
    <3>4. env[k] \in Nat
      BY <3>2, <1>1, ElementOfSeq
    <3>5. QED
      BY <3>2, <3>3, <3>4, <1>1, <1>2
  <2>6. QED
    BY <2>1, <2>2, <2>4, <2>5, <1>2
<1>10. Tiene(id)' = Tiene(id) \cup {n}
  <2>1. Tiene(id)' = {nueva[k] : k \in 1..j}
    <3>1. Tiene(id)' = {nueva[k] : k \in 1..Len(nueva)}
      BY <1>5 DEF Tiene
    <3>2. QED
      BY <3>1, <1>4
  <2>2. Tiene(id) = {nueva[k] : k \in 1..Len(rec)}
    BY <1>4 DEF Tiene, rec
  <2>3. \A k \in 1..j : k \in 1..Len(rec) \/ k = j
    BY <1>1
  <2>4. j \in 1..j /\ \A k \in 1..Len(rec) : k \in 1..j
    BY <1>1
  <2>5. QED
    BY <2>1, <2>2, <2>3, <2>4, <1>4
<1>11. \A o \in Ids : o # id =>
         Faltan(o)' = Faltan(o) /\ Debe(o)' = Debe(o) /\ Tiene(o)' = Tiene(o)
  BY <1>5 DEF Faltan, Debe, Tiene
<1>12. QED
  BY <1>2, <1>7, <1>8, <1>9, <1>10, <1>11

(* A new publication is written to some rows.                              *)
LEMMA Escrita ==
  ASSUME Historias, publicadas \in Nat, publicadas' = publicadas + 1, NEW ids,
         enviadas' = [i \in Ids |-> IF i \in ids THEN Append(enviadas[i], publicadas + 1)
                                    ELSE enviadas[i]],
         recibidas' = recibidas
  PROVE  /\ Historias'
         /\ \A o \in Ids :
              /\ Tiene(o)' = Tiene(o)
              /\ Debe(o)' = IF o \in ids THEN Debe(o) \cup {publicadas + 1} ELSE Debe(o)
              /\ Faltan(o)' = IF o \in ids THEN Faltan(o) + 1 ELSE Faltan(o)
              /\ \A m \in Tiene(o) \cup Debe(o) : m <= publicadas
<1> DEFINE n == publicadas + 1
<1>1. ASSUME NEW o \in Ids
      PROVE  /\ enviadas'[o] \in Seq(Nat)
             /\ Len(recibidas[o]) <= Len(enviadas'[o])
             /\ \A k \in 1..Len(recibidas[o]) : recibidas[o][k] = enviadas'[o][k]
             /\ \A j, k \in 1..Len(enviadas'[o]) :
                  j < k => enviadas'[o][j] < enviadas'[o][k]
             /\ \A k \in 1..Len(enviadas'[o]) : enviadas'[o][k] <= n
             /\ Tiene(o)' = Tiene(o)
             /\ Debe(o)' = IF o \in ids THEN Debe(o) \cup {n} ELSE Debe(o)
             /\ Faltan(o)' = IF o \in ids THEN Faltan(o) + 1 ELSE Faltan(o)
             /\ \A m \in Tiene(o) \cup Debe(o) : m <= publicadas
  <2> DEFINE env == enviadas[o]
             rec == recibidas[o]
             nueva == Append(env, n)
  <2>1. /\ env \in Seq(Nat) /\ rec \in Seq(Nat)
        /\ Len(env) \in Nat /\ Len(rec) \in Nat /\ Len(rec) <= Len(env)
        /\ \A k \in 1..Len(rec) : rec[k] = env[k]
        /\ \A a, b \in 1..Len(env) : a < b => env[a] < env[b]
        /\ \A k \in 1..Len(env) : env[k] <= publicadas
    BY Contada DEF Historias
  <2>2. \A k \in 1..Len(env) : env[k] \in Nat
    BY <2>1, ElementOfSeq
  <2>3. /\ nueva \in Seq(Nat) /\ Len(nueva) = Len(env) + 1
        /\ \A k \in 1..Len(env) : nueva[k] = env[k]
        /\ nueva[Len(env) + 1] = n
    BY <2>1, AppendProperties
  <2>4. enviadas'[o] = IF o \in ids THEN nueva ELSE env
    OBVIOUS
  <2>5. /\ Tiene(o)' = Tiene(o)
        /\ Tiene(o) = {rec[k] : k \in 1..Len(rec)}
        /\ Debe(o) = {env[k] : k \in (Len(rec) + 1)..Len(env)}
        /\ Debe(o)' = {enviadas'[o][k] : k \in (Len(rec) + 1)..Len(enviadas'[o])}
        /\ Faltan(o) = Len(env) - Len(rec)
        /\ Faltan(o)' = Len(enviadas'[o]) - Len(rec)
    BY DEF Tiene, Debe, Faltan
  <2> HIDE DEF env, rec, nueva
  <2>6. \A m \in Tiene(o) \cup Debe(o) : m <= publicadas
    <3>1. \A k \in 1..Len(rec) : k \in 1..Len(env)
      BY <2>1
    <3>2. \A k \in (Len(rec) + 1)..Len(env) : k \in 1..Len(env)
      BY <2>1
    <3>3. QED
      BY <3>1, <3>2, <2>1, <2>5
  <2>7. CASE o \notin ids
    <3>1. enviadas'[o] = env
      BY <2>4, <2>7
    <3>2. \A k \in 1..Len(env) : env[k] <= n
      BY <2>1, <2>2
    <3>3. recibidas[o] = rec
      BY DEF rec
    <3>4. /\ Debe(o)' = Debe(o)
          /\ Faltan(o)' = Faltan(o)
      <4>1. {enviadas'[o][k] : k \in (Len(rec) + 1)..Len(enviadas'[o])}
              = {env[k] : k \in (Len(rec) + 1)..Len(env)}
        BY <3>1
      <4>2. Debe(o)' = Debe(o)
        BY <2>5, <4>1
      <4>3. QED
        BY <2>5, <3>1, <4>2
    <3>5. /\ enviadas'[o] \in Seq(Nat)
          /\ Len(recibidas[o]) <= Len(enviadas'[o])
          /\ \A k \in 1..Len(recibidas[o]) : recibidas[o][k] = enviadas'[o][k]
      <4>1. /\ env \in Seq(Nat) /\ Len(rec) <= Len(env)
            /\ \A k \in 1..Len(rec) : rec[k] = env[k]
        BY <2>1
      <4>2. QED
        BY <4>1, <3>1, <3>3
    <3>6. \A j, k \in 1..Len(enviadas'[o]) : j < k => enviadas'[o][j] < enviadas'[o][k]
      BY <2>1, <3>1
    <3>7. \A k \in 1..Len(enviadas'[o]) : enviadas'[o][k] <= n
      BY <3>1, <3>2
    <3>8. Tiene(o)' = Tiene(o)
      BY <2>5
    <3>9. QED
      BY <2>6, <2>7, <3>4, <3>5, <3>6, <3>7, <3>8
  <2>8. CASE o \in ids
    <3>1. enviadas'[o] = nueva
      BY <2>4, <2>8
    <3>2. \A k \in 1..Len(nueva) : k \in 1..Len(env) \/ k = Len(env) + 1
      BY <2>1, <2>3
    <3>3. \A k \in 1..Len(nueva) : nueva[k] <= n
      <4>1. \A k \in 1..Len(env) : env[k] <= n
        BY <2>1, <2>2
      <4>2. \A k \in 1..Len(env) : nueva[k] <= n
        BY <4>1, <2>3
      <4>3. nueva[Len(env) + 1] <= n
        BY <2>3
      <4>4. QED
        BY <3>2, <4>2, <4>3
    <3>4. \A a, b \in 1..Len(nueva) : a < b => nueva[a] < nueva[b]
      <4>1. SUFFICES ASSUME NEW a \in 1..Len(nueva), NEW b \in 1..Len(nueva), a < b
                     PROVE  nueva[a] < nueva[b]
        OBVIOUS
      <4>2. a \in 1..Len(env)
        BY <4>1, <2>1, <2>3
      <4>3. CASE b \in 1..Len(env)
        BY <4>1, <4>2, <4>3, <2>1, <2>3
      <4>4. CASE b = Len(env) + 1
        <5>1. nueva[a] <= publicadas /\ nueva[a] \in Nat
          BY <4>2, <2>1, <2>2, <2>3
        <5>2. QED
          BY <5>1, <4>4, <2>3
      <4>5. QED
        BY <4>3, <4>4, <3>2
    <3>5. \A k \in 1..Len(rec) : rec[k] = nueva[k]
      BY <2>1, <2>3
    <3>6. Len(rec) <= Len(nueva) /\ Len(nueva) - Len(rec) = Len(env) - Len(rec) + 1
      BY <2>1, <2>3
    <3>7. Debe(o)' = Debe(o) \cup {n}
      <4>1. \A k \in (Len(rec) + 1)..Len(nueva) :
              k \in (Len(rec) + 1)..Len(env) \/ k = Len(env) + 1
        BY <2>1, <2>3
      <4>2. /\ Len(env) + 1 \in (Len(rec) + 1)..Len(nueva)
            /\ \A k \in (Len(rec) + 1)..Len(env) :
                 k \in (Len(rec) + 1)..Len(nueva) /\ k \in 1..Len(env)
        BY <2>1, <2>3
      <4>3. Debe(o)' = {nueva[k] : k \in (Len(rec) + 1)..Len(nueva)}
        BY <2>5, <3>1
      <4>4. \A k \in (Len(rec) + 1)..Len(env) : nueva[k] = env[k]
        BY <4>2, <2>3
      <4>5. Debe(o)' \subseteq Debe(o) \cup {n}
        BY <4>1, <4>3, <4>4, <2>3, <2>5
      <4>6. Debe(o) \cup {n} \subseteq Debe(o)'
        BY <4>2, <4>3, <4>4, <2>3, <2>5
      <4>7. QED
        BY <4>5, <4>6
    <3>8. recibidas[o] = rec
      BY DEF rec
    <3>9. Faltan(o)' = Faltan(o) + 1
      BY <2>5, <3>1, <3>6
    <3>10. /\ enviadas'[o] \in Seq(Nat)
           /\ Len(recibidas[o]) <= Len(enviadas'[o])
           /\ \A k \in 1..Len(recibidas[o]) : recibidas[o][k] = enviadas'[o][k]
      <4>1. nueva \in Seq(Nat)
        BY <2>3
      <4>2. QED
        BY <4>1, <3>1, <3>5, <3>6, <3>8
    <3>11. \A j, k \in 1..Len(enviadas'[o]) :
             j < k => enviadas'[o][j] < enviadas'[o][k]
      BY <3>1, <3>4
    <3>12. \A k \in 1..Len(enviadas'[o]) : enviadas'[o][k] <= n
      BY <3>1, <3>3
    <3>13. Tiene(o)' = Tiene(o)
      BY <2>5
    <3>14. QED
      BY <2>6, <2>8, <3>7, <3>9, <3>10, <3>11, <3>12, <3>13
  <2>9. QED
    BY <2>7, <2>8
<1>2. enviadas' \in [Ids -> Seq(Nat)] /\ recibidas' \in [Ids -> Seq(Nat)]
  BY <1>1 DEF Historias
<1>3. Historias'
  BY <1>1, <1>2 DEF Historias
<1>4. QED
  BY <1>1, <1>3

-----------------------------------------------------------------------------
(* What is on the way to the client                                        *)

LEMMA Finitas ==
  ASSUME NEW n
  PROVE  /\ \A d \in Seq(Escritos) : IsFiniteSet(CopiasDe(d, n))
         /\ IsFiniteSet(Deudores(n))
<1>1. ASSUME NEW d \in Seq(Escritos)
      PROVE  IsFiniteSet(CopiasDe(d, n))
  <2>1. Len(d) \in Nat
    BY LenProperties
  <2>2. IsFiniteSet(1..Len(d)) /\ CopiasDe(d, n) \in SUBSET (1..Len(d))
    BY <2>1, FS_Interval DEF CopiasDe
  <2>3. QED
    BY <2>2, FS_Subset
<1>2. IsFiniteSet(Deudores(n))
  <2>1. MaxSubs \in Nat
    BY NatsClientAssumption
  <2>2. IsFiniteSet(Ids) /\ Deudores(n) \in SUBSET Ids
    BY <2>1, FS_Interval DEF Ids, Deudores
  <2>3. QED
    BY <2>2, FS_Subset
<1>3. QED
  BY <1>1, <1>2

(* The first of the queue is read.                                         *)
LEMMA Leida ==
  ASSUME NEW d \in Seq(Escritos), d # << >>
  PROVE  /\ Head(d) \in Escritos /\ Len(d) \in Nat /\ 1 \in 1..Len(d) /\ Head(d) = d[1]
         /\ Tail(d) \in Seq(Escritos)
         /\ Len(Tail(d)) = Len(d) - 1
         /\ \A k \in 1..Len(Tail(d)) : k + 1 \in 1..Len(d) /\ Tail(d)[k] = d[k + 1]
         /\ \A n : Cardinality(CopiasDe(Tail(d), n)) =
                     IF EsMensaje(Head(d)) /\ Head(d).n = n
                     THEN Cardinality(CopiasDe(d, n)) - 1 ELSE Cardinality(CopiasDe(d, n))
<1> DEFINE t == Tail(d)
<1>1. Len(d) \in Nat \ {0}
  BY EmptySeq
<1>2. /\ Head(d) \in Escritos /\ t \in Seq(Escritos) /\ Len(t) = Len(d) - 1
      /\ \A k \in 1..Len(t) : t[k] = d[k + 1]
  BY HeadTailProperties
<1>3. Head(d) = d[1]
  OBVIOUS
<1>4. 1 \in 1..Len(d) /\ \A k \in 1..Len(t) : k + 1 \in 1..Len(d)
  BY <1>1, <1>2
<1> HIDE DEF t
<1>5. ASSUME NEW n
      PROVE  Cardinality(CopiasDe(t, n)) =
               IF EsMensaje(Head(d)) /\ Head(d).n = n
               THEN Cardinality(CopiasDe(d, n)) - 1 ELSE Cardinality(CopiasDe(d, n))
  <2> DEFINE D == CopiasDe(d, n)
             T == CopiasDe(t, n)
             f == [k \in T |-> k + 1]
  <2>1. IsFiniteSet(D) /\ IsFiniteSet(D \ {1}) /\ IsFiniteSet(T)
        /\ Cardinality(D \ {1}) = IF 1 \in D THEN Cardinality(D) - 1 ELSE Cardinality(D)
    BY <1>2, Finitas, FS_RemoveElement
  <2>2. 1 \in D <=> EsMensaje(Head(d)) /\ Head(d).n = n
    BY <1>3, <1>4 DEF CopiasDe
  <2>3. \A k \in T : k \in Nat /\ k + 1 \in D \ {1}
    BY <1>1, <1>2, <1>4 DEF CopiasDe
  <2>4. \A k \in D \ {1} : k - 1 \in T /\ (k - 1) + 1 = k
    <3>1. SUFFICES ASSUME NEW k \in D \ {1}
                   PROVE  k - 1 \in T /\ (k - 1) + 1 = k
      OBVIOUS
    <3>2. k \in 1..Len(d) /\ EsMensaje(d[k]) /\ d[k].n = n
      BY DEF CopiasDe
    <3>3. k - 1 \in 1..Len(t) /\ (k - 1) + 1 = k
      BY <3>1, <3>2, <1>1, <1>2
    <3>4. t[k - 1] = d[k]
      BY <3>3, <1>2
    <3>5. QED
      BY <3>2, <3>3, <3>4 DEF CopiasDe
  <2> HIDE DEF D, T
  <2>5. f \in [T -> D \ {1}]
    BY <2>3
  <2>6. \A a, b \in T : f[a] = f[b] => a = b
    BY <2>3
  <2>7. \A k \in D \ {1} : \E a \in T : f[a] = k
    BY <2>4
  <2> HIDE DEF f
  <2>8. f \in Bijection(T, D \ {1})
    BY <2>5, <2>6, <2>7 DEF Bijection, Injection, Surjection, IsInjective
  <2>9. Cardinality(D \ {1}) = Cardinality(T)
    BY <2>1, <2>8, FS_Bijection DEF ExistsBijection
  <2>10. QED
    BY <2>1, <2>2, <2>9 DEF D, T
<1>6. QED
  BY <1>1, <1>2, <1>3, <1>4, <1>5 DEF t

(* Something else than a copy is written.                                  *)
LEMMA Avisada ==
  ASSUME NEW d \in Seq(Escritos), NEW a \in Escritos, ~EsMensaje(a)
  PROVE  /\ Append(d, a) \in Seq(Escritos)
         /\ \A k \in 1..Len(Append(d, a)) : EsMensaje(Append(d, a)[k]) =>
              k \in 1..Len(d) /\ Append(d, a)[k] = d[k]
         /\ \A n : CopiasDe(Append(d, a), n) = CopiasDe(d, n)
<1> DEFINE r == Append(d, a)
<1>1. /\ r \in Seq(Escritos) /\ Len(d) \in Nat /\ Len(r) = Len(d) + 1
      /\ \A k \in 1..Len(d) : r[k] = d[k]
      /\ r[Len(d) + 1] = a
  BY AppendProperties, LenProperties
<1> HIDE DEF r
<1>2. \A k \in 1..Len(r) : k \in 1..Len(d) \/ k = Len(d) + 1
  BY <1>1
<1>3. \A k \in 1..Len(r) : EsMensaje(r[k]) => k \in 1..Len(d) /\ r[k] = d[k]
  BY <1>1, <1>2
<1>4. \A k \in 1..Len(d) : k \in 1..Len(r)
  BY <1>1
<1>5. ASSUME NEW n
      PROVE  CopiasDe(r, n) = CopiasDe(d, n)
  BY <1>1, <1>3, <1>4 DEF CopiasDe
<1>6. QED
  BY <1>1, <1>3, <1>5 DEF r

(* Copies of a new publication are written.                                *)
LEMMA Publicada ==
  ASSUME NEW d \in Seq(Escritos), NEW a \in Escritos, EsMensaje(a), NEW c \in Nat,
         \A k \in 1..Len(d) : EsMensaje(d[k]) => d[k].n # a.n
  PROVE  LET r == d \o [i \in 1..c |-> a] IN
         /\ r \in Seq(Escritos) /\ Len(d) \in Nat /\ Len(r) = Len(d) + c
         /\ \A k \in 1..Len(r) : IF k <= Len(d) THEN k \in 1..Len(d) /\ r[k] = d[k] ELSE r[k] = a
         /\ Cardinality(CopiasDe(r, a.n)) = c
         /\ \A n : n # a.n => CopiasDe(r, n) = CopiasDe(d, n)
<1> DEFINE e == [i \in 1..c |-> a]
           r == d \o e
<1>1. e \in Seq(Escritos) /\ Len(e) = c
  <2>1. \A i \in 1..c : a \in Escritos
    OBVIOUS
  <2>2. QED
    BY <2>1
<1>2. \A i \in 1..c : e[i] = a
  OBVIOUS
<1> HIDE DEF e
<1>3. /\ r \in Seq(Escritos) /\ Len(d) \in Nat /\ Len(r) = Len(d) + c
      /\ \A k \in 1..Len(d) + c : r[k] = IF k <= Len(d) THEN d[k] ELSE e[k - Len(d)]
  BY <1>1, ConcatProperties, LenProperties
<1> HIDE DEF r
<1>4. ASSUME NEW k \in 1..Len(r)
      PROVE  IF k <= Len(d) THEN k \in 1..Len(d) /\ r[k] = d[k] ELSE r[k] = a
  <2>1. CASE k <= Len(d)
    BY <2>1, <1>3
  <2>2. CASE ~(k <= Len(d))
    <3>1. k - Len(d) \in 1..c
      BY <2>2, <1>3
    <3>2. r[k] = e[k - Len(d)]
      BY <2>2, <1>3
    <3>3. QED
      BY <2>2, <3>1, <3>2, <1>2
  <2>3. QED
    BY <2>1, <2>2
<1>5. CopiasDe(r, a.n) = (Len(d) + 1)..(Len(d) + c)
  <2>1. \A k \in 1..Len(d) : ~(EsMensaje(d[k]) /\ d[k].n = a.n)
    OBVIOUS
  <2>2. \A k \in 1..Len(r) : k <= Len(d) \/ k \in (Len(d) + 1)..(Len(d) + c)
    BY <1>3
  <2>3. \A k \in (Len(d) + 1)..(Len(d) + c) : k \in 1..Len(r) /\ ~(k <= Len(d))
    BY <1>3
  <2>4. \A k \in CopiasDe(r, a.n) : k \in (Len(d) + 1)..(Len(d) + c)
    BY <2>1, <2>2, <1>4 DEF CopiasDe
  <2>5. \A k \in (Len(d) + 1)..(Len(d) + c) : k \in CopiasDe(r, a.n)
    BY <2>3, <1>4 DEF CopiasDe
  <2>6. QED
    BY <2>4, <2>5
<1>6. Cardinality(CopiasDe(r, a.n)) = c
  <2>1. /\ Len(d) + 1 \in Int /\ Len(d) + c \in Int
        /\ c = IF Len(d) + 1 > Len(d) + c THEN 0 ELSE Len(d) + c - (Len(d) + 1) + 1
    BY <1>3
  <2>2. QED
    BY <2>1, <1>5, FS_Interval
<1>7. ASSUME NEW n, n # a.n
      PROVE  CopiasDe(r, n) = CopiasDe(d, n)
  <2>1. \A k \in 1..Len(d) : k \in 1..Len(r) /\ k <= Len(d)
    BY <1>3
  <2>2. \A k \in CopiasDe(d, n) : k \in CopiasDe(r, n)
    BY <2>1, <1>4 DEF CopiasDe
  <2>3. \A k \in CopiasDe(r, n) : k \in CopiasDe(d, n)
    BY <1>4, <1>7 DEF CopiasDe
  <2>4. QED
    BY <2>2, <2>3
<1>8. QED
  BY <1>3, <1>4, <1>6, <1>7 DEF r, e

-----------------------------------------------------------------------------
(* The kinds of line the server writes.                                    *)
LEMMA EscritosFormas ==
  ASSUME NEW x \in Escritos
  PROVE  /\ x.tipo \in {"+OK", "PING", "-ERR", "MSG", "HMSG"}
         /\ EsMensaje(x) => x.tema \in Temas /\ x.n \in Nat
  BY DEF Escritos, EsMensaje

(* Nobody is owed anything when there is no copy on the way.               *)
LEMMA SinCopias ==
  ASSUME Historias, Cuentas, ~HayMensajes
  PROVE  \A id \in Ids : Debe(id) = {} /\ Faltan(id) = 0
<1>1. SUFFICES ASSUME NEW id \in Ids
               PROVE  Debe(id) = {}
  BY Contada
<1>2. SUFFICES ASSUME NEW n \in Debe(id)
               PROVE  FALSE
  OBVIOUS
<1>3. n \in Nat
  BY <1>1, Contada
<1>4. CopiasDe(desde, n) = {}
  BY DEF HayMensajes, CopiasDe
<1>5. Cardinality(Deudores(n)) = 0
  BY <1>3, <1>4, FS_EmptySet DEF Cuentas
<1>6. Deudores(n) = {}
  BY <1>5, Finitas, FS_EmptySet
<1>7. QED
  BY <1>6, <1>2 DEF Deudores

-----------------------------------------------------------------------------
(* What changes nothing between the rows and their publications            *)

Contables == <<suscriptions, abierta, enviadas, recibidas>>

(* The queue as it is, with something else than a copy written to it, or   *)
(* read from it.                                                           *)
SoloAvisos ==
  \/ desde' = desde
  \/ \E a \in Escritos : ~EsMensaje(a) /\ desde' = Append(desde, a)
  \/ desde # << >> /\ ~EsMensaje(Head(desde)) /\ desde' = Tail(desde)

(* Lines that are no copies come and go without a trace in the copies.     *)
LEMMA DesdeQuieto ==
  ASSUME desde \in Seq(Escritos), SoloAvisos
  PROVE  /\ desde' \in Seq(Escritos)
         /\ \A k \in 1..Len(desde') : EsMensaje(desde'[k]) =>
              \E j \in 1..Len(desde) : desde[j] = desde'[k]
         /\ EnOrden => EnOrden'
         /\ \A n : Cardinality(CopiasDe(desde', n)) = Cardinality(CopiasDe(desde, n))
<1>1. CASE desde' = desde
  BY <1>1 DEF EnOrden
<1>2. ASSUME NEW a \in Escritos, ~EsMensaje(a), desde' = Append(desde, a)
      PROVE  /\ desde' \in Seq(Escritos)
             /\ \A k \in 1..Len(desde') : EsMensaje(desde'[k]) =>
                  \E j \in 1..Len(desde) : desde[j] = desde'[k]
             /\ EnOrden => EnOrden'
             /\ \A n : Cardinality(CopiasDe(desde', n)) = Cardinality(CopiasDe(desde, n))
  <2>1. /\ desde' \in Seq(Escritos)
        /\ \A k \in 1..Len(desde') : EsMensaje(desde'[k]) =>
             k \in 1..Len(desde) /\ desde'[k] = desde[k]
        /\ \A n : CopiasDe(desde', n) = CopiasDe(desde, n)
    BY <1>2, Avisada
  <2>2. EnOrden => EnOrden'
    BY <2>1 DEF EnOrden
  <2>3. QED
    BY <2>1, <2>2
<1>3. CASE desde # << >> /\ ~EsMensaje(Head(desde)) /\ desde' = Tail(desde)
  <2>1. /\ desde' \in Seq(Escritos) /\ Len(desde) \in Nat /\ Len(desde') = Len(desde) - 1
        /\ \A k \in 1..Len(desde') : k + 1 \in 1..Len(desde) /\ desde'[k] = desde[k + 1]
        /\ \A n : Cardinality(CopiasDe(desde', n)) = Cardinality(CopiasDe(desde, n))
    BY <1>3, Leida
  <2>2. EnOrden => EnOrden'
    <3>1. SUFFICES ASSUME EnOrden, NEW j \in 1..Len(desde'), NEW k \in 1..Len(desde'),
                          j < k, EsMensaje(desde'[j]), EsMensaje(desde'[k])
                   PROVE  desde'[j].n <= desde'[k].n
      BY DEF EnOrden
    <3>2. j + 1 < k + 1
      BY <3>1, <2>1
    <3>3. QED
      BY <2>1, <3>1, <3>2 DEF EnOrden
  <2>3. QED
    BY <2>1, <2>2
<1>4. QED
  BY <1>1, <1>2, <1>3 DEF SoloAvisos

(* Nor do they change what is owed.                                        *)
LEMMA RepartoQuieto ==
  ASSUME Red, Historias, Reparto, UNCHANGED Contables,
         publicadas' \in {publicadas, publicadas + 1}, SoloAvisos
  PROVE  /\ desde' \in Seq(Escritos) /\ publicadas' \in Nat
         /\ Historias' /\ Reparto'
         /\ HayMensajes' => HayMensajes
<1> USE DEF Contables
<1>1. /\ desde' \in Seq(Escritos)
      /\ \A k \in 1..Len(desde') : EsMensaje(desde'[k]) =>
           \E j \in 1..Len(desde) : desde[j] = desde'[k]
      /\ EnOrden'
      /\ \A n : Cardinality(CopiasDe(desde', n)) = Cardinality(CopiasDe(desde, n))
  BY DesdeQuieto DEF Red, Reparto
<1>2. publicadas \in Nat /\ publicadas' \in Nat /\ publicadas <= publicadas'
  BY DEF Red
<1>3. Historias'
  <2>1. \A id \in Ids : \A k \in 1..Len(enviadas[id]) : enviadas[id][k] \in Nat
    BY ElementOfSeq DEF Historias
  <2>2. \A a \in Nat : a <= publicadas => a <= publicadas'
    BY <1>2
  <2>3. QED
    BY <2>1, <2>2 DEF Historias
<1>4. /\ \A id : Debe(id)' = Debe(id) /\ Tiene(id)' = Tiene(id) /\ Faltan(id)' = Faltan(id)
      /\ \A n : Deudores(n)' = Deudores(n)
  BY DEF Debe, Tiene, Faltan, Deudores
<1>5. SinDeuda' /\ Turnos'
  BY <1>4 DEF Reparto, SinDeuda, Turnos
<1>6. Cuentas'
  BY <1>1, <1>4 DEF Reparto, Cuentas
<1>7. Caminos'
  <2>1. SUFFICES ASSUME NEW k \in 1..Len(desde'), NEW msg, msg = desde'[k], EsMensaje(msg)
                 PROVE  EnCamino(msg)'
    BY DEF Caminos
  <2>2. PICK j \in 1..Len(desde) : desde[j] = msg
    BY <2>1, <1>1
  <2>3. EnCamino(msg)
    BY <2>1, <2>2 DEF Reparto, Caminos
  <2>4. msg.n \in Nat
    BY <2>1, <2>2, ElementOfSeq, EscritosFormas DEF Red
  <2>5. msg.n <= publicadas'
    BY <2>3, <2>4, <1>2 DEF EnCamino
  <2>6. QED
    BY <2>3, <2>5, <1>4 DEF EnCamino, Toca
<1>8. HayMensajes' => HayMensajes
  BY <1>1 DEF HayMensajes
<1>9. QED
  BY <1>1, <1>2, <1>3, <1>5, <1>6, <1>7, <1>8 DEF Reparto

(* The rows may change as they please when nothing is on the way.          *)
LEMMA RepartoVacio ==
  ASSUME Red, Historias, Reparto, ~HayMensajes, UNCHANGED <<desde, enviadas, recibidas, publicadas>>,
         suscriptions' \in Seq(Fila)
  PROVE  Historias' /\ Reparto'
<1>1. \A id \in Ids : Debe(id) = {} /\ Faltan(id) = 0
  BY SinCopias DEF Reparto
<1>2. /\ \A id : Debe(id)' = Debe(id) /\ Tiene(id)' = Tiene(id) /\ Faltan(id)' = Faltan(id)
      /\ \A n : Deudores(n)' = Deudores(n)
  BY DEF Debe, Tiene, Faltan, Deudores
<1>3. Historias'
  BY DEF Historias
<1>4. \A i \in 1..Len(suscriptions') :
        suscriptions'[i].id \in Ids /\ suscriptions'[i].max \in Topes
  <2>1. \A i \in 1..Len(suscriptions') : suscriptions'[i] \in Fila
    BY ElementOfSeq
  <2>2. QED
    BY <2>1 DEF Fila
<1>5. SinDeuda'
  <2>1. \A i \in 1..Len(suscriptions') :
          suscriptions'[i].max # SinLimite => suscriptions'[i].max[1] \in Nat
    BY <1>4, TopeNatural
  <2>2. QED
    BY <2>1, <1>1, <1>2, <1>4 DEF SinDeuda
<1>6. Caminos' /\ EnOrden'
  BY DEF HayMensajes, Caminos, Reparto, EnOrden
<1>7. Cuentas'
  BY <1>2 DEF Reparto, Cuentas
<1>8. Turnos'
  BY <1>1, <1>2, <1>4 DEF Turnos
<1>9. QED
  BY <1>3, <1>5, <1>6, <1>7, <1>8 DEF Reparto

-----------------------------------------------------------------------------
(* What changes nothing between the server's rows and the client's         *)

LEMMA ComandosFormas ==
  ASSUME NEW o \in Comandos
  PROVE  /\ o.tipo \in {"CONNECT", "RECHAZADA", "SUB", "UNSUB"}
         /\ o.tipo \in {"SUB", "UNSUB"} => o.id \in Ids
         /\ o.tipo = "SUB" => o.patron \in Patrones
         /\ o.tipo = "UNSUB" => o.max \in Topes
  BY DEF Comandos

(* hacia as it is, or with a command at its end that is no SUB or UNSUB.   *)
HaciaIgual ==
  hacia' = hacia \/ \E o \in Comandos : o.tipo \notin {"SUB", "UNSUB"} /\ hacia' = Append(hacia, o)

(* A line that is neither SUB nor UNSUB leaves those on the way as they    *)
(* are.                                                                    *)
LEMMA HaciaQuieta ==
  ASSUME hacia \in Seq(Comandos), HaciaIgual
  PROVE  /\ hacia' \in Seq(Comandos) /\ Len(hacia) \in Nat /\ Len(hacia') \in Nat
         /\ Len(hacia) <= Len(hacia')
         /\ \A k \in 1..Len(hacia') :
              IF k \in 1..Len(hacia) THEN hacia'[k] = hacia[k]
              ELSE hacia'[k].tipo \notin {"SUB", "UNSUB"}
<1>1. Len(hacia) \in Nat
  BY LenProperties
<1>2. CASE hacia' = hacia
  BY <1>1, <1>2
<1>3. ASSUME NEW o \in Comandos, o.tipo \notin {"SUB", "UNSUB"}, hacia' = Append(hacia, o)
      PROVE  /\ hacia' \in Seq(Comandos) /\ Len(hacia') \in Nat
             /\ Len(hacia) <= Len(hacia')
             /\ \A k \in 1..Len(hacia') :
                  IF k \in 1..Len(hacia) THEN hacia'[k] = hacia[k]
                  ELSE hacia'[k].tipo \notin {"SUB", "UNSUB"}
  <2>1. /\ hacia' \in Seq(Comandos) /\ Len(hacia') = Len(hacia) + 1
        /\ \A k \in 1..Len(hacia) : hacia'[k] = hacia[k]
        /\ hacia'[Len(hacia) + 1] = o
    BY <1>3, AppendProperties
  <2>2. \A k \in 1..Len(hacia') : k \in 1..Len(hacia) \/ k = Len(hacia) + 1
    BY <1>1, <2>1
  <2>3. QED
    BY <1>1, <1>3, <2>1, <2>2
<1>4. QED
  BY <1>1, <1>2, <1>3 DEF HaciaIgual

(* The commands and the row of one subscription are as they were, but for  *)
(* d commands of others that have gone ahead of them and some at the end.  *)
LEMMA ServidaIgual ==
  ASSUME NEW d \in Nat, NEW id \in Ids, hacia \in Seq(Comandos), hacia' \in Seq(Comandos),
         Len(hacia) <= Len(hacia') + d,
         \A k \in 1..Len(hacia') :
           IF k + d \in 1..Len(hacia) THEN hacia'[k] = hacia[k + d] ELSE ~DeId(hacia'[k], id),
         \A k \in 1..d : ~DeId(hacia[k], id),
         \A f : f.id = id => (f \in filas' <=> f \in filas),
         Faltan(id)' = Faltan(id)
  PROVE  /\ \A p, m : Servida(id, p, m) => Servida(id, p, m)'
         /\ Olvidada(id) => Olvidada(id)'
<1>1. Len(hacia) \in Nat /\ Len(hacia') \in Nat
  BY LenProperties
<1>2. \A k \in 1..Len(hacia') : DeId(hacia'[k], id) =>
        k + d \in 1..Len(hacia) /\ hacia'[k] = hacia[k + d]
  OBVIOUS
<1>3. \A k \in 1..Len(hacia) : DeId(hacia[k], id) =>
        k - d \in 1..Len(hacia') /\ hacia'[k - d] = hacia[k]
  <2>1. SUFFICES ASSUME NEW k \in 1..Len(hacia), DeId(hacia[k], id)
                 PROVE  k - d \in 1..Len(hacia') /\ hacia'[k - d] = hacia[k]
    OBVIOUS
  <2>2. k \notin 1..d
    BY <2>1
  <2>3. k - d \in 1..Len(hacia') /\ (k - d) + d = k
    BY <2>2, <1>1
  <2>4. QED
    BY <2>3
<1>4. \A k \in 1..Len(hacia') : EsUltima(k, id)' =>
        k + d \in 1..Len(hacia) /\ hacia'[k] = hacia[k + d] /\ EsUltima(k + d, id)
  <2>1. SUFFICES ASSUME NEW k \in 1..Len(hacia'), EsUltima(k, id)'
                 PROVE  k + d \in 1..Len(hacia) /\ hacia'[k] = hacia[k + d]
                        /\ EsUltima(k + d, id)
    OBVIOUS
  <2>2. DeId(hacia'[k], id) /\ \A j \in (k + 1)..Len(hacia') : ~DeId(hacia'[j], id)
    BY <2>1 DEF EsUltima
  <2>3. k + d \in 1..Len(hacia) /\ hacia'[k] = hacia[k + d]
    BY <2>2, <1>2
  <2>4. ASSUME NEW j \in (k + d + 1)..Len(hacia), DeId(hacia[j], id)
        PROVE  FALSE
    <3>1. j \in 1..Len(hacia)
      BY <1>1
    <3>2. j - d \in 1..Len(hacia') /\ hacia'[j - d] = hacia[j]
      BY <2>4, <3>1, <1>3
    <3>3. j - d \in (k + 1)..Len(hacia')
      BY <3>2, <1>1
    <3>4. QED
      BY <2>2, <2>4, <3>2, <3>3
  <2>5. QED
    BY <2>2, <2>3, <2>4 DEF EsUltima
<1>6. ASSUME NEW p, NEW m, Servida(id, p, m)
      PROVE  Servida(id, p, m)'
  <2>1. \A f \in filas' : f.id = id => f.patron = p
    BY <1>6 DEF Servida
  <2>2. \A k \in 1..Len(hacia') : DeId(hacia'[k], id) =>
          IF hacia'[k].tipo = "SUB" THEN hacia'[k].patron = p ELSE hacia'[k].max # SinLimite
    BY <1>2, <1>6 DEF Servida
  <2>3. \A k \in 1..Len(hacia') : EsUltima(k, id)' => m = Tope(hacia'[k])
    BY <1>4, <1>6 DEF Servida
  <2>4. Cuadra(id, m) => Cuadra(id, m)'
    BY DEF Cuadra
  <2>5. (\A k \in 1..Len(hacia') : ~DeId(hacia'[k], id)) => Cuadra(id, m)'
    <3>1. SUFFICES ASSUME \A k \in 1..Len(hacia') : ~DeId(hacia'[k], id)
                   PROVE  Cuadra(id, m)
      BY <2>4
    <3>2. \A k \in 1..Len(hacia) : ~DeId(hacia[k], id)
      BY <3>1, <1>3
    <3>3. QED
      BY <3>2, <1>6 DEF Servida
  <2>6. QED
    BY <2>1, <2>2, <2>3, <2>5 DEF Servida
<1>7. ASSUME Olvidada(id)
      PROVE  Olvidada(id)'
  <2>1. CASE (\A f \in filas : f.id # id)
             /\ \A k \in 1..Len(hacia) : hacia[k].tipo = "SUB" => hacia[k].id # id
    <3>1. \A f \in filas' : f.id # id
      BY <2>1
    <3>2. \A k \in 1..Len(hacia') : hacia'[k].tipo = "SUB" => hacia'[k].id # id
      BY <2>1, <1>2 DEF DeId
    <3>3. QED
      BY <3>1, <3>2 DEF Olvidada
  <2>2. ASSUME NEW k \in 1..Len(hacia), hacia[k].tipo = "UNSUB", hacia[k].id = id,
               hacia[k].max = SinLimite
        PROVE  Olvidada(id)'
    <3>1. k - d \in 1..Len(hacia') /\ hacia'[k - d] = hacia[k]
      BY <2>2, <1>3 DEF DeId
    <3>2. QED
      BY <2>2, <3>1 DEF Olvidada
  <2>3. QED
    BY <1>7, <2>1, <2>2 DEF Olvidada
<1>8. QED
  BY <1>6, <1>7

(* Table and server agree after it as before.                              *)
LEMMA AcuerdoQuieto ==
  ASSUME hacia \in Seq(Comandos), HaciaIgual, Acuerdo,
         UNCHANGED <<filas, enviadas, recibidas>>,
         sub_id \in Nat, sub_id' \in {sub_id, sub_id + 1},
         \A id \in Ids, p \in Patrones, m \in Topes : Futura(id, p, m)' <=> Futura(id, p, m)
  PROVE  Acuerdo'
<1>1. /\ Len(hacia) \in Nat /\ Len(hacia') \in Nat /\ Len(hacia) <= Len(hacia')
      /\ \A k \in 1..Len(hacia') :
           IF k \in 1..Len(hacia) THEN hacia'[k] = hacia[k]
           ELSE hacia'[k].tipo \notin {"SUB", "UNSUB"}
  BY HaciaQuieta
<1>2. \A k \in 1..Len(hacia) : k \in 1..Len(hacia')
  BY <1>1
<1>3. \A k \in 1..Len(hacia') : hacia'[k].tipo \in {"SUB", "UNSUB"} =>
        k \in 1..Len(hacia) /\ hacia'[k] = hacia[k]
  BY <1>1
<1>4. \A id : \A k \in 1..Len(hacia') : DeId(hacia'[k], id) =>
        k \in 1..Len(hacia) /\ hacia'[k] = hacia[k] /\ DeId(hacia[k], id)
  BY <1>3 DEF DeId
<1>5. \A id : \A k \in 1..Len(hacia) : hacia'[k] = hacia[k]
  BY <1>1, <1>2
<1>6. FilasUnicas'
  <2>1. FilasUnicas
    BY DEF Acuerdo
  <2>2. \A n : n \in 1..sub_id => n \in 1..sub_id'
    OBVIOUS
  <2>3. \A f \in filas : f.id \in 1..sub_id'
    BY <2>1, <2>2 DEF FilasUnicas
  <2>4. ASSUME NEW k \in 1..Len(hacia')
        PROVE  /\ hacia'[k].tipo \in {"SUB", "UNSUB"} => hacia'[k].id \in 1..sub_id'
               /\ hacia'[k].tipo = "SUB" =>
                    /\ \A f \in filas : f.id # hacia'[k].id
                    /\ \A j \in 1..(k - 1) : ~DeId(hacia'[j], hacia'[k].id)
    <3>1. CASE hacia'[k].tipo \notin {"SUB", "UNSUB"}
      BY <3>1
    <3>2. CASE hacia'[k].tipo \in {"SUB", "UNSUB"}
      <4>1. k \in 1..Len(hacia) /\ hacia'[k] = hacia[k]
        BY <3>2, <1>3
      <4>2. \A j \in 1..(k - 1) : j \in 1..Len(hacia)
        BY <4>1, <1>1
      <4>3. \A j \in 1..(k - 1) : hacia'[j] = hacia[j]
        BY <4>2, <1>5
      <4>4. QED
        BY <4>1, <4>3, <2>1, <2>2 DEF FilasUnicas
    <3>3. QED
      BY <3>1, <3>2
  <2>5. QED
    BY <2>1, <2>3, <2>4 DEF FilasUnicas
<1>7. ASSUME NEW id \in Ids
      PROVE  /\ \A p, m : Servida(id, p, m) => Servida(id, p, m)'
             /\ Olvidada(id) => Olvidada(id)'
  <2>1. /\ 0 \in Nat /\ hacia' \in Seq(Comandos) /\ Len(hacia) <= Len(hacia') + 0
        /\ \A k \in 1..Len(hacia') :
             IF k + 0 \in 1..Len(hacia) THEN hacia'[k] = hacia[k + 0] ELSE ~DeId(hacia'[k], id)
        /\ \A k \in 1..0 : ~DeId(hacia[k], id)
    BY <1>1, HaciaQuieta DEF DeId
  <2>2. Faltan(id)' = Faltan(id) /\ \A f : f.id = id => (f \in filas' <=> f \in filas)
    BY DEF Faltan
  <2>3. QED
    BY <2>1, <2>2, ServidaIgual
<1>8. QED
  BY <1>6, <1>7 DEF Acuerdo

-----------------------------------------------------------------------------
(* Steps that have no part in it                                           *)

LEMMA Quieto ==
  ASSUME Bien, UNCHANGED Contables, publicadas' \in {publicadas, publicadas + 1}, SoloAvisos,
         hacia' \in Seq(Comandos),
         filas' \subseteq [id : Ids, patron : Patrones, max : Topes],
         candado' # "envenenado", OrdenEnCurso' => OrdenEnCurso, Viva' => Acuerdo'
  PROVE  Bien'
<1>1. Red /\ Historias /\ Reparto /\ Calma
  BY DEF Bien
<1>2. /\ desde' \in Seq(Escritos) /\ publicadas' \in Nat
      /\ Historias' /\ Reparto'
      /\ HayMensajes' => HayMensajes
  BY <1>1, RepartoQuieto
<1>3. Red'
  BY <1>2 DEF Red
<1>4. Calma'
  BY <1>1, <1>2 DEF Calma
<1>5. QED
  BY <1>2, <1>3, <1>4 DEF Bien

(* A step that writes no copy, changes no row and sends no SUB or UNSUB.   *)
LEMMA QuietoConServidor ==
  ASSUME Inv, Bien, UNCHANGED <<Contables, filas>>,
         publicadas' \in {publicadas, publicadas + 1}, SoloAvisos, HaciaIgual,
         candado' # "envenenado", sub_id' \in {sub_id, sub_id + 1},
         usuario'.fase \in {"anota", "desuscribe"} => usuario' = usuario,
         Viva' => /\ Viva
                  /\ \A id \in Ids, p \in Patrones, m \in Topes :
                       Futura(id, p, m)' <=> Futura(id, p, m)
  PROVE  Bien'
<1>1. /\ hacia \in Seq(Comandos)
      /\ filas \subseteq [id : Ids, patron : Patrones, max : Topes]
  BY DEF Bien, Red
<1>2. /\ hacia' \in Seq(Comandos)
      /\ \A k \in 1..Len(hacia') : hacia'[k].tipo \in {"SUB", "UNSUB"} =>
           k \in 1..Len(hacia) /\ hacia'[k] = hacia[k]
  BY <1>1, HaciaQuieta
<1>3. OrdenEnCurso' => OrdenEnCurso
  BY <1>2 DEF OrdenEnCurso
<1>4. sub_id \in Nat
  BY NatsClientAssumption DEF Inv, Tipado
<1>5. UNCHANGED <<enviadas, recibidas, filas>>
  BY DEF Contables
<1>6. Viva' => Acuerdo'
  BY <1>1, <1>4, <1>5, AcuerdoQuieto DEF Bien
<1>7. QED
  BY <1>1, <1>2, <1>3, <1>6, Quieto

(* A PUB that is accepted, or refused, is such a line.                     *)
LEMMA EscribePubHacia ==
  ASSUME hacia \in Seq(Comandos), EscribePub \/ Escribe(Rechazable) \/ UNCHANGED hacia
  PROVE  HaciaIgual
<1>1. CASE UNCHANGED hacia
  BY <1>1 DEF HaciaIgual
<1>2. CASE Escribe(Rechazable)
  <2>1. Aviso("RECHAZADA") \in Comandos /\ Aviso("RECHAZADA").tipo = "RECHAZADA"
    BY DEF Aviso, Comandos
  <2>2. hacia \o << >> = hacia /\ hacia \o <<Aviso("RECHAZADA")>> = Append(hacia, Aviso("RECHAZADA"))
    BY <2>1, ConcatEmptySeq, AppendIsConcat
  <2>3. hacia' = hacia \/ hacia' = hacia \o << >> \/ hacia' = hacia \o <<Aviso("RECHAZADA")>>
    BY <1>2 DEF Escribe, Rechazable
  <2>4. QED
    BY <2>1, <2>2, <2>3 DEF HaciaIgual
<1>3. QED
  BY <1>1, <1>2 DEF EscribePub

(* The server and the client are in touch only if they were before.        *)
LEMMA VivaQuieta ==
  ASSUME desde \in Seq(Escritos), conexion' = conexion, oyente = Fin => oyente' = Fin,
         \/ desde' = desde
         \/ \E a \in Escritos : desde' = Append(desde, a)
         \/ desde # << >> /\ Head(desde).tipo # "-ERR" /\ desde' = Tail(desde)
  PROVE  Viva' => Viva
<1>1. ASSUME NEW i \in 1..Len(desde), desde[i].tipo = "-ERR"
      PROVE  \E k \in 1..Len(desde') : desde'[k].tipo = "-ERR"
  <2>1. CASE desde' = desde
    BY <1>1, <2>1
  <2>2. ASSUME NEW a \in Escritos, desde' = Append(desde, a)
        PROVE  \E k \in 1..Len(desde') : desde'[k].tipo = "-ERR"
    <3>1. /\ Len(desde) \in Nat /\ Len(desde') = Len(desde) + 1
          /\ \A k \in 1..Len(desde) : desde'[k] = desde[k]
      BY <2>2, AppendProperties, LenProperties
    <3>2. i \in 1..Len(desde')
      BY <3>1
    <3>3. QED
      BY <1>1, <3>1, <3>2
  <2>3. CASE desde # << >> /\ Head(desde).tipo # "-ERR" /\ desde' = Tail(desde)
    <3>1. /\ Len(desde) \in Nat /\ Len(desde') = Len(desde) - 1 /\ Head(desde) = desde[1]
          /\ \A k \in 1..Len(desde') : desde'[k] = desde[k + 1]
      <4>1. /\ Len(desde) \in Nat /\ Head(desde) = desde[1]
            /\ Len(Tail(desde)) = Len(desde) - 1
            /\ \A k \in 1..Len(Tail(desde)) : Tail(desde)[k] = desde[k + 1]
        BY <2>3, Leida
      <4>2. QED
        BY <4>1, <2>3
    <3>2. desde[1].tipo # "-ERR"
      BY <2>3, <3>1, Zenon
    <3>3. i # 1
      BY <1>1, <3>2
    <3>4. i - 1 \in 1..Len(desde') /\ (i - 1) + 1 = i
      <4>1. i \in 1..Len(desde) /\ i # 1
        BY <1>1, <3>3
      <4>2. Len(desde) \in Nat /\ Len(desde') = Len(desde) - 1
        BY <3>1
      <4>3. QED
        BY <4>1, <4>2
    <3>5. desde'[i - 1] = desde[i]
      BY <3>1, <3>4
    <3>6. QED
      BY <1>1, <3>4, <3>5
  <2>4. QED
    BY <2>1, <2>2, <2>3
<1>2. QED
  BY <1>1 DEF Viva, SinLector

(* The user's thread is not about to change the table, or fails to.        *)
LEMMA FuturaQuieta ==
  ASSUME suscriptions' = suscriptions,
         \/ usuario' = usuario
         \/ /\ usuario'.fase \notin {"anota", "desuscribe"}
            /\ usuario.fase # "anota"
            /\ usuario.fase = "desuscribe" =>
                 \A i \in 1..Len(suscriptions) : suscriptions[i].id # usuario.id
  PROVE  \A id \in Ids, p \in Patrones, m \in Topes : Futura(id, p, m)' <=> Futura(id, p, m)
<1>1. CASE usuario' = usuario
  BY <1>1 DEF Futura, Quita
<1>2. CASE /\ usuario'.fase \notin {"anota", "desuscribe"}
           /\ usuario.fase # "anota"
           /\ usuario.fase = "desuscribe" =>
                \A i \in 1..Len(suscriptions) : suscriptions[i].id # usuario.id
  <2>1. SUFFICES ASSUME NEW id \in Ids, NEW p \in Patrones, NEW m \in Topes
                 PROVE  Futura(id, p, m)' <=> Futura(id, p, m)
    OBVIOUS
  <2>2. ~Quita(id)'
    BY <1>2 DEF Quita
  <2>3. \A i \in 1..Len(suscriptions) : suscriptions[i].id = id => ~Quita(id)
    BY <1>2 DEF Quita
  <2>4. QED
    BY <1>2, <2>2, <2>3 DEF Futura
<1>3. QED
  BY <1>1, <1>2

(* An id that is not found has no row.                                     *)
LEMMA IndiceNulo ==
  ASSUME NEW id, Indice(id) = 0, suscriptions \in Seq(Fila)
  PROVE  \A i \in 1..Len(suscriptions) : suscriptions[i].id # id
<1> DEFINE I == {i \in 1..Len(suscriptions) : suscriptions[i].id = id}
<1>1. Indice(id) = IF I # {} THEN Min(I) ELSE 0
  BY DEF Indice, SelectInSeq
<1>2. I \in SUBSET (1..Len(suscriptions)) /\ Len(suscriptions) \in Nat
  BY LenProperties
<1> HIDE DEF I
<1>3. I = {}
  <2>1. I # {} => Min(I) \in I
    BY <1>2, Hallado
  <2>2. I # {} => Min(I) # 0
    BY <2>1, <1>2
  <2>3. QED
    BY <2>2, <1>1
<1>4. QED
  BY <1>3 DEF I

(* The first row that matches, if there is one.                            *)
LEMMA PrimeraEs ==
  ASSUME suscriptions \in Seq(Fila), NEW tema
  PROVE  IF Primera(tema) = 0
         THEN \A i \in 1..Len(suscriptions) : ~EsPara(suscriptions[i], tema)
         ELSE /\ Primera(tema) \in 1..Len(suscriptions)
              /\ EsPara(suscriptions[Primera(tema)], tema)
              /\ \A i \in 1..Len(suscriptions) :
                   i < Primera(tema) => ~EsPara(suscriptions[i], tema)
<1> DEFINE I == {i \in 1..Len(suscriptions) : EsPara(suscriptions[i], tema)}
<1>1. Primera(tema) = IF I # {} THEN Min(I) ELSE 0
  BY DEF Primera, SelectInSeq
<1>2. I \in SUBSET (1..Len(suscriptions)) /\ Len(suscriptions) \in Nat
  BY LenProperties
<1> HIDE DEF I
<1>3. CASE I = {}
  BY <1>1, <1>3 DEF I
<1>4. CASE I # {}
  <2>1. Min(I) \in I
    BY <1>2, <1>4, Hallado
  <2>2. \A i \in I : Min(I) <= i
    BY <1>2, <1>4, Hallado
  <2>3. Min(I) \in 1..Len(suscriptions)
    BY <2>1, <1>2
  <2>4. \A i \in 1..Len(suscriptions) : i < Min(I) => i \notin I
    BY <2>2, <2>3, <1>2
  <2>5. QED
    BY <2>1, <2>3, <2>4, <1>1, <1>2, <1>4 DEF I
<1>5. QED
  BY <1>3, <1>4

(* A line without arguments is no copy.                                    *)
LEMMA AvisoEscrito ==
  \A tipo \in {"+OK", "PING", "-ERR"} : Aviso(tipo) \in Escritos /\ ~EsMensaje(Aviso(tipo))
                                        /\ Aviso(tipo).tipo = tipo
BY DEF Aviso, Escritos, EsMensaje

(* The server refuses the line at the head.                                *)
LEMMA CopiasRechaza ==
  ASSUME Inv, Bien, ServidorRechaza, ~cruce'
  PROVE  Bien'
<1>1. /\ UNCHANGED <<Contables, usuario, filas, candado, conexion, publicadas, oyente>>
      /\ hacia # << >> /\ hacia' = Tail(hacia)
      /\ desde' = IF SinLector THEN desde ELSE Append(desde, Aviso("-ERR"))
  BY DEF ServidorRechaza, Contables, delUsuario, hilos, delServidor
<1>2. SoloAvisos
  BY <1>1, AvisoEscrito DEF SoloAvisos
<1>3. hacia \in Seq(Comandos) /\ desde \in Seq(Escritos)
  BY DEF Bien, Red
<1>4. /\ hacia' \in Seq(Comandos) /\ Len(hacia) \in Nat /\ Len(hacia') = Len(hacia) - 1
      /\ \A k \in 1..Len(hacia') : hacia'[k] = hacia[k + 1] /\ k + 1 \in 1..Len(hacia)
  BY <1>1, <1>3, HeadTailProperties, LenProperties
<1>5. OrdenEnCurso' => OrdenEnCurso
  BY <1>1, <1>4 DEF OrdenEnCurso
<1>6. SinLector'
  <2>1. CASE SinLector
    BY <1>1, <2>1 DEF SinLector
  <2>2. CASE ~SinLector
    <3>1. desde' = Append(desde, Aviso("-ERR"))
      BY <1>1, <2>2
    <3>2. Len(desde') = Len(desde) + 1 /\ desde'[Len(desde) + 1] = Aviso("-ERR")
          /\ Len(desde) \in Nat
      BY <1>3, <3>1, AvisoEscrito, AppendProperties, LenProperties
    <3>3. Len(desde) + 1 \in 1..Len(desde')
      BY <3>2
    <3>4. QED
      BY <3>2, <3>3, AvisoEscrito DEF SinLector
  <2>3. QED
    BY <2>1, <2>2
<1>7. filas' \subseteq [id : Ids, patron : Patrones, max : Topes] /\ candado' # "envenenado"
  BY <1>1 DEF Bien, Red
<1>8. QED
  BY <1>1, <1>2, <1>4, <1>5, <1>6, <1>7, Quieto DEF Viva

(* Nobody will listen any more, or the connection is gone.                 *)
LEMMA CopiasSinServidor ==
  ASSUME Inv, Bien, Rompe \/ OyenteError \/ OyenteFinDeArchivo
  PROVE  Bien'
<1>1. /\ UNCHANGED <<Contables, usuario, filas, candado, publicadas>>
      /\ hacia' \in {hacia, << >>}
      /\ ~Viva'
  BY DEF Rompe, OyenteError, OyenteFinDeArchivo, Contables, delUsuario, hilos, delServidor,
         Viva, SinLector
<1>2. desde' = desde \/ (desde # << >> /\ Head(desde).tipo = "-ERR" /\ desde' = Tail(desde))
  BY DEF Rompe, OyenteError, OyenteFinDeArchivo, OyenteRecibe
<1>3. SoloAvisos
  BY <1>2 DEF SoloAvisos, EsMensaje
<1>4. hacia' \in Seq(Comandos)
  BY <1>1, EmptySeq DEF Bien, Red
<1>5. \A k \in 1..Len(hacia') : hacia' = hacia
  BY <1>1, EmptySeq
<1>6. OrdenEnCurso' => OrdenEnCurso
  BY <1>1, <1>5 DEF OrdenEnCurso
<1>7. filas' \subseteq [id : Ids, patron : Patrones, max : Topes] /\ candado' # "envenenado"
  BY <1>1 DEF Bien, Red
<1>8. QED
  BY <1>1, <1>3, <1>4, <1>6, <1>7, Quieto

(* PING and PONG, the joins and the threads of the subscriptions.          *)
LEMMA CopiasRed ==
  ASSUME Inv, Bien, ServidorPing \/ OyentePing \/ OyenteUne \/ (\E id \in Ids : Hilo(id))
  PROVE  Bien'
<1>1. /\ UNCHANGED <<Contables, filas, usuario, sub_id, conexion>>
      /\ publicadas' \in {publicadas, publicadas + 1}
  BY DEF ServidorPing, OyentePing, OyenteUne, Hilo, HiloToma, HiloAtiende, HiloTermina,
         Contables, delUsuario, hilos, delServidor
<1>2. /\ hacia \in Seq(Comandos) /\ desde \in Seq(Escritos) /\ candado # "envenenado"
  BY DEF Bien, Red
<1>3. EscribePub \/ UNCHANGED hacia
  BY DEF ServidorPing, OyentePing, OyenteUne, Hilo, HiloToma, HiloAtiende, HiloTermina
<1>4. HaciaIgual
  BY <1>2, <1>3, EscribePubHacia
<1>5. \/ desde' = desde
      \/ desde' = Append(desde, Aviso("PING"))
      \/ desde # << >> /\ Head(desde).tipo = "PING" /\ desde' = Tail(desde)
  BY DEF ServidorPing, OyentePing, OyenteUne, Hilo, HiloToma, HiloAtiende, HiloTermina,
         OyenteRecibe
<1>6. SoloAvisos
  BY <1>5, AvisoEscrito DEF SoloAvisos, EsMensaje
<1>7. (oyente = Fin => oyente' = Fin) /\ candado' # "envenenado"
  <2>1. CASE OyenteUne
    BY <2>1 DEF OyenteUne, Fin
  <2>2. CASE ~OyenteUne
    BY <2>2, <1>2 DEF ServidorPing, OyentePing, Hilo, HiloToma, HiloAtiende, HiloTermina
  <2>3. QED
    BY <2>1, <2>2
<1>8. Viva' => Viva
  <2>1. "-ERR" # "PING" /\ Aviso("PING") \in Escritos
    BY AvisoEscrito
  <2>2. QED
    BY <2>1, <1>1, <1>2, <1>5, <1>7, VivaQuieta
<1>9. \A id \in Ids, p \in Patrones, m \in Topes : Futura(id, p, m)' <=> Futura(id, p, m)
  BY <1>1, FuturaQuieta DEF Contables
<1>10. QED
  BY <1>1, <1>4, <1>6, <1>7, <1>8, <1>9, QuietoConServidor

(* Calls of the user that write one line and touch no row.                 *)
LEMMA CopiasUnaEscritura ==
  ASSUME Inv, Bien, Publica \/ CreateStream \/ HPublica \/ NoCreaConsumer
  PROVE  Bien'
<1>1. /\ UNCHANGED <<Contables, filas, usuario, sub_id, conexion, publicadas, desde, oyente,
                     candado>>
      /\ EscribePub \/ Escribe(Rechazable) \/ UNCHANGED hacia
  BY DEF Publica, CreateStream, HPublica, NoCreaConsumer, UnaEscritura, NoEscribe, Contables,
         hilos, delServidor
<1>2. /\ hacia \in Seq(Comandos) /\ desde \in Seq(Escritos) /\ candado' # "envenenado"
  BY <1>1 DEF Bien, Red
<1>3. HaciaIgual
  BY <1>1, <1>2, EscribePubHacia
<1>4. SoloAvisos /\ (Viva' => Viva)
  BY <1>1 DEF SoloAvisos, Viva, SinLector
<1>5. \A id \in Ids, p \in Patrones, m \in Topes : Futura(id, p, m)' <=> Futura(id, p, m)
  BY <1>1, FuturaQuieta DEF Contables
<1>6. QED
  BY <1>1, <1>2, <1>3, <1>4, <1>5, QuietoConServidor

(* The user's thread ends an operation that left the table alone.          *)
LEMMA CopiasUsuario ==
  ASSUME Inv, Bien, Une \/ Falla \/ NoConecta \/ OyenteOk
  PROVE  Bien'
<1>1. /\ UNCHANGED <<Contables, filas, sub_id, conexion, publicadas, hacia, oyente, candado>>
      /\ \/ desde' = desde
         \/ desde # << >> /\ Head(desde).tipo = "+OK" /\ desde' = Tail(desde)
  BY DEF Une, Falla, NoConecta, OyenteOk, OyenteRecibe, Contables, hilos, delServidor
<1>2. /\ desde \in Seq(Escritos) /\ candado # "envenenado"
      /\ suscriptions \in Seq(Fila)
  BY DEF Bien, Red, Inv, Tipado
<1>3. /\ \/ usuario' = usuario
         \/ /\ usuario'.fase \notin {"anota", "desuscribe"}
            /\ usuario.fase # "anota"
            /\ usuario.fase = "desuscribe" =>
                 \A i \in 1..Len(suscriptions) : suscriptions[i].id # usuario.id
      /\ usuario'.fase \in {"anota", "desuscribe"} => usuario' = usuario
  <2>1. Libre.fase = "libre" /\ Fin.fase = "fin"
    BY DEF Libre, Fin
  <2>2. CASE Une \/ NoConecta \/ OyenteOk
    BY <2>1, <2>2 DEF Une, NoConecta, OyenteOk
  <2>3. CASE Falla
    <3>1. usuario.fase = "desuscribe" /\ Indice(usuario.id) = 0 /\ usuario' \in {Libre, Fin}
      BY <2>3, <1>2 DEF Falla
    <3>2. QED
      BY <2>1, <3>1, <1>2, IndiceNulo
  <2>4. QED
    BY <2>2, <2>3
<1>4. SoloAvisos
  BY <1>1 DEF SoloAvisos, EsMensaje
<1>5. Viva' => Viva
  BY <1>1, <1>2, VivaQuieta
<1>6. \A id \in Ids, p \in Patrones, m \in Topes : Futura(id, p, m)' <=> Futura(id, p, m)
  BY <1>1, <1>3, FuturaQuieta DEF Contables
<1>7. HaciaIgual
  BY <1>1 DEF HaciaIgual
<1>8. QED
  BY <1>1, <1>2, <1>3, <1>4, <1>5, <1>6, <1>7, QuietoConServidor

(* A SUB that could not be written.                                        *)
LEMMA CopiasNoEscribeSub ==
  ASSUME Inv, Bien, NEW sigue \in {Fin, Libre}, NoEscribeSub(sigue)
  PROVE  Bien'
<1>1. /\ UNCHANGED <<Contables, filas, conexion, publicadas, hacia, oyente, candado, desde>>
      /\ sub_id' = sub_id + 1 /\ conexion = "rota" /\ usuario' = sigue
  BY DEF NoEscribeSub, NoEscribe, Contables, hilos, delServidor
<1>2. usuario'.fase \notin {"anota", "desuscribe"}
  BY <1>1 DEF Libre, Fin
<1>3. ~Viva' /\ SoloAvisos /\ HaciaIgual /\ candado' # "envenenado"
  BY <1>1 DEF Viva, SoloAvisos, HaciaIgual, Bien, Red
<1>4. QED
  BY <1>1, <1>2, <1>3, QuietoConServidor

-----------------------------------------------------------------------------
(* The server carries out a command                                        *)

(* The command at the head has been carried out.                           *)
LEMMA Atendida ==
  ASSUME hacia \in Seq(Comandos), hacia # << >>, hacia' = Tail(hacia)
  PROVE  /\ Orden = hacia[1] /\ Orden \in Comandos /\ 1 \in 1..Len(hacia)
         /\ hacia' \in Seq(Comandos) /\ Len(hacia) \in Nat /\ Len(hacia') = Len(hacia) - 1
         /\ \A k \in 1..Len(hacia') :
              k + 1 \in 1..Len(hacia) /\ hacia'[k] = hacia[k + 1] /\ hacia'[k] \in Comandos
         /\ \A k \in 1..Len(hacia) : k # 1 => k - 1 \in 1..Len(hacia') /\ hacia'[k - 1] = hacia[k]
<1>1. Len(hacia) \in Nat \ {0}
  BY EmptySeq
<1>2. /\ Head(hacia) \in Comandos /\ hacia' \in Seq(Comandos) /\ Len(hacia') = Len(hacia) - 1
      /\ \A k \in 1..Len(hacia') : hacia'[k] = hacia[k + 1]
  BY HeadTailProperties
<1>3. Head(hacia) = hacia[1]
  OBVIOUS
<1>4. \A k \in 1..Len(hacia') : k + 1 \in 1..Len(hacia) /\ hacia'[k] \in Comandos
  BY <1>1, <1>2, ElementOfSeq
<1>5. ASSUME NEW k \in 1..Len(hacia), k # 1
      PROVE  k - 1 \in 1..Len(hacia') /\ hacia'[k - 1] = hacia[k]
  <2>1. k - 1 \in 1..Len(hacia') /\ (k - 1) + 1 = k
    BY <1>1, <1>2, <1>5
  <2>2. QED
    BY <2>1, <1>2
<1>6. QED
  BY <1>1, <1>2, <1>3, <1>4, <1>5 DEF Orden

(* A command for others changes nothing for a subscription.                *)
LEMMA AtendidaOtra ==
  ASSUME hacia \in Seq(Comandos), hacia # << >>, hacia' = Tail(hacia),
         UNCHANGED <<enviadas, recibidas>>, NEW id \in Ids, ~DeId(Orden, id),
         \A f : f.id = id => (f \in filas' <=> f \in filas)
  PROVE  /\ \A p, m : Servida(id, p, m) => Servida(id, p, m)'
         /\ Olvidada(id) => Olvidada(id)'
<1>1. /\ Orden = hacia[1] /\ hacia' \in Seq(Comandos)
      /\ Len(hacia) \in Nat /\ Len(hacia') = Len(hacia) - 1
      /\ \A k \in 1..Len(hacia') : k + 1 \in 1..Len(hacia) /\ hacia'[k] = hacia[k + 1]
  BY Atendida
<1>2. /\ 1 \in Nat /\ Len(hacia) <= Len(hacia') + 1
      /\ \A k \in 1..Len(hacia') :
           IF k + 1 \in 1..Len(hacia) THEN hacia'[k] = hacia[k + 1] ELSE ~DeId(hacia'[k], id)
      /\ \A k \in 1..1 : ~DeId(hacia[k], id)
  BY <1>1
<1>3. Faltan(id)' = Faltan(id)
  BY DEF Faltan
<1>4. QED
  BY <1>1, <1>2, <1>3, ServidaIgual

(* The lines behind the head, when the head has been carried out.          *)
LEMMA AtendidaUltima ==
  ASSUME hacia \in Seq(Comandos), hacia # << >>, hacia' = Tail(hacia), NEW id
  PROVE  /\ \A k \in 1..Len(hacia') : EsUltima(k, id)' => EsUltima(k + 1, id)
         /\ (DeId(Orden, id) /\ \A k \in 1..Len(hacia') : ~DeId(hacia'[k], id))
              => EsUltima(1, id)
<1>1. /\ Orden = hacia[1] /\ Len(hacia) \in Nat /\ Len(hacia') = Len(hacia) - 1
      /\ \A k \in 1..Len(hacia') : k + 1 \in 1..Len(hacia) /\ hacia'[k] = hacia[k + 1]
      /\ \A k \in 1..Len(hacia) : k # 1 => k - 1 \in 1..Len(hacia') /\ hacia'[k - 1] = hacia[k]
  BY Atendida
<1>2. ASSUME NEW k \in 1..Len(hacia'), EsUltima(k, id)'
      PROVE  EsUltima(k + 1, id)
  <2>1. \A j \in (k + 1 + 1)..Len(hacia) :
          j \in 1..Len(hacia) /\ j # 1 /\ j - 1 \in (k + 1)..Len(hacia')
    BY <1>1
  <2>2. \A j \in (k + 1 + 1)..Len(hacia) : ~DeId(hacia[j], id)
    BY <2>1, <1>1, <1>2 DEF EsUltima
  <2>3. QED
    BY <2>2, <1>1, <1>2 DEF EsUltima
<1>3. ASSUME DeId(Orden, id), \A k \in 1..Len(hacia') : ~DeId(hacia'[k], id)
      PROVE  EsUltima(1, id)
  <2>1. \A j \in (1 + 1)..Len(hacia) : j \in 1..Len(hacia) /\ j # 1
    BY <1>1
  <2>2. QED
    BY <2>1, <1>1, <1>3 DEF EsUltima
<1>4. QED
  BY <1>2, <1>3

(* One row for each id, and none for one that is still to be added.        *)
LEMMA AtendidaUnicas ==
  ASSUME hacia \in Seq(Comandos), hacia # << >>, hacia' = Tail(hacia), sub_id' = sub_id,
         FilasUnicas,
         \A f, g \in filas' : f.id = g.id => f = g,
         \A f \in filas' : DeId(Orden, f.id) \/ \E g \in filas : f.id = g.id
  PROVE  FilasUnicas'
<1>1. /\ Orden = hacia[1] /\ 1 \in 1..Len(hacia)
      /\ Len(hacia) \in Nat /\ Len(hacia') = Len(hacia) - 1
      /\ \A k \in 1..Len(hacia') : k + 1 \in 1..Len(hacia) /\ hacia'[k] = hacia[k + 1]
  BY Atendida
<1>2. \A f \in filas' : f.id \in 1..sub_id
  BY <1>1 DEF FilasUnicas, DeId
<1>3. ASSUME NEW k \in 1..Len(hacia'), hacia'[k].tipo = "SUB"
      PROVE  /\ \A f \in filas' : f.id # hacia'[k].id
             /\ \A j \in 1..(k - 1) : ~DeId(hacia'[j], hacia'[k].id)
  <2>1. /\ k + 1 \in 1..Len(hacia) /\ hacia'[k] = hacia[k + 1]
        /\ \A f \in filas : f.id # hacia'[k].id
        /\ \A j \in 1..((k + 1) - 1) : ~DeId(hacia[j], hacia'[k].id)
    BY <1>1, <1>3 DEF FilasUnicas
  <2>2. 1 \in 1..((k + 1) - 1)
    OBVIOUS
  <2>3. ~DeId(Orden, hacia'[k].id)
    BY <2>1, <2>2, <1>1
  <2>4. \A f \in filas' : f.id # hacia'[k].id
    BY <2>1, <2>3 DEF DeId
  <2>5. \A j \in 1..(k - 1) : j \in 1..Len(hacia') /\ j + 1 \in 1..((k + 1) - 1)
    BY <1>1
  <2>6. QED
    BY <2>1, <2>4, <2>5, <1>1
<1>4. \A k \in 1..Len(hacia') :
        hacia'[k].tipo \in {"SUB", "UNSUB"} => hacia'[k].id \in 1..sub_id
  BY <1>1 DEF FilasUnicas
<1>5. QED
  BY <1>2, <1>3, <1>4 DEF FilasUnicas

(* SUB: a row for an id that had none.                                     *)
LEMMA AceptaSub ==
  ASSUME Inv, Bien, Acuerdo, ServidorAcepta, Orden.tipo = "SUB"
  PROVE  Acuerdo'
<1> DEFINE nueva == [id |-> Orden.id, patron |-> Orden.patron, max |-> SinLimite]
<1>1. /\ hacia # << >> /\ hacia' = Tail(hacia) /\ filas' = filas \cup {nueva}
      /\ UNCHANGED <<suscriptions, usuario, sub_id, enviadas, recibidas>>
  BY DEF ServidorAcepta, delUsuario, hilos
<1>2. hacia \in Seq(Comandos) /\ filas \subseteq [id : Ids, patron : Patrones, max : Topes]
  BY DEF Bien, Red
<1>3. /\ Orden = hacia[1] /\ Orden \in Comandos /\ 1 \in 1..Len(hacia)
      /\ hacia' \in Seq(Comandos) /\ Len(hacia) \in Nat /\ Len(hacia') = Len(hacia) - 1
      /\ \A k \in 1..Len(hacia') :
           k + 1 \in 1..Len(hacia) /\ hacia'[k] = hacia[k + 1] /\ hacia'[k] \in Comandos
      /\ \A k \in 1..Len(hacia) : k # 1 => k - 1 \in 1..Len(hacia') /\ hacia'[k - 1] = hacia[k]
  BY <1>1, <1>2, Atendida
<1>4. Orden.id \in Ids /\ Orden.patron \in Patrones
  BY <1>3, ComandosFormas
<1>5. nueva \in [id : Ids, patron : Patrones, max : Topes]
      /\ nueva.id = Orden.id /\ nueva.patron = Orden.patron /\ nueva.max = SinLimite
  BY <1>4 DEF Topes
<1>6. /\ \A f \in filas : f.id # Orden.id
      /\ \A f, g \in filas : f.id = g.id => f = g
      /\ FilasUnicas
  BY <1>3 DEF Acuerdo, FilasUnicas
<1> HIDE DEF nueva
<1>7. FilasUnicas'
  <2>1. /\ \A f, g \in filas' : f.id = g.id => f = g
        /\ \A f \in filas' : DeId(Orden, f.id) \/ \E g \in filas : f.id = g.id
    BY <1>1, <1>5, <1>6 DEF DeId
  <2>2. QED
    BY <2>1, <1>1, <1>2, <1>6, AtendidaUnicas
<1>8. \A id \in Ids, p \in Patrones, m \in Topes : Futura(id, p, m)' <=> Futura(id, p, m)
  BY <1>1, FuturaQuieta
<1>9. ASSUME NEW id \in Ids, ~DeId(Orden, id)
      PROVE  /\ \A p, m : Servida(id, p, m) => Servida(id, p, m)'
             /\ Olvidada(id) => Olvidada(id)'
  <2>1. \A f : f.id = id => (f \in filas' <=> f \in filas)
    BY <1>1, <1>5, <1>9 DEF DeId
  <2>2. QED
    BY <2>1, <1>1, <1>2, <1>9, AtendidaOtra
<1>10. ASSUME NEW id \in Ids, DeId(Orden, id), NEW p, NEW m, Servida(id, p, m)
       PROVE  Servida(id, p, m)'
  <2>1. id = Orden.id /\ Orden.patron = p
    BY <1>3, <1>10 DEF Servida, DeId
  <2>2. \A f \in filas' : f.id = id => f.patron = p
    BY <2>1, <1>1, <1>5, <1>6
  <2>3. \A k \in 1..Len(hacia') : DeId(hacia'[k], id) =>
          IF hacia'[k].tipo = "SUB" THEN hacia'[k].patron = p ELSE hacia'[k].max # SinLimite
    BY <1>3, <1>10 DEF Servida
  <2>4. \A k \in 1..Len(hacia') : EsUltima(k, id)' => m = Tope(hacia'[k])
    BY <1>1, <1>2, <1>3, <1>10, AtendidaUltima DEF Servida
  <2>5. (\A k \in 1..Len(hacia') : ~DeId(hacia'[k], id)) => Cuadra(id, m)'
    <3>1. SUFFICES ASSUME \A k \in 1..Len(hacia') : ~DeId(hacia'[k], id)
                   PROVE  Cuadra(id, m)'
      OBVIOUS
    <3>2. EsUltima(1, id)
      BY <3>1, <1>1, <1>2, <1>10, AtendidaUltima
    <3>3. m = SinLimite
      BY <3>2, <1>3, <1>10 DEF Servida, Tope
    <3>4. nueva \in filas'
      BY <1>1
    <3>5. QED
      BY <3>3, <3>4, <2>1, <1>5 DEF Cuadra
  <2>6. QED
    BY <2>2, <2>3, <2>4, <2>5 DEF Servida
<1>11. ASSUME NEW id \in Ids, DeId(Orden, id), Olvidada(id)
       PROVE  Olvidada(id)'
  <2>1. id = Orden.id
    BY <1>11 DEF DeId
  <2>2. PICK k \in 1..Len(hacia) :
          hacia[k].tipo = "UNSUB" /\ hacia[k].id = id /\ hacia[k].max = SinLimite
    BY <2>1, <1>3, <1>11 DEF Olvidada
  <2>3. k # 1
    BY <2>2, <1>3
  <2>4. QED
    BY <2>2, <2>3, <1>3 DEF Olvidada
<1>12. QED
  BY <1>7, <1>8, <1>9, <1>10, <1>11 DEF Acuerdo

(* UNSUB: the row of the id gets a limit or goes.                          *)
LEMMA AceptaUnsub ==
  ASSUME Inv, Bien, Acuerdo, ServidorAcepta, Orden.tipo = "UNSUB"
  PROVE  Acuerdo'
<1>1. /\ hacia # << >> /\ hacia' = Tail(hacia)
      /\ UNCHANGED <<suscriptions, usuario, sub_id, enviadas, recibidas>>
  BY DEF ServidorAcepta, delUsuario, hilos
<1>2. PICK f0 \in filas :
        /\ f0.id = Orden.id
        /\ filas' = (filas \ {f0})
                     \cup (IF Orden.max = SinLimite THEN {} ELSE {[f0 EXCEPT !.max = Orden.max]})
  BY DEF ServidorAcepta
<1> DEFINE f1 == [f0 EXCEPT !.max = Orden.max]
<1>3. hacia \in Seq(Comandos) /\ filas \subseteq [id : Ids, patron : Patrones, max : Topes]
  BY DEF Bien, Red
<1>4. /\ Orden = hacia[1] /\ Orden \in Comandos /\ 1 \in 1..Len(hacia)
      /\ hacia' \in Seq(Comandos) /\ Len(hacia) \in Nat /\ Len(hacia') = Len(hacia) - 1
      /\ \A k \in 1..Len(hacia') :
           k + 1 \in 1..Len(hacia) /\ hacia'[k] = hacia[k + 1] /\ hacia'[k] \in Comandos
      /\ \A k \in 1..Len(hacia) : k # 1 => k - 1 \in 1..Len(hacia') /\ hacia'[k - 1] = hacia[k]
  BY <1>1, <1>3, Atendida
<1>5. Orden.id \in Ids /\ Orden.max \in Topes
  BY <1>4, ComandosFormas
<1>6. /\ f1 \in [id : Ids, patron : Patrones, max : Topes]
      /\ f1.id = Orden.id /\ f1.patron = f0.patron /\ f1.max = Orden.max
  BY <1>2, <1>3, <1>5
<1>7. filas' = (filas \ {f0}) \cup (IF Orden.max = SinLimite THEN {} ELSE {f1})
  BY <1>2
<1> HIDE DEF f1
<1>8. FilasUnicas /\ \A f, g \in filas : f.id = g.id => f = g
  BY DEF Acuerdo, FilasUnicas
<1>9. FilasUnicas'
  <2>1. \A f \in filas' : f = f1 \/ (f \in filas /\ f.id # Orden.id)
    BY <1>2, <1>7, <1>8
  <2>2. /\ \A f, g \in filas' : f.id = g.id => f = g
        /\ \A f \in filas' : DeId(Orden, f.id) \/ \E g \in filas : f.id = g.id
    BY <2>1, <1>6, <1>8 DEF DeId
  <2>3. QED
    BY <2>2, <1>1, <1>3, <1>8, AtendidaUnicas
<1>10. \A id \in Ids, p \in Patrones, m \in Topes : Futura(id, p, m)' <=> Futura(id, p, m)
  BY <1>1, FuturaQuieta
<1>11. ASSUME NEW id \in Ids, ~DeId(Orden, id)
       PROVE  /\ \A p, m : Servida(id, p, m) => Servida(id, p, m)'
              /\ Olvidada(id) => Olvidada(id)'
  <2>1. \A f : f.id = id => (f \in filas' <=> f \in filas)
    BY <1>2, <1>6, <1>7, <1>11 DEF DeId
  <2>2. QED
    BY <2>1, <1>1, <1>3, <1>11, AtendidaOtra
<1>12. \A id \in Ids : Faltan(id)' = 0
  <2>1. OrdenEnCurso
    BY <1>4 DEF OrdenEnCurso
  <2>2. \A id \in Ids : Faltan(id) = 0
    BY <2>1, SinCopias DEF Bien, Calma, Reparto
  <2>3. QED
    BY <2>2, <1>1 DEF Faltan
<1>13. ASSUME NEW id \in Ids, DeId(Orden, id), NEW p, NEW m \in Topes, Servida(id, p, m)
       PROVE  Servida(id, p, m)'
  <2>1. id = Orden.id /\ Orden.max # SinLimite
    BY <1>4, <1>13 DEF Servida, DeId
  <2>2. \A f \in filas' : f.id = id => f.patron = p
    BY <2>1, <1>2, <1>6, <1>7, <1>13 DEF Servida
  <2>3. \A k \in 1..Len(hacia') : DeId(hacia'[k], id) =>
          IF hacia'[k].tipo = "SUB" THEN hacia'[k].patron = p ELSE hacia'[k].max # SinLimite
    BY <1>4, <1>13 DEF Servida
  <2>4. \A k \in 1..Len(hacia') : EsUltima(k, id)' => m = Tope(hacia'[k])
    BY <1>1, <1>3, <1>4, <1>13, AtendidaUltima DEF Servida
  <2>5. (\A k \in 1..Len(hacia') : ~DeId(hacia'[k], id)) => Cuadra(id, m)'
    <3>1. SUFFICES ASSUME \A k \in 1..Len(hacia') : ~DeId(hacia'[k], id)
                   PROVE  Cuadra(id, m)'
      OBVIOUS
    <3>2. EsUltima(1, id)
      BY <3>1, <1>1, <1>3, <1>13, AtendidaUltima
    <3>3. m = Orden.max
      BY <3>2, <1>4, <1>13 DEF Servida, Tope
    <3>4. f1 \in filas'
      BY <2>1, <1>7
    <3>5. m[1] \in Nat /\ m[1] = m[1] + Faltan(id)' /\ Faltan(id)' = 0
      BY <3>3, <2>1, <1>5, <1>12, TopeNatural
    <3>6. QED
      BY <3>3, <3>4, <3>5, <2>1, <1>6 DEF Cuadra
  <2>6. QED
    BY <2>2, <2>3, <2>4, <2>5 DEF Servida
<1>14. ASSUME NEW id \in Ids, DeId(Orden, id), Olvidada(id)
       PROVE  Olvidada(id)'
  <2>1. id = Orden.id
    BY <1>14 DEF DeId
  <2>2. PICK k \in 1..Len(hacia) :
          hacia[k].tipo = "UNSUB" /\ hacia[k].id = id /\ hacia[k].max = SinLimite
    BY <2>1, <1>2, <1>14 DEF Olvidada
  <2>3. CASE k # 1
    BY <2>2, <2>3, <1>4 DEF Olvidada
  <2>4. CASE k = 1
    <3>1. \A f \in filas' : f.id # id
      BY <2>1, <2>2, <2>4, <1>2, <1>4, <1>7, <1>8
    <3>2. \A j \in 1..Len(hacia') : hacia'[j].tipo = "SUB" => hacia'[j].id # id
      <4>1. SUFFICES ASSUME NEW j \in 1..Len(hacia'), hacia'[j].tipo = "SUB"
                     PROVE  ~DeId(hacia[1], hacia'[j].id)
        BY <1>4, <1>14 DEF DeId
      <4>2. 1 \in 1..((j + 1) - 1)
        OBVIOUS
      <4>3. QED
        BY <4>1, <4>2, <1>4, <1>8 DEF FilasUnicas
    <3>3. QED
      BY <3>1, <3>2 DEF Olvidada
  <2>5. QED
    BY <2>3, <2>4
<1>15. QED
  BY <1>9, <1>10, <1>11, <1>13, <1>14 DEF Acuerdo

(* The rows of the server keep their form.                                 *)
LEMMA AceptaTipo ==
  ASSUME Bien, ServidorAcepta
  PROVE  filas' \subseteq [id : Ids, patron : Patrones, max : Topes]
<1>1. /\ hacia # << >> /\ hacia' = Tail(hacia)
      /\ hacia \in Seq(Comandos) /\ filas \subseteq [id : Ids, patron : Patrones, max : Topes]
  BY DEF ServidorAcepta, Bien, Red
<1>2. Orden \in Comandos
  BY <1>1, Atendida
<1>3. /\ Orden.tipo \in {"SUB", "UNSUB"} => Orden.id \in Ids
      /\ Orden.tipo = "SUB" => Orden.patron \in Patrones
      /\ Orden.tipo = "UNSUB" => Orden.max \in Topes
  BY <1>2, ComandosFormas
<1>4. CASE Orden.tipo = "SUB"
  <2>1. [id |-> Orden.id, patron |-> Orden.patron, max |-> SinLimite]
          \in [id : Ids, patron : Patrones, max : Topes]
    BY <1>3, <1>4 DEF Topes
  <2>2. filas' = filas \cup {[id |-> Orden.id, patron |-> Orden.patron, max |-> SinLimite]}
    BY <1>4 DEF ServidorAcepta
  <2>3. QED
    BY <2>1, <2>2, <1>1
<1>5. CASE Orden.tipo = "UNSUB"
  <2>1. PICK f \in filas :
          filas' = (filas \ {f})
                   \cup (IF Orden.max = SinLimite THEN {} ELSE {[f EXCEPT !.max = Orden.max]})
    BY <1>5 DEF ServidorAcepta
  <2>2. [f EXCEPT !.max = Orden.max] \in [id : Ids, patron : Patrones, max : Topes]
    BY <1>1, <1>3, <1>5
  <2>3. QED
    BY <2>1, <2>2, <1>1
<1>6. QED
  BY <1>1, <1>4, <1>5 DEF ServidorAcepta

(* CONNECT changes no row.                                                 *)
LEMMA AceptaConnect ==
  ASSUME Bien, Acuerdo, ServidorAcepta, Orden.tipo = "CONNECT"
  PROVE  Acuerdo'
<1>1. /\ hacia # << >> /\ hacia' = Tail(hacia)
      /\ UNCHANGED <<filas, suscriptions, usuario, sub_id, enviadas, recibidas>>
      /\ hacia \in Seq(Comandos)
  BY DEF ServidorAcepta, delUsuario, hilos, Bien, Red
<1>2. FilasUnicas'
  <2>1. /\ FilasUnicas
        /\ \A f, g \in filas' : f.id = g.id => f = g
        /\ \A f \in filas' : DeId(Orden, f.id) \/ \E g \in filas : f.id = g.id
    BY <1>1 DEF Acuerdo, FilasUnicas
  <2>2. QED
    BY <2>1, <1>1, AtendidaUnicas
<1>3. \A id \in Ids, p \in Patrones, m \in Topes : Futura(id, p, m)' <=> Futura(id, p, m)
  BY <1>1, FuturaQuieta
<1>4. ASSUME NEW id \in Ids
      PROVE  /\ \A p, m : Servida(id, p, m) => Servida(id, p, m)'
             /\ Olvidada(id) => Olvidada(id)'
  <2>1. ~DeId(Orden, id) /\ \A f : f.id = id => (f \in filas' <=> f \in filas)
    BY <1>1 DEF DeId
  <2>2. QED
    BY <2>1, <1>1, AtendidaOtra
<1>5. QED
  BY <1>2, <1>3, <1>4 DEF Acuerdo

(* The server carries out the SUB or UNSUB at the head: what it promised   *)
(* of the row of the client now holds of the row of the server.            *)
LEMMA CopiasAcepta ==
  ASSUME Inv, Bien, ServidorAcepta
  PROVE  Bien'
<1>1. /\ UNCHANGED <<Contables, usuario, sub_id, candado, oyente, conexion, publicadas>>
      /\ hacia # << >> /\ hacia' = Tail(hacia)
      /\ desde' = desde \/ desde' = Append(desde, Aviso("+OK"))
      /\ Orden.tipo \in {"SUB", "UNSUB"} \/ (Orden.tipo = "CONNECT" /\ filas' = filas)
  BY DEF ServidorAcepta, Contables, delUsuario, hilos
<1>2. /\ hacia \in Seq(Comandos) /\ desde \in Seq(Escritos) /\ candado' # "envenenado"
      /\ filas \subseteq [id : Ids, patron : Patrones, max : Topes]
  BY <1>1 DEF Bien, Red
<1>3. SoloAvisos /\ (Viva' => Viva)
  <2>1. Aviso("+OK") \in Escritos /\ ~EsMensaje(Aviso("+OK"))
    BY AvisoEscrito
  <2>2. SoloAvisos
    BY <2>1, <1>1 DEF SoloAvisos
  <2>3. Viva' => Viva
    BY <2>1, <1>1, <1>2, VivaQuieta
  <2>4. QED
    BY <2>2, <2>3
<1>4. /\ Orden = hacia[1] /\ hacia' \in Seq(Comandos)
      /\ \A k \in 1..Len(hacia') : k + 1 \in 1..Len(hacia) /\ hacia'[k] = hacia[k + 1]
  BY <1>1, <1>2, Atendida
<1>5. OrdenEnCurso' => OrdenEnCurso
  BY <1>1, <1>4 DEF OrdenEnCurso
<1>6. Viva' => Acuerdo'
  <2>1. Viva' => Acuerdo
    BY <1>3 DEF Bien
  <2>2. QED
    BY <2>1, <1>1, AceptaSub, AceptaUnsub, AceptaConnect
<1>7. filas' \subseteq [id : Ids, patron : Patrones, max : Topes]
  BY AceptaTipo
<1>8. QED
  BY <1>1, <1>2, <1>3, <1>4, <1>5, <1>6, <1>7, Quieto

-----------------------------------------------------------------------------
(* The user writes a command                                               *)

LEMMA Mandada ==
  ASSUME hacia \in Seq(Comandos), NEW o \in Comandos,
         NEW antes \in {<< >>, <<Aviso("RECHAZADA")>>}, hacia' = hacia \o (antes \o <<o>>)
  PROVE  /\ hacia' \in Seq(Comandos) /\ Len(hacia) \in Nat /\ Len(hacia') \in Nat
         /\ Len(hacia) + 1 <= Len(hacia') /\ hacia'[Len(hacia')] = o
         /\ \A k \in 1..Len(hacia) : k \in 1..Len(hacia') /\ hacia'[k] = hacia[k]
         /\ \A k \in 1..Len(hacia') :
              \/ k \in 1..Len(hacia)
              \/ k = Len(hacia')
              \/ hacia'[k].tipo = "RECHAZADA"
<1> DEFINE a == Aviso("RECHAZADA")
<1>1. a \in Comandos /\ a.tipo = "RECHAZADA"
  BY DEF Aviso, Comandos
<1> HIDE DEF a
<1>2. /\ antes \o <<o>> \in Seq(Comandos)
      /\ \/ Len(antes \o <<o>>) = 1 /\ (antes \o <<o>>)[1] = o
         \/ Len(antes \o <<o>>) = 2 /\ (antes \o <<o>>)[1] = a /\ (antes \o <<o>>)[2] = o
  <2>1. <<o>> \in Seq(Comandos) /\ <<a>> \in Seq(Comandos)
    BY <1>1
  <2>2. CASE antes = << >>
    <3>1. antes \o <<o>> = <<o>>
      BY <2>1, <2>2, ConcatEmptySeq
    <3>2. Len(<<o>>) = 1 /\ <<o>>[1] = o
      OBVIOUS
    <3>3. QED
      BY <2>1, <3>1, <3>2
  <2>3. CASE antes = <<a>>
    <3>1. antes \o <<o>> = Append(<<a>>, o)
      BY <2>1, <2>3, AppendIsConcat
    <3>2. Len(<<a>>) = 1 /\ <<a>>[1] = a
      OBVIOUS
    <3>3. QED
      BY <2>1, <3>1, <3>2, AppendProperties
  <2>4. QED
    BY <2>2, <2>3 DEF a
<1> DEFINE c == antes \o <<o>>
<1> HIDE DEF c
<1>3. /\ hacia' \in Seq(Comandos) /\ Len(hacia') = Len(hacia) + Len(c) /\ Len(hacia) \in Nat
      /\ \A k \in 1..Len(hacia) + Len(c) :
           hacia'[k] = IF k <= Len(hacia) THEN hacia[k] ELSE c[k - Len(hacia)]
  <2>1. hacia' = hacia \o c /\ c \in Seq(Comandos)
    BY <1>2 DEF c
  <2>2. Len(hacia) \in Nat
    BY LenProperties
  <2>3. /\ hacia \o c \in Seq(Comandos) /\ Len(hacia \o c) = Len(hacia) + Len(c)
        /\ \A k \in 1..Len(hacia) + Len(c) :
             (hacia \o c)[k] = IF k <= Len(hacia) THEN hacia[k] ELSE c[k - Len(hacia)]
    BY <2>1, ConcatProperties
  <2>4. QED
    BY <2>1, <2>2, <2>3
<1>4. /\ c \in Seq(Comandos)
      /\ \/ Len(c) = 1 /\ c[1] = o
         \/ Len(c) = 2 /\ c[1] = a /\ c[2] = o
  BY <1>2 DEF c
<1>5. /\ Len(hacia') \in Nat /\ Len(hacia) + 1 <= Len(hacia') /\ hacia'[Len(hacia')] = o
      /\ \A k \in 1..Len(hacia) : k \in 1..Len(hacia') /\ hacia'[k] = hacia[k]
  BY <1>3, <1>4
<1>6. ASSUME NEW k \in 1..Len(hacia'), k \notin 1..Len(hacia), k # Len(hacia')
      PROVE  hacia'[k].tipo = "RECHAZADA"
  <2>1. Len(c) = 2 /\ c[1] = a
    BY <1>3, <1>4, <1>6
  <2>2. k - Len(hacia) = 1 /\ ~(k <= Len(hacia))
    BY <2>1, <1>3, <1>6
  <2>3. hacia'[k] = c[k - Len(hacia)]
    BY <2>2, <1>3
  <2>4. QED
    BY <2>1, <2>2, <2>3, <1>1
<1>7. QED
  BY <1>3, <1>5, <1>6

(* A command for others changes nothing for a subscription.                *)
LEMMA MandadaOtra ==
  ASSUME hacia \in Seq(Comandos), NEW o \in Comandos,
         NEW antes \in {<< >>, <<Aviso("RECHAZADA")>>}, hacia' = hacia \o (antes \o <<o>>),
         UNCHANGED <<filas, enviadas, recibidas>>, NEW id \in Ids, ~DeId(o, id)
  PROVE  /\ \A p, m : Servida(id, p, m) => Servida(id, p, m)'
         /\ Olvidada(id) => Olvidada(id)'
<1>1. /\ hacia' \in Seq(Comandos) /\ Len(hacia) \in Nat /\ Len(hacia') \in Nat
      /\ Len(hacia) + 1 <= Len(hacia') /\ hacia'[Len(hacia')] = o
      /\ \A k \in 1..Len(hacia) : k \in 1..Len(hacia') /\ hacia'[k] = hacia[k]
      /\ \A k \in 1..Len(hacia') :
           k \in 1..Len(hacia) \/ k = Len(hacia') \/ hacia'[k].tipo = "RECHAZADA"
  BY Mandada
<1>2. /\ 0 \in Nat /\ Len(hacia) <= Len(hacia') + 0
      /\ \A k \in 1..0 : ~DeId(hacia[k], id)
  BY <1>1
<1>3. ASSUME NEW k \in 1..Len(hacia')
      PROVE  IF k + 0 \in 1..Len(hacia) THEN hacia'[k] = hacia[k + 0] ELSE ~DeId(hacia'[k], id)
  <2>1. hacia'[k].tipo = "RECHAZADA" => ~DeId(hacia'[k], id)
    BY DEF DeId
  <2>2. QED
    BY <2>1, <1>1
<1>4. Faltan(id)' = Faltan(id) /\ \A f : f.id = id => (f \in filas' <=> f \in filas)
  BY DEF Faltan
<1>5. QED
  BY <1>1, <1>2, <1>3, <1>4, ServidaIgual

(* A new SUB has an id that no row and no line has.                        *)
LEMMA MandadaUnicas ==
  ASSUME hacia \in Seq(Comandos), NEW o \in Comandos,
         NEW antes \in {<< >>, <<Aviso("RECHAZADA")>>}, hacia' = hacia \o (antes \o <<o>>),
         filas' = filas, sub_id \in Nat, sub_id' \in {sub_id, sub_id + 1}, FilasUnicas,
         o.tipo \in {"SUB", "UNSUB"}, o.id \in 1..sub_id',
         o.tipo = "SUB" => o.id = sub_id + 1
  PROVE  FilasUnicas'
<1>1. /\ hacia' \in Seq(Comandos) /\ Len(hacia) \in Nat /\ Len(hacia') \in Nat
      /\ Len(hacia) + 1 <= Len(hacia') /\ hacia'[Len(hacia')] = o
      /\ \A k \in 1..Len(hacia) : k \in 1..Len(hacia') /\ hacia'[k] = hacia[k]
      /\ \A k \in 1..Len(hacia') :
           k \in 1..Len(hacia) \/ k = Len(hacia') \/ hacia'[k].tipo = "RECHAZADA"
  BY Mandada
<1>2. \A n : n \in 1..sub_id => n \in 1..sub_id' /\ n # sub_id + 1
  OBVIOUS
<1>3. ASSUME NEW k \in 1..Len(hacia'), hacia'[k].tipo \in {"SUB", "UNSUB"}
      PROVE  /\ hacia'[k].id \in 1..sub_id'
             /\ hacia'[k].tipo = "SUB" =>
                  /\ \A f \in filas : f.id # hacia'[k].id
                  /\ \A j \in 1..(k - 1) : ~DeId(hacia'[j], hacia'[k].id)
  <2>1. CASE k \in 1..Len(hacia)
    <3>1. hacia'[k] = hacia[k] /\ \A j \in 1..(k - 1) : hacia'[j] = hacia[j]
      BY <2>1, <1>1
    <3>2. QED
      BY <2>1, <3>1, <1>2, <1>3 DEF FilasUnicas
  <2>2. CASE k = Len(hacia')
    <3>1. hacia'[k] = o
      BY <2>2, <1>1
    <3>2. SUFFICES ASSUME o.tipo = "SUB"
                   PROVE  /\ \A f \in filas : f.id # sub_id + 1
                          /\ \A j \in 1..(k - 1) : ~DeId(hacia'[j], sub_id + 1)
      BY <3>1
    <3>3. \A f \in filas : f.id # sub_id + 1
      BY <1>2 DEF FilasUnicas
    <3>4. ASSUME NEW j \in 1..(k - 1)
          PROVE  ~DeId(hacia'[j], sub_id + 1)
      <4>1. j \in 1..Len(hacia') /\ j # Len(hacia')
        BY <2>2, <1>1
      <4>2. CASE j \in 1..Len(hacia)
        BY <4>2, <1>1, <1>2 DEF FilasUnicas, DeId
      <4>3. CASE hacia'[j].tipo = "RECHAZADA"
        BY <4>3 DEF DeId
      <4>4. QED
        BY <4>1, <4>2, <4>3, <1>1
    <3>5. QED
      BY <3>3, <3>4
  <2>3. QED
    BY <2>1, <2>2, <1>1, <1>3
<1>4. \A f \in filas' : f.id \in 1..sub_id'
  BY <1>2 DEF FilasUnicas
<1>5. QED
  BY <1>3, <1>4 DEF FilasUnicas

(* When a command goes out nothing is on the way.                          *)
LEMMA Mandando ==
  ASSUME Bien, ~cruce', Cruza, UNCHANGED <<suscriptions, abierta, desde, publicadas, filas, candado>>,
         hacia' \in Seq(Comandos), Viva' => Acuerdo'
  PROVE  Bien'
<1>1. /\ ~HayMensajes /\ UNCHANGED <<enviadas, recibidas>>
      /\ Red /\ Historias /\ Reparto
  BY DEF Cruza, Bien
<1>2. SoloAvisos /\ UNCHANGED Contables
  BY <1>1 DEF SoloAvisos, Contables
<1>3. Historias' /\ Reparto'
  BY <1>1, <1>2, RepartoQuieto
<1>4. Red' /\ Calma'
  BY <1>1 DEF Red, Calma, HayMensajes
<1>5. QED
  BY <1>3, <1>4 DEF Bien

(* SUB written, and its row about to be added to the table.                *)
LEMMA SubAcuerdo ==
  ASSUME Inv, Bien, Acuerdo, NEW patron \in Patrones,
         NEW antes \in {<< >>, <<Aviso("RECHAZADA")>>},
         usuario.fase = "libre", sub_id < MaxSubs, sub_id' = sub_id + 1,
         usuario' = [fase |-> "anota", id |-> sub_id + 1, patron |-> patron],
         hacia' = hacia \o (antes \o <<[tipo |-> "SUB", id |-> sub_id + 1, patron |-> patron]>>),
         UNCHANGED <<filas, suscriptions, enviadas, recibidas>>
  PROVE  Acuerdo'
<1> DEFINE o == [tipo |-> "SUB", id |-> sub_id + 1, patron |-> patron]
<1>1. sub_id \in Nat /\ sub_id + 1 \in Ids /\ sub_id + 1 \in 1..sub_id'
  BY NatsClientAssumption DEF Inv, Tipado, Ids
<1>2. hacia \in Seq(Comandos) /\ o \in Comandos
  BY <1>1 DEF Bien, Red, Comandos
<1>3. o.tipo = "SUB" /\ o.id = sub_id + 1 /\ o.patron = patron
  OBVIOUS
<1> HIDE DEF o
<1>4. hacia' = hacia \o (antes \o <<o>>)
  BY DEF o
<1>5. /\ hacia' \in Seq(Comandos) /\ Len(hacia) \in Nat /\ Len(hacia') \in Nat
      /\ Len(hacia) + 1 <= Len(hacia') /\ hacia'[Len(hacia')] = o
      /\ \A k \in 1..Len(hacia) : k \in 1..Len(hacia') /\ hacia'[k] = hacia[k]
      /\ \A k \in 1..Len(hacia') :
           k \in 1..Len(hacia) \/ k = Len(hacia') \/ hacia'[k].tipo = "RECHAZADA"
  BY <1>2, <1>4, Mandada
<1>6. FilasUnicas'
  BY <1>1, <1>2, <1>3, <1>4, MandadaUnicas DEF Acuerdo
<1>7. ASSUME NEW id \in Ids, id # sub_id + 1
      PROVE  /\ \A p, m : Futura(id, p, m)' <=> Futura(id, p, m)
             /\ \A p, m : Servida(id, p, m) => Servida(id, p, m)'
             /\ Olvidada(id) => Olvidada(id)'
  <2>1. \A p, m : Futura(id, p, m)' <=> Futura(id, p, m)
    BY <1>7 DEF Futura, Quita
  <2>2. ~DeId(o, id)
    BY <1>3, <1>7 DEF DeId
  <2>3. QED
    BY <2>1, <2>2, <1>2, <1>4, MandadaOtra
<1>8. ASSUME NEW id \in Ids, id = sub_id + 1, NEW p, NEW m, Futura(id, p, m)'
      PROVE  Servida(id, p, m)'
  <2>1. \A i \in 1..Len(suscriptions) : suscriptions[i].id # id
    BY <1>1, <1>8 DEF Inv, EnTabla, IdsDe, PorHilo
  <2>2. p = patron /\ m = SinLimite
    BY <2>1, <1>8 DEF Futura
  <2>3. FilasUnicas
    BY DEF Acuerdo
  <2>4. \A f \in filas : f.id # id
    BY <2>3, <1>1, <1>8 DEF FilasUnicas
  <2>5. \A k \in 1..Len(hacia) : ~DeId(hacia[k], id)
    BY <2>3, <1>1, <1>8 DEF FilasUnicas, DeId
  <2>6. \A k \in 1..Len(hacia') : DeId(hacia'[k], id) => hacia'[k] = o
    BY <2>5, <1>5 DEF DeId
  <2>7. DeId(hacia'[Len(hacia')], id) /\ Len(hacia') \in 1..Len(hacia')
    BY <1>3, <1>5, <1>8 DEF DeId
  <2>8. \A k \in 1..Len(hacia') : EsUltima(k, id)' => m = Tope(hacia'[k])
    BY <2>2, <2>6, <1>3 DEF EsUltima, Tope
  <2>9. QED
    BY <2>2, <2>4, <2>6, <2>7, <2>8, <1>3 DEF Servida
<1>9. ASSUME NEW id \in Ids, id = sub_id + 1
      PROVE  \E p \in Patrones, m \in Topes : Futura(id, p, m)'
  <2>1. Futura(id, patron, SinLimite)' /\ SinLimite \in Topes
    BY <1>9 DEF Futura, Topes
  <2>2. QED
    BY <2>1
<1>10. QED
  BY <1>6, <1>7, <1>8, <1>9 DEF Acuerdo

(* The same, for the whole invariant.                                      *)
LEMMA CopiasSub ==
  ASSUME Inv, Bien, ~cruce', NEW patron \in Patrones, NEW antes \in {<< >>, Rechazable},
         EscribeSub(patron, antes)
  PROVE  Bien'
<1> DEFINE o == [tipo |-> "SUB", id |-> sub_id + 1, patron |-> patron]
<1>1. /\ usuario.fase = "libre" /\ sub_id < MaxSubs /\ sub_id' = sub_id + 1
      /\ Cruza /\ Escribe(antes \o <<o>>)
      /\ usuario' = [fase |-> "anota", id |-> sub_id + 1, patron |-> patron]
      /\ UNCHANGED <<suscriptions, abierta, desde, publicadas, filas, candado, conexion, oyente>>
  BY DEF EscribeSub, Empieza, Libre
<1>2. UNCHANGED <<enviadas, recibidas>>
  BY <1>1 DEF Cruza
<1>3. antes \in {<< >>, <<Aviso("RECHAZADA")>>}
  BY DEF Rechazable
<1>4. hacia \in Seq(Comandos)
  BY DEF Bien, Red
<1>5. o \in Comandos
  BY <1>1, NatsClientAssumption DEF Inv, Tipado, Ids, Comandos
<1>6. hacia' = hacia \o (antes \o <<o>>) \/ (hacia' = hacia /\ ~Viva')
  BY <1>1 DEF Escribe, Viva, SinLector
<1>7. hacia' \in Seq(Comandos)
  BY <1>3, <1>4, <1>5, <1>6, Mandada
<1>8. Viva' => Viva
  BY <1>1 DEF Viva, SinLector
<1>9. Viva' => Acuerdo'
  BY <1>1, <1>2, <1>3, <1>6, <1>8, SubAcuerdo DEF Bien
<1>10. QED
  BY <1>1, <1>7, <1>9, Mandando

(* UNSUB written, and the row about to be changed or removed.              *)
LEMMA UnsubAcuerdo ==
  ASSUME Inv, Bien, Acuerdo, NEW id0 \in 1..sub_id, NEW max \in Topes,
         usuario.fase = "libre", usuario' = [fase |-> "desuscribe", id |-> id0, max |-> max],
         hacia' = hacia \o <<[tipo |-> "UNSUB", id |-> id0, max |-> max]>>,
         UNCHANGED <<filas, suscriptions, enviadas, recibidas, sub_id>>
  PROVE  Acuerdo'
<1> DEFINE o == [tipo |-> "UNSUB", id |-> id0, max |-> max]
           antes == << >>
<1>1. sub_id \in Nat /\ id0 \in Ids /\ suscriptions \in Seq(Fila)
  BY NatsClientAssumption DEF Inv, Tipado, Ids
<1>2. hacia \in Seq(Comandos) /\ o \in Comandos
  BY <1>1 DEF Bien, Red, Comandos
<1>3. o.tipo = "UNSUB" /\ o.id = id0 /\ o.max = max
  OBVIOUS
<1> HIDE DEF o
<1>4. hacia' = hacia \o (antes \o <<o>>) /\ antes \in {<< >>, <<Aviso("RECHAZADA")>>}
  <2>1. <<o>> \in Seq(Comandos) /\ hacia' = hacia \o <<o>>
    BY <1>2 DEF o
  <2>2. antes \o <<o>> = <<o>>
    BY <2>1, ConcatEmptySeq
  <2>3. QED
    BY <2>1, <2>2
<1> HIDE DEF antes
<1>5. /\ hacia' \in Seq(Comandos) /\ Len(hacia) \in Nat /\ Len(hacia') \in Nat
      /\ Len(hacia) + 1 <= Len(hacia') /\ hacia'[Len(hacia')] = o
      /\ \A k \in 1..Len(hacia) : k \in 1..Len(hacia') /\ hacia'[k] = hacia[k]
      /\ \A k \in 1..Len(hacia') :
           k \in 1..Len(hacia) \/ k = Len(hacia') \/ hacia'[k].tipo = "RECHAZADA"
  BY <1>2, <1>4, Mandada
<1>6. FilasUnicas'
  BY <1>1, <1>2, <1>3, <1>4, MandadaUnicas DEF Acuerdo
<1>7. ASSUME NEW id \in Ids, id # id0
      PROVE  /\ \A p, m : Futura(id, p, m)' <=> Futura(id, p, m)
             /\ \A p, m : Servida(id, p, m) => Servida(id, p, m)'
             /\ Olvidada(id) => Olvidada(id)'
  <2>1. \A p, m : Futura(id, p, m)' <=> Futura(id, p, m)
    BY <1>7 DEF Futura, Quita
  <2>2. ~DeId(o, id)
    BY <1>3, <1>7 DEF DeId
  <2>3. QED
    BY <2>1, <2>2, <1>2, <1>4, MandadaOtra
<1>8. /\ \A k \in 1..Len(hacia') : k \in 1..Len(hacia) \/ hacia'[k] = o \/ ~DeId(hacia'[k], id0)
      /\ DeId(hacia'[Len(hacia')], id0) /\ Len(hacia') \in 1..Len(hacia')
  BY <1>3, <1>5 DEF DeId
<1>9. ASSUME NEW i \in 1..Len(suscriptions), suscriptions[i].id = id0
      PROVE  /\ suscriptions[i].patron \in Patrones /\ suscriptions[i].max \in Topes
             /\ Futura(id0, suscriptions[i].patron, suscriptions[i].max)
             /\ max # SinLimite => Futura(id0, suscriptions[i].patron, max)'
  <2>1. suscriptions[i] \in Fila
    BY <1>1, ElementOfSeq
  <2>2. suscriptions[i].patron \in Patrones /\ suscriptions[i].max \in Topes
    BY <2>1 DEF Fila
  <2>3. QED
    BY <2>2, <1>9 DEF Futura, Quita
<1>10. ASSUME NEW p \in Patrones, NEW m, Futura(id0, p, m)'
       PROVE  Servida(id0, p, m)'
  <2>1. PICK i \in 1..Len(suscriptions) :
          /\ suscriptions[i].id = id0 /\ suscriptions[i].patron = p
          /\ m = max /\ max # SinLimite
    BY <1>10 DEF Futura, Quita
  <2>2. Servida(id0, p, suscriptions[i].max)
    BY <2>1, <1>1, <1>9 DEF Acuerdo
  <2>3. /\ \A f \in filas : f.id = id0 => f.patron = p
        /\ \A k \in 1..Len(hacia) : DeId(hacia[k], id0) =>
             IF hacia[k].tipo = "SUB" THEN hacia[k].patron = p ELSE hacia[k].max # SinLimite
    BY <2>2 DEF Servida
  <2>4. \A k \in 1..Len(hacia') : DeId(hacia'[k], id0) =>
          IF hacia'[k].tipo = "SUB" THEN hacia'[k].patron = p ELSE hacia'[k].max # SinLimite
    BY <2>1, <2>3, <1>3, <1>5, <1>8
  <2>5. \A k \in 1..Len(hacia') : EsUltima(k, id0)' => m = Tope(hacia'[k])
    <3>1. SUFFICES ASSUME NEW k \in 1..Len(hacia'), EsUltima(k, id0)'
                   PROVE  m = Tope(hacia'[k])
      OBVIOUS
    <3>2. k = Len(hacia')
      BY <3>1, <1>5, <1>8 DEF EsUltima
    <3>3. QED
      BY <3>2, <2>1, <1>3, <1>5 DEF Tope
  <2>6. QED
    BY <2>3, <2>4, <2>5, <1>8 DEF Servida
<1>11. ASSUME \A p \in Patrones, m \in Topes : ~Futura(id0, p, m)'
       PROVE  Olvidada(id0)'
  <2>1. CASE max = SinLimite
    BY <2>1, <1>3, <1>5, <1>8 DEF Olvidada
  <2>2. CASE max # SinLimite
    <3>1. \A i \in 1..Len(suscriptions) : suscriptions[i].id # id0
      BY <2>2, <1>9, <1>11
    <3>2. Olvidada(id0)
      <4>1. \A p \in Patrones, m \in Topes : ~Futura(id0, p, m)
        BY <3>1 DEF Futura
      <4>2. QED
        BY <4>1, <1>1 DEF Acuerdo
    <3>3. CASE /\ \A f \in filas : f.id # id0
               /\ \A k \in 1..Len(hacia) : hacia[k].tipo = "SUB" => hacia[k].id # id0
      BY <3>3, <1>3, <1>5, <1>8 DEF Olvidada, DeId
    <3>4. CASE \E k \in 1..Len(hacia) :
                 hacia[k].tipo = "UNSUB" /\ hacia[k].id = id0 /\ hacia[k].max = SinLimite
      BY <3>4, <1>5 DEF Olvidada
    <3>5. QED
      BY <3>2, <3>3, <3>4 DEF Olvidada
  <2>3. QED
    BY <2>1, <2>2
<1>12. QED
  BY <1>6, <1>7, <1>10, <1>11 DEF Acuerdo

(* The same, for the whole invariant.                                      *)
LEMMA CopiasDesuscribe ==
  ASSUME Inv, Bien, ~cruce', NEW id \in 1..sub_id, NEW max \in Topes, Desuscribe(id, max)
  PROVE  Bien'
<1> DEFINE o == [tipo |-> "UNSUB", id |-> id, max |-> max]
<1>1. /\ usuario.fase = "libre" /\ Cruza
      /\ UNCHANGED <<suscriptions, abierta, desde, publicadas, filas, candado, conexion, oyente,
                     sub_id>>
      /\ \/ Escribe(<<o>>) /\ usuario' = [fase |-> "desuscribe", id |-> id, max |-> max]
         \/ conexion = "rota" /\ UNCHANGED hacia
  BY DEF Desuscribe, Empieza, Libre, NoEscribe
<1>2. UNCHANGED <<enviadas, recibidas>>
  BY <1>1 DEF Cruza
<1>3. hacia \in Seq(Comandos) /\ o \in Comandos
  BY <1>1, NatsClientAssumption DEF Bien, Red, Inv, Tipado, Ids, Comandos
<1>4. \/ /\ hacia' = hacia \o <<o>>
         /\ usuario' = [fase |-> "desuscribe", id |-> id, max |-> max]
      \/ hacia' = hacia /\ ~Viva'
  BY <1>1 DEF Escribe, Viva, SinLector
<1>5. hacia' \in Seq(Comandos)
  <2>1. <<o>> \in Seq(Comandos)
    BY <1>3
  <2>2. QED
    BY <2>1, <1>3, <1>4, ConcatProperties
<1>6. Viva' => Viva
  BY <1>1 DEF Viva, SinLector
<1>7. Viva' => Acuerdo'
  BY <1>1, <1>2, <1>4, <1>6, UnsubAcuerdo DEF Bien
<1>8. QED
  BY <1>1, <1>5, <1>7, Mandando

-----------------------------------------------------------------------------
(* The user's operation reaches the table                                  *)

LEMMA CopiasTabla ==
  ASSUME Inv, Bien, Inv', usuario.fase \in {"anota", "desuscribe"},
         usuario'.fase \notin {"anota", "desuscribe"},
         UNCHANGED <<sub_id, candado, oyente, desde, hacia, conexion, filas, publicadas,
                     enviadas, recibidas>>,
         \A id \in Ids, p \in Patrones, m \in Topes : Futura(id, p, m)' <=> Futura(id, p, m)
  PROVE  Bien'
<1>1. /\ Red /\ Historias /\ Reparto /\ ~HayMensajes
      /\ hacia \in Seq(Comandos) /\ sub_id \in Nat /\ suscriptions' \in Seq(Fila)
  BY NatsClientAssumption DEF Bien, Calma, OrdenEnCurso, Red, Inv, Tipado
<1>2. Historias' /\ Reparto'
  BY <1>1, RepartoVacio
<1>3. Red' /\ Calma'
  BY <1>1 DEF Red, Calma, HayMensajes
<1>4. Viva' => Acuerdo'
  <2>1. HaciaIgual /\ (Viva' => Viva)
    BY DEF HaciaIgual, Viva, SinLector
  <2>2. QED
    BY <2>1, <1>1, AcuerdoQuieto DEF Bien
<1>5. QED
  BY <1>2, <1>3, <1>4 DEF Bien

(* The row that SUB announced is added.                                    *)
LEMMA CopiasAnota ==
  ASSUME Inv, Bien, Inv', Anota
  PROVE  Bien'
<1> DEFINE f == [id |-> usuario.id, patron |-> usuario.patron, max |-> SinLimite,
                 consumer |-> usuario.patron \in Consumidores]
           r == Append(suscriptions, f)
<1>1. /\ usuario.fase = "anota" /\ usuario' = Libre /\ suscriptions' = r
      /\ UNCHANGED <<sub_id, candado, oyente, desde, hacia, conexion, filas, publicadas,
                     enviadas, recibidas>>
  BY DEF Anota, delServidor
<1>2. suscriptions \in Seq(Fila) /\ f \in Fila
  <2>1. usuario.id \in Ids /\ usuario.patron \in Patrones
    BY <1>1, Formas DEF Inv
  <2>2. QED
    BY <2>1 DEF Inv, Tipado, Fila, Topes
<1>3. f.id = usuario.id /\ f.patron = usuario.patron /\ f.max = SinLimite
  OBVIOUS
<1> HIDE DEF f
<1>4. /\ Len(suscriptions) \in Nat /\ Len(r) = Len(suscriptions) + 1
      /\ \A j \in 1..Len(suscriptions) : r[j] = suscriptions[j]
      /\ r[Len(suscriptions) + 1] = f
  BY <1>2, AppendProperties, LenProperties
<1> HIDE DEF r
<1>5. usuario'.fase = "libre"
  BY <1>1 DEF Libre
<1>6. ASSUME NEW id \in Ids, NEW p \in Patrones, NEW m \in Topes
      PROVE  Futura(id, p, m)' <=> Futura(id, p, m)
  <2>1. Futura(id, p, m)' <=>
          \E i \in 1..Len(r) : r[i].id = id /\ r[i].patron = p /\ m = r[i].max
    BY <1>1, <1>5 DEF Futura, Quita
  <2>2. Futura(id, p, m) <=>
          \/ f.id = id /\ f.patron = p /\ m = f.max
          \/ \E i \in 1..Len(suscriptions) :
               suscriptions[i].id = id /\ suscriptions[i].patron = p /\ m = suscriptions[i].max
    BY <1>1, <1>3 DEF Futura, Quita
  <2>3. \A i \in 1..Len(r) : i \in 1..Len(suscriptions) \/ i = Len(suscriptions) + 1
    BY <1>4
  <2>4. \A i \in 1..Len(suscriptions) : i \in 1..Len(r)
    BY <1>4
  <2>5. Len(suscriptions) + 1 \in 1..Len(r)
    BY <1>4
  <2>6. QED
    BY <2>1, <2>2, <2>3, <2>4, <2>5, <1>4
<1>7. QED
  BY <1>1, <1>5, <1>6, CopiasTabla

(* The limit that UNSUB announced is set.                                  *)
LEMMA CopiasFijaLimite ==
  ASSUME Inv, Bien, Inv', FijaLimite
  PROVE  Bien'
<1> DEFINE x == Indice(usuario.id)
           r == [suscriptions EXCEPT ![x].max = usuario.max]
<1>1. /\ usuario.fase = "desuscribe" /\ usuario.max # SinLimite /\ usuario' = Libre
      /\ suscriptions' = r /\ x # 0
      /\ UNCHANGED <<sub_id, candado, oyente, desde, hacia, conexion, filas, publicadas,
                     enviadas, recibidas>>
  BY DEF FijaLimite, delServidor
<1>2. /\ suscriptions \in Seq(Fila) /\ Distintas(suscriptions) /\ usuario.max \in Topes
      /\ x \in 1..Len(suscriptions) /\ suscriptions[x].id = usuario.id
  BY <1>1, IndiceHalla, Formas DEF Inv, Tipado, EnTabla
<1> HIDE DEF x
<1>3. /\ r \in Seq(Fila) /\ IdsDe(r) = IdsDe(suscriptions)
      /\ \A j \in 1..Len(r) :
           /\ j \in 1..Len(suscriptions) /\ r[j].id = suscriptions[j].id
           /\ r[j].max = IF j = x THEN usuario.max ELSE suscriptions[j].max
  BY <1>2, ConTope
<1>4. Len(r) = Len(suscriptions) /\ \A j \in 1..Len(r) : r[j].patron = suscriptions[j].patron
  <2>1. suscriptions[x] \in Fila
    BY <1>2, ElementOfSeq
  <2>2. QED
    BY <2>1, <1>2 DEF Fila
<1> HIDE DEF r
<1>5. usuario'.fase = "libre"
  BY <1>1 DEF Libre
<1>6. ASSUME NEW id \in Ids, NEW p \in Patrones, NEW m \in Topes
      PROVE  Futura(id, p, m)' <=> Futura(id, p, m)
  <2>1. Futura(id, p, m)' <=>
          \E i \in 1..Len(r) : r[i].id = id /\ r[i].patron = p /\ m = r[i].max
    BY <1>1, <1>5 DEF Futura, Quita
  <2>2. Futura(id, p, m) <=>
          \E i \in 1..Len(suscriptions) :
            /\ suscriptions[i].id = id /\ suscriptions[i].patron = p
            /\ IF usuario.id = id THEN m = usuario.max ELSE m = suscriptions[i].max
    BY <1>1 DEF Futura, Quita
  <2>3. \A i \in 1..Len(suscriptions) : suscriptions[i].id = usuario.id <=> i = x
    BY <1>2 DEF Distintas
  <2>4. QED
    BY <2>1, <2>2, <2>3, <1>3, <1>4
<1>7. QED
  BY <1>1, <1>5, <1>6, CopiasTabla

(* The row that UNSUB announced is removed.                                *)
LEMMA CopiasQuitaFila ==
  ASSUME Inv, Bien, Inv', QuitaFila
  PROVE  Bien'
<1> DEFINE x == Indice(usuario.id)
           r == RemoveAt(suscriptions, x)
<1>1. /\ usuario.fase = "desuscribe" /\ usuario.max = SinLimite /\ usuario'.fase = "une"
      /\ suscriptions' = r /\ x # 0
      /\ UNCHANGED <<sub_id, candado, oyente, desde, hacia, conexion, filas, publicadas,
                     enviadas, recibidas>>
  BY DEF QuitaFila, delServidor, En
<1>2. /\ suscriptions \in Seq(Fila) /\ Distintas(suscriptions)
      /\ x \in 1..Len(suscriptions) /\ suscriptions[x].id = usuario.id
  BY <1>1, IndiceHalla DEF Inv, Tipado, EnTabla
<1> HIDE DEF x
<1>3. /\ Len(suscriptions) \in Nat /\ Len(r) = Len(suscriptions) - 1
      /\ \A j \in 1..(Len(suscriptions) - 1) :
           r[j] = IF j < x THEN suscriptions[j] ELSE suscriptions[j + 1]
  BY <1>2, Quitada
<1> HIDE DEF r
<1>4. \A j \in 1..Len(r) : \E k \in 1..Len(suscriptions) : k # x /\ r[j] = suscriptions[k]
  <2>1. SUFFICES ASSUME NEW j \in 1..Len(r)
                 PROVE  \E k \in 1..Len(suscriptions) : k # x /\ r[j] = suscriptions[k]
    OBVIOUS
  <2>2. CASE j < x
    BY <2>2, <1>3
  <2>3. CASE ~(j < x)
    BY <2>3, <1>2, <1>3
  <2>4. QED
    BY <2>2, <2>3
<1>5. \A k \in 1..Len(suscriptions) : k # x => \E j \in 1..Len(r) : r[j] = suscriptions[k]
  <2>1. SUFFICES ASSUME NEW k \in 1..Len(suscriptions), k # x
                 PROVE  \E j \in 1..Len(r) : r[j] = suscriptions[k]
    OBVIOUS
  <2>2. CASE k < x
    BY <2>2, <1>2, <1>3
  <2>3. CASE k > x
    <3>1. k - 1 \in 1..Len(r) /\ r[k - 1] = suscriptions[k]
      BY <2>3, <1>2, <1>3
    <3>2. QED
      BY <3>1
  <2>4. QED
    BY <2>1, <2>2, <2>3, <1>2, <1>3
<1>6. ASSUME NEW id \in Ids, NEW p \in Patrones, NEW m \in Topes
      PROVE  Futura(id, p, m)' <=> Futura(id, p, m)
  <2>1. Futura(id, p, m)' <=>
          \E i \in 1..Len(r) : r[i].id = id /\ r[i].patron = p /\ m = r[i].max
    BY <1>1 DEF Futura, Quita
  <2>2. Futura(id, p, m) <=>
          \E i \in 1..Len(suscriptions) :
            /\ suscriptions[i].id = id /\ suscriptions[i].patron = p
            /\ usuario.id # id /\ m = suscriptions[i].max
    BY <1>1 DEF Futura, Quita
  <2>3. \A i \in 1..Len(suscriptions) : suscriptions[i].id = usuario.id <=> i = x
    BY <1>2 DEF Distintas
  <2>4. ASSUME Futura(id, p, m)'
        PROVE  Futura(id, p, m)
    <3>1. PICK i \in 1..Len(r) : r[i].id = id /\ r[i].patron = p /\ m = r[i].max
      BY <2>1, <2>4
    <3>2. PICK k \in 1..Len(suscriptions) : k # x /\ r[i] = suscriptions[k]
      BY <1>4
    <3>3. QED
      BY <2>2, <2>3, <3>1, <3>2
  <2>5. ASSUME Futura(id, p, m)
        PROVE  Futura(id, p, m)'
    <3>1. PICK k \in 1..Len(suscriptions) :
            /\ suscriptions[k].id = id /\ suscriptions[k].patron = p
            /\ usuario.id # id /\ m = suscriptions[k].max
      BY <2>2, <2>5
    <3>2. PICK j \in 1..Len(r) : r[j] = suscriptions[k]
      BY <3>1, <2>3, <1>5
    <3>3. QED
      BY <2>1, <3>1, <3>2
  <2>6. QED
    BY <2>4, <2>5
<1>7. QED
  BY <1>1, <1>6, CopiasTabla

-----------------------------------------------------------------------------
(* A publication goes to every row that matches                            *)

(* With no command under way both tables have the same subscriptions.      *)
LEMMA TablaYFilas ==
  ASSUME Inv, Bien, Acuerdo, ~OrdenEnCurso
  PROVE  /\ \A id \in Ids, p \in Patrones, m \in Topes :
              Futura(id, p, m) <=>
                \E i \in 1..Len(suscriptions) :
                  /\ suscriptions[i].id = id /\ suscriptions[i].patron = p
                  /\ m = suscriptions[i].max
         /\ \A id : \A k \in 1..Len(hacia) : ~DeId(hacia[k], id)
         /\ \A i \in 1..Len(suscriptions) :
              /\ suscriptions[i].id \in Ids /\ suscriptions[i].max \in Topes
              /\ Cuadra(suscriptions[i].id, suscriptions[i].max)
              /\ \A f \in filas : f.id = suscriptions[i].id => f.patron = suscriptions[i].patron
         /\ \A f \in filas : \E i \in 1..Len(suscriptions) : suscriptions[i].id = f.id
<1>1. /\ usuario.fase \notin {"anota", "desuscribe"}
      /\ \A k \in 1..Len(hacia) : hacia[k].tipo \notin {"SUB", "UNSUB"}
      /\ suscriptions \in Seq(Fila)
  BY DEF OrdenEnCurso, Inv, Tipado
<1>2. \A id \in Ids, p \in Patrones, m \in Topes :
        Futura(id, p, m) <=>
          \E i \in 1..Len(suscriptions) :
            /\ suscriptions[i].id = id /\ suscriptions[i].patron = p
            /\ m = suscriptions[i].max
  BY <1>1 DEF Futura, Quita
<1>3. \A id : \A k \in 1..Len(hacia) : ~DeId(hacia[k], id)
  BY <1>1 DEF DeId
<1>4. ASSUME NEW i \in 1..Len(suscriptions)
      PROVE  /\ suscriptions[i].id \in Ids /\ suscriptions[i].max \in Topes
             /\ Cuadra(suscriptions[i].id, suscriptions[i].max)
             /\ \A f \in filas : f.id = suscriptions[i].id => f.patron = suscriptions[i].patron
  <2>1. suscriptions[i] \in Fila
    BY <1>1, ElementOfSeq
  <2>2. /\ suscriptions[i].id \in Ids /\ suscriptions[i].max \in Topes
        /\ suscriptions[i].patron \in Patrones
    BY <2>1 DEF Fila
  <2>3. Servida(suscriptions[i].id, suscriptions[i].patron, suscriptions[i].max)
    BY <2>2, <1>2 DEF Acuerdo
  <2>4. QED
    BY <2>2, <2>3, <1>3 DEF Servida
<1>5. ASSUME NEW f \in filas
      PROVE  \E i \in 1..Len(suscriptions) : suscriptions[i].id = f.id
  <2>1. f.id \in Ids
    BY DEF Bien, Red
  <2>2. SUFFICES ASSUME \A i \in 1..Len(suscriptions) : suscriptions[i].id # f.id
                 PROVE  FALSE
    OBVIOUS
  <2>3. Olvidada(f.id)
    BY <2>1, <2>2, <1>2 DEF Acuerdo
  <2>4. QED
    BY <2>3, <1>1 DEF Olvidada
<1>6. QED
  BY <1>2, <1>3, <1>4, <1>5

(* The rows of the server after a publication: each that got a copy has    *)
(* one less to get, and is gone after its last.                            *)
LEMMA FilasGastadas ==
  ASSUME filas \subseteq [id : Ids, patron : Patrones, max : Topes],
         \A f, g \in filas : f.id = g.id => f = g,
         NEW destinos \in SUBSET filas, \A f \in destinos : ~Agotada(f),
         filas' = (filas \ destinos) \cup {f \in {Gastada(g) : g \in destinos} : ~Agotada(f)}
  PROVE  /\ filas' \subseteq [id : Ids, patron : Patrones, max : Topes]
         /\ \A f, g \in filas' : f.id = g.id => f = g
         /\ \A f \in filas' : \E g \in filas : f.id = g.id /\ f.patron = g.patron
         /\ \A g \in filas \ destinos : g \in filas'
         /\ \A g \in destinos :
              IF g.max = SinLimite THEN g \in filas'
              ELSE /\ g.max[1] \in Nat \ {0}
                   /\ IF g.max[1] = 1 THEN \A f \in filas' : f.id # g.id
                      ELSE \E f \in filas' : f.id = g.id /\ f.max = <<g.max[1] - 1>>
<1>1. ASSUME NEW g \in destinos
      PROVE  /\ Gastada(g) \in [id : Ids, patron : Patrones, max : Topes]
             /\ Gastada(g).id = g.id /\ Gastada(g).patron = g.patron
             /\ IF g.max = SinLimite THEN Gastada(g) = g
                ELSE g.max[1] \in Nat \ {0} /\ Gastada(g).max = <<g.max[1] - 1>>
  <2>1. g \in [id : Ids, patron : Patrones, max : Topes]
    OBVIOUS
  <2>2. CASE g.max = SinLimite
    BY <2>1, <2>2 DEF Gastada
  <2>3. CASE g.max # SinLimite
    <3>1. g.max[1] \in Nat /\ g.max[1] # 0
      BY <2>1, <2>3, TopeNatural DEF Agotada
    <3>2. <<g.max[1] - 1>> \in Topes
      BY <3>1 DEF Topes
    <3>3. Gastada(g) = [g EXCEPT !.max = <<g.max[1] - 1>>]
      BY <2>1, <2>3 DEF Gastada
    <3>4. QED
      BY <2>1, <2>3, <3>1, <3>2, <3>3
  <2>4. QED
    BY <2>2, <2>3
<1>2. ASSUME NEW f \in filas'
      PROVE  \E g \in filas : /\ f.id = g.id /\ f.patron = g.patron
                              /\ IF g \in destinos THEN f = Gastada(g) /\ ~Agotada(f) ELSE f = g
  BY <1>1
<1>3. filas' \subseteq [id : Ids, patron : Patrones, max : Topes]
  BY <1>1
<1>4. \A f, g \in filas' : f.id = g.id => f = g
  BY <1>2
<1>5. ASSUME NEW g \in destinos
      PROVE  IF g.max = SinLimite THEN g \in filas'
             ELSE /\ g.max[1] \in Nat \ {0}
                  /\ IF g.max[1] = 1 THEN \A f \in filas' : f.id # g.id
                     ELSE \E f \in filas' : f.id = g.id /\ f.max = <<g.max[1] - 1>>
  <2>1. CASE g.max = SinLimite
    <3>1. Gastada(g) = g /\ ~Agotada(g)
      BY <2>1, <1>1
    <3>2. QED
      BY <2>1, <3>1
  <2>2. CASE g.max # SinLimite
    <3>1. g.max[1] \in Nat \ {0} /\ Gastada(g).max = <<g.max[1] - 1>> /\ Gastada(g).id = g.id
      BY <2>2, <1>1
    <3>2. ASSUME g.max[1] = 1
          PROVE  \A f \in filas' : f.id # g.id
      <4>1. Agotada(Gastada(g))
        <5>1. Gastada(g).max = <<0>>
          BY <3>1, <3>2
        <5>2. QED
          BY <5>1 DEF Agotada, SinLimite
      <4>2. QED
        BY <4>1, <1>2
    <3>3. ASSUME g.max[1] # 1
          PROVE  ~Agotada(Gastada(g))
      BY <3>1, <3>3 DEF Agotada
    <3>4. QED
      BY <2>2, <3>1, <3>2, <3>3
  <2>3. QED
    BY <2>1, <2>2
<1>6. QED
  BY <1>2, <1>3, <1>4, <1>5

(* As many ids as rows.                                                    *)
LEMMA Destinatarios ==
  ASSUME NEW destinos, \A f \in destinos : f.id \in Ids,
         \A f, g \in destinos : f.id = g.id => f = g
  PROVE  /\ Cardinality(destinos) \in Nat
         /\ Cardinality({f.id : f \in destinos}) = Cardinality(destinos)
<1> DEFINE ids == {f.id : f \in destinos}
           F == [f \in destinos |-> f.id]
<1>1. IsFiniteSet(ids)
  <2>1. IsFiniteSet(Ids)
    BY NatsClientAssumption, FS_Interval DEF Ids
  <2>2. QED
    BY <2>1, FS_Subset
<1>2. F \in Injection(destinos, ids) /\ F \in Surjection(destinos, ids)
  BY DEF Injection, Surjection, IsInjective
<1>3. QED
  BY <1>1, <1>2, FS_Injection, FS_CardinalityType

Destinos(tema) == {f \in filas : Coincide(f.patron, tema)}
Destinados(tema) == {f.id : f \in Destinos(tema)}

(* A publication, in the terms of the lemmas that follow.                  *)
LEMMA Publicando ==
  ASSUME Inv, Bien, ~cruce', NEW tema \in Temas, ServidorPublica(tema)
  PROVE  /\ ~OrdenEnCurso /\ Viva /\ Acuerdo
         /\ UNCHANGED <<usuario, sub_id, suscriptions, abierta, candado, oyente, hacia, conexion>>
         /\ publicadas' = publicadas + 1
         /\ desde' = desde \o [i \in 1..Cardinality(Destinos(tema)) |-> Msg(tema, publicadas + 1)]
         /\ \A f \in Destinos(tema) : ~Agotada(f)
         /\ filas' = (filas \ Destinos(tema))
                      \cup {f \in {Gastada(g) : g \in Destinos(tema)} : ~Agotada(f)}
         /\ recibidas' = recibidas
         /\ enviadas' = [i \in Ids |-> IF i \in Destinados(tema)
                                       THEN Append(enviadas[i], publicadas + 1) ELSE enviadas[i]]
<1>1. /\ ~OrdenEnCurso /\ Viva
      /\ UNCHANGED <<usuario, sub_id, suscriptions, abierta, candado, oyente, hacia, conexion>>
      /\ publicadas' = publicadas + 1
      /\ desde' = desde \o [i \in 1..Cardinality(Destinos(tema)) |-> Msg(tema, publicadas + 1)]
      /\ \A f \in Destinos(tema) : ~Agotada(f)
      /\ recibidas' = recibidas
  BY DEF ServidorPublica, Destinos, Habla, Viva, delUsuario
<1>2. filas' = (filas \ Destinos(tema))
                \cup {f \in {Gastada(g) : g \in Destinos(tema)} : ~Agotada(f)}
  BY DEF ServidorPublica, Destinos
<1>3. enviadas' = [i \in Ids |-> IF i \in Destinados(tema)
                                 THEN Append(enviadas[i], publicadas + 1) ELSE enviadas[i]]
  BY DEF ServidorPublica, Destinos, Destinados
<1>4. Acuerdo
  BY <1>1 DEF Bien
<1>5. QED
  BY <1>1, <1>2, <1>3, <1>4

(* What a publication does to each row, and to what it is owed.            *)
LEMMA PublicandoFilas ==
  ASSUME Inv, Bien, ~cruce', NEW tema \in Temas, ServidorPublica(tema)
  PROVE  /\ Destinados(tema) \subseteq Ids
         /\ Cardinality(Destinos(tema)) \in Nat
         /\ Cardinality(Destinados(tema)) = Cardinality(Destinos(tema))
         /\ Historias'
         /\ \A o \in Ids :
              /\ Tiene(o)' = Tiene(o)
              /\ Debe(o)' = IF o \in Destinados(tema) THEN Debe(o) \cup {publicadas + 1} ELSE Debe(o)
              /\ Faltan(o)' = IF o \in Destinados(tema) THEN Faltan(o) + 1 ELSE Faltan(o)
              /\ \A m \in Tiene(o) \cup Debe(o) : m <= publicadas
         /\ filas' \subseteq [id : Ids, patron : Patrones, max : Topes]
         /\ FilasUnicas'
         /\ \A f \in filas' : \E g \in filas : f.id = g.id /\ f.patron = g.patron
         /\ \A f \in filas : f.id \in Destinados(tema) <=> f \in Destinos(tema)
         /\ \A g \in filas \ Destinos(tema) : g \in filas'
         /\ \A g \in Destinos(tema) :
              IF g.max = SinLimite THEN g \in filas'
              ELSE /\ g.max[1] \in Nat \ {0}
                   /\ IF g.max[1] = 1 THEN \A f \in filas' : f.id # g.id
                      ELSE \E f \in filas' : f.id = g.id /\ f.max = <<g.max[1] - 1>>
<1>1. /\ Acuerdo /\ publicadas' = publicadas + 1 /\ recibidas' = recibidas
      /\ UNCHANGED <<hacia, sub_id>>
      /\ \A f \in Destinos(tema) : ~Agotada(f)
      /\ filas' = (filas \ Destinos(tema))
                   \cup {f \in {Gastada(g) : g \in Destinos(tema)} : ~Agotada(f)}
      /\ enviadas' = [i \in Ids |-> IF i \in Destinados(tema)
                                    THEN Append(enviadas[i], publicadas + 1) ELSE enviadas[i]]
  BY Publicando
<1>2. /\ filas \subseteq [id : Ids, patron : Patrones, max : Topes]
      /\ Historias /\ publicadas \in Nat /\ FilasUnicas
      /\ \A f, g \in filas : f.id = g.id => f = g
      /\ Destinos(tema) \subseteq filas
  BY <1>1 DEF Bien, Red, Acuerdo, FilasUnicas, Destinos
<1>3. /\ \A f \in Destinos(tema) : f.id \in Ids
      /\ \A f, g \in Destinos(tema) : f.id = g.id => f = g
  BY <1>2
<1>4. /\ Cardinality(Destinos(tema)) \in Nat
      /\ Cardinality(Destinados(tema)) = Cardinality(Destinos(tema))
  BY <1>3, Destinatarios DEF Destinados
<1>5. /\ Destinados(tema) \subseteq Ids
      /\ \A f \in filas : f.id \in Destinados(tema) <=> f \in Destinos(tema)
  BY <1>2, <1>3 DEF Destinados
<1>6. /\ Historias'
      /\ \A o \in Ids :
           /\ Tiene(o)' = Tiene(o)
           /\ Debe(o)' = IF o \in Destinados(tema) THEN Debe(o) \cup {publicadas + 1} ELSE Debe(o)
           /\ Faltan(o)' = IF o \in Destinados(tema) THEN Faltan(o) + 1 ELSE Faltan(o)
           /\ \A m \in Tiene(o) \cup Debe(o) : m <= publicadas
  BY <1>1, <1>2, Escrita
<1>7. /\ filas' \subseteq [id : Ids, patron : Patrones, max : Topes]
      /\ \A f, g \in filas' : f.id = g.id => f = g
      /\ \A f \in filas' : \E g \in filas : f.id = g.id /\ f.patron = g.patron
      /\ \A g \in filas \ Destinos(tema) : g \in filas'
      /\ \A g \in Destinos(tema) :
           IF g.max = SinLimite THEN g \in filas'
           ELSE /\ g.max[1] \in Nat \ {0}
                /\ IF g.max[1] = 1 THEN \A f \in filas' : f.id # g.id
                   ELSE \E f \in filas' : f.id = g.id /\ f.max = <<g.max[1] - 1>>
  BY <1>1, <1>2, FilasGastadas
<1>8. FilasUnicas'
  BY <1>1, <1>2, <1>7 DEF FilasUnicas
<1>9. QED
  BY <1>4, <1>5, <1>6, <1>7, <1>8

(* The two limits of a subscription are still the same.                    *)
LEMMA CuadraPublicada ==
  ASSUME Inv, Bien, ~cruce', NEW tema \in Temas, ServidorPublica(tema),
         NEW id \in Ids, NEW m \in Topes, Cuadra(id, m)
  PROVE  Cuadra(id, m)'
<1>1. /\ \A f \in filas' : \E g \in filas : f.id = g.id
      /\ \A f, g \in filas' : f.id = g.id => f = g
      /\ \A f \in filas : f.id \in Destinados(tema) <=> f \in Destinos(tema)
      /\ Faltan(id)' = IF id \in Destinados(tema) THEN Faltan(id) + 1 ELSE Faltan(id)
      /\ \A g \in filas \ Destinos(tema) : g \in filas'
      /\ \A g \in Destinos(tema) :
           IF g.max = SinLimite THEN g \in filas'
           ELSE /\ g.max[1] \in Nat \ {0}
                /\ IF g.max[1] = 1 THEN \A f \in filas' : f.id # g.id
                   ELSE \E f \in filas' : f.id = g.id /\ f.max = <<g.max[1] - 1>>
  BY PublicandoFilas DEF FilasUnicas
<1>2. Faltan(id) \in Nat
  BY Contada DEF Bien
<1>3. /\ m # SinLimite => m[1] \in Nat /\ m = <<m[1]>>
      /\ \A n \in Nat : <<n>> # SinLimite /\ <<n>>[1] = n
  BY TopeNatural DEF SinLimite
<1>4. CASE \E f \in filas :
             /\ f.id = id
             /\ f.max = SinLimite <=> m = SinLimite
             /\ m # SinLimite =>
                  m[1] = f.max[1] + Faltan(id) /\ (f.max[1] = 0 => Faltan(id) = 0)
  <2>1. PICK g \in filas :
             /\ g.id = id
             /\ g.max = SinLimite <=> m = SinLimite
             /\ m # SinLimite =>
                  m[1] = g.max[1] + Faltan(id) /\ (g.max[1] = 0 => Faltan(id) = 0)
    BY <1>4
  <2>2. CASE g \notin Destinos(tema)
    BY <2>1, <2>2, <1>1 DEF Cuadra
  <2>3. CASE g \in Destinos(tema) /\ m = SinLimite
    BY <2>1, <2>3, <1>1 DEF Cuadra
  <2>4. CASE g \in Destinos(tema) /\ m # SinLimite /\ g.max[1] = 1
    <3>1. Faltan(id)' = Faltan(id) + 1 /\ m[1] = Faltan(id) + 1
      BY <2>1, <2>4, <1>1, <1>2
    <3>2. \A f \in filas' : f.id # id
      BY <2>1, <2>4, <1>1
    <3>3. QED
      BY <2>4, <3>1, <3>2, <1>2, <1>3 DEF Cuadra
  <2>5. CASE g \in Destinos(tema) /\ m # SinLimite /\ g.max[1] # 1
    <3>1. g.max[1] \in Nat \ {0} /\ \E f \in filas' : f.id = id /\ f.max = <<g.max[1] - 1>>
      BY <2>1, <2>5, <1>1
    <3>2. PICK f \in filas' : f.id = id /\ f.max = <<g.max[1] - 1>>
      BY <3>1
    <3>3. f.max # SinLimite /\ f.max[1] = g.max[1] - 1 /\ f.max[1] # 0
      BY <2>5, <3>1, <3>2, <1>3
    <3>4. Faltan(id)' = Faltan(id) + 1
      BY <2>1, <2>5, <1>1
    <3>5. m[1] = f.max[1] + Faltan(id)'
      BY <2>1, <2>5, <3>1, <3>3, <3>4, <1>2
    <3>6. QED
      BY <2>5, <3>2, <3>3, <3>5 DEF Cuadra
  <2>6. QED
    BY <2>2, <2>3, <2>4, <2>5
<1>5. CASE (\A f \in filas : f.id # id) /\ Faltan(id) > 0 /\ m = <<Faltan(id)>>
  <2>1. id \notin Destinados(tema)
    BY <1>5 DEF Destinados, Destinos
  <2>2. QED
    BY <2>1, <1>1, <1>5 DEF Cuadra
<1>6. QED
  BY <1>4, <1>5 DEF Cuadra

(* Table and server agree after it: a copy less at the server is one more  *)
(* owed.                                                                   *)
LEMMA PublicaAcuerdo ==
  ASSUME Inv, Bien, ~cruce', NEW tema \in Temas, ServidorPublica(tema)
  PROVE  Acuerdo'
<1>1. /\ ~OrdenEnCurso /\ Acuerdo /\ UNCHANGED <<usuario, suscriptions, hacia>>
  BY Publicando
<1>2. /\ FilasUnicas'
      /\ \A f \in filas' : \E g \in filas : f.id = g.id /\ f.patron = g.patron
  BY PublicandoFilas
<1>3. \A id \in Ids, p \in Patrones, m \in Topes : Futura(id, p, m)' <=> Futura(id, p, m)
  BY <1>1, FuturaQuieta
<1>4. \A id : \A k \in 1..Len(hacia') : ~DeId(hacia'[k], id)
  BY <1>1, TablaYFilas
<1>5. ASSUME NEW id \in Ids, NEW p \in Patrones, NEW m \in Topes, Servida(id, p, m)
      PROVE  Servida(id, p, m)'
  <2>1. Cuadra(id, m)'
    BY <1>1, <1>4, <1>5, CuadraPublicada DEF Servida
  <2>2. \A f \in filas' : f.id = id => f.patron = p
    BY <1>2, <1>5 DEF Servida
  <2>3. QED
    BY <2>1, <2>2, <1>4 DEF Servida, EsUltima
<1>6. ASSUME NEW id \in Ids, Olvidada(id)
      PROVE  Olvidada(id)'
  BY <1>1, <1>2, <1>6 DEF Olvidada
<1>7. QED
  BY <1>1, <1>2, <1>3, <1>5, <1>6 DEF Acuerdo

(* A row that gets a publication, or has had all of its own.               *)
LEMMA TocaPublicada ==
  ASSUME Inv, Bien, ~cruce', NEW tema \in Temas, ServidorPublica(tema),
         NEW n, n = publicadas + 1, NEW s, s.id \in Ids, s.max \in Topes, Cuadra(s.id, s.max),
         \A f \in filas : f.id = s.id => f.patron = s.patron
  PROVE  /\ \A msg : Toca(s, msg) => Toca(s, msg)'
         /\ \A msg : (EsPara(s, tema) /\ msg.n = n) => Toca(s, msg)'
         /\ n \in Debe(s.id)' => EsPara(s, tema)
         /\ s.max # SinLimite => Faltan(s.id)' <= s.max[1]
<1>1. /\ \A f \in Destinos(tema) : ~Agotada(f)
      /\ \A o \in Ids :
           /\ Tiene(o)' = Tiene(o)
           /\ Debe(o)' = IF o \in Destinados(tema) THEN Debe(o) \cup {n} ELSE Debe(o)
           /\ Faltan(o)' = IF o \in Destinados(tema) THEN Faltan(o) + 1 ELSE Faltan(o)
           /\ \A m \in Tiene(o) \cup Debe(o) : m <= publicadas
      /\ \A f \in filas : f.id \in Destinados(tema) <=> f \in Destinos(tema)
      /\ \A g \in Destinos(tema) : g.max = SinLimite \/ g.max[1] \in Nat \ {0}
  BY Publicando, PublicandoFilas
<1>2. /\ Tiene(s.id)' = Tiene(s.id)
      /\ Debe(s.id)' = IF s.id \in Destinados(tema) THEN Debe(s.id) \cup {n} ELSE Debe(s.id)
      /\ Faltan(s.id)' = IF s.id \in Destinados(tema) THEN Faltan(s.id) + 1 ELSE Faltan(s.id)
      /\ \A m \in Tiene(s.id) \cup Debe(s.id) : m <= publicadas
  BY <1>1
<1>3. /\ publicadas \in Nat /\ Faltan(s.id) \in Nat
      /\ Debe(s.id) \subseteq Nat /\ Tiene(s.id) \subseteq Nat
      /\ filas \subseteq [id : Ids, patron : Patrones, max : Topes]
  BY Contada DEF Bien, Red
<1>4. CASE (\A f \in filas : f.id # s.id) /\ Faltan(s.id) > 0 /\ s.max = <<Faltan(s.id)>>
  <2>1. s.id \notin Destinados(tema)
    BY <1>4 DEF Destinados, Destinos
  <2>2. UNCHANGED <<Tiene(s.id), Debe(s.id), Faltan(s.id)>>
    BY <2>1, <1>2
  <2>3. \A m \in Debe(s.id)' : m < n
    BY <2>2, <1>2, <1>3
  <2>4. n \notin Debe(s.id)'
    BY <2>3, <2>2, <1>3
  <2>5. s.max[1] = Faltan(s.id)
    BY <1>4
  <2>6. QED
    BY <2>2, <2>3, <2>4, <2>5, <1>3, <1>4 DEF Toca
<1>5. ASSUME NEW f \in filas, f.id = s.id, f.max = SinLimite <=> s.max = SinLimite,
             s.max # SinLimite =>
               s.max[1] = f.max[1] + Faltan(s.id) /\ (f.max[1] = 0 => Faltan(s.id) = 0)
      PROVE  /\ \A msg : Toca(s, msg) => Toca(s, msg)'
             /\ \A msg : (EsPara(s, tema) /\ msg.n = n) => Toca(s, msg)'
             /\ n \in Debe(s.id)' => EsPara(s, tema)
             /\ s.max # SinLimite => Faltan(s.id)' <= s.max[1]
  <2>1. EsPara(s, tema) <=> s.id \in Destinados(tema)
    BY <1>1, <1>5 DEF Destinos, EsPara
  <2>2. n \in Debe(s.id)' <=> EsPara(s, tema)
    <3>1. n \notin Debe(s.id)
      BY <1>2, <1>3
    <3>2. QED
      BY <3>1, <2>1, <1>2
  <2>3. ASSUME s.max # SinLimite
        PROVE  s.max # <<Faltan(s.id)>> \/ Faltan(s.id) = 0
    <3>1. f.max[1] \in Nat /\ s.max[1] \in Nat
      BY <2>3, <1>3, <1>5, TopeNatural
    <3>2. s.max = <<Faltan(s.id)>> => s.max[1] = Faltan(s.id)
      OBVIOUS
    <3>3. QED
      BY <3>1, <3>2, <2>3, <1>3, <1>5
  <2>4. s.max = <<Faltan(s.id)>> => s.max # SinLimite
    BY DEF SinLimite
  <2>5. ASSUME NEW msg, Toca(s, msg)
        PROVE  Toca(s, msg)'
    <3>1. msg.n \in Debe(s.id) \cup Tiene(s.id)
      BY <2>3, <2>4, <2>5, <1>3 DEF Toca
    <3>2. QED
      BY <3>1, <1>2 DEF Toca
  <2>6. ASSUME s.max # SinLimite
        PROVE  Faltan(s.id)' <= s.max[1]
    <3>1. f.max[1] \in Nat
      BY <2>6, <1>3, <1>5, TopeNatural
    <3>2. s.id \in Destinados(tema) => f.max[1] # 0
      BY <2>6, <1>1, <1>5
    <3>3. QED
      BY <3>1, <3>2, <2>6, <1>2, <1>3, <1>5
  <2>7. QED
    BY <2>2, <2>5, <2>6 DEF Toca
<1>6. QED
  BY <1>4, <1>5 DEF Cuadra

(* As many copies as rows that are owed one.                               *)
LEMMA PublicaCuentas ==
  ASSUME Inv, Bien, ~cruce', NEW tema \in Temas, ServidorPublica(tema)
  PROVE  /\ desde' \in Seq(Escritos)
         /\ \A k \in 1..Len(desde') : EsMensaje(desde'[k]) =>
              \/ k \in 1..Len(desde) /\ desde'[k] = desde[k] /\ desde[k].n <= publicadas
              \/ desde'[k] = Msg(tema, publicadas + 1) /\ k > Len(desde)
         /\ Cuentas'
<1> DEFINE c == Cardinality(Destinos(tema))
<1>0. PICK n : n = publicadas + 1
  OBVIOUS
<1> DEFINE a == Msg(tema, n)
<1>1. /\ desde' = desde \o [i \in 1..c |-> a]
      /\ c \in Nat /\ Destinados(tema) \subseteq Ids /\ Cardinality(Destinados(tema)) = c
      /\ \A o \in Ids :
           /\ Debe(o)' = IF o \in Destinados(tema) THEN Debe(o) \cup {n} ELSE Debe(o)
           /\ \A m \in Tiene(o) \cup Debe(o) : m <= publicadas
  BY <1>0, Publicando, PublicandoFilas
<1>2. /\ desde \in Seq(Escritos) /\ publicadas \in Nat
      /\ \A k \in 1..Len(desde) : EsMensaje(desde[k]) => desde[k].n <= publicadas
      /\ Cuentas
  BY DEF Bien, Red, Reparto, Caminos, EnCamino
<1>3. a \in Escritos /\ EsMensaje(a) /\ a.n = n
  BY <1>0, <1>2 DEF Msg, Escritos, EsMensaje
<1> HIDE DEF a, c
<1>4. /\ \A k \in 1..Len(desde) : EsMensaje(desde[k]) => desde[k].n # a.n
      /\ n \in Nat /\ n > publicadas
  <2>1. ASSUME NEW k \in 1..Len(desde), EsMensaje(desde[k])
        PROVE  desde[k].n \in Nat
    BY <2>1, <1>2, ElementOfSeq, EscritosFormas
  <2>2. QED
    BY <2>1, <1>0, <1>2, <1>3
<1>5. /\ desde' \in Seq(Escritos) /\ Len(desde) \in Nat /\ Len(desde') = Len(desde) + c
      /\ \A k \in 1..Len(desde') :
           IF k <= Len(desde) THEN k \in 1..Len(desde) /\ desde'[k] = desde[k] ELSE desde'[k] = a
      /\ Cardinality(CopiasDe(desde', n)) = c
      /\ \A m : m # n => CopiasDe(desde', m) = CopiasDe(desde, m)
  <2> DEFINE r == desde \o [i \in 1..c |-> a]
  <2>1. /\ r \in Seq(Escritos) /\ Len(desde) \in Nat /\ Len(r) = Len(desde) + c
        /\ \A k \in 1..Len(r) :
             IF k <= Len(desde) THEN k \in 1..Len(desde) /\ r[k] = desde[k] ELSE r[k] = a
        /\ Cardinality(CopiasDe(r, a.n)) = c
        /\ \A m : m # a.n => CopiasDe(r, m) = CopiasDe(desde, m)
    BY <1>1, <1>2, <1>3, <1>4, Publicada
  <2> HIDE DEF r
  <2>2. desde' = r
    BY <1>1 DEF r
  <2>3. QED
    BY <2>1, <2>2, <1>3
<1>6. \A m : Deudores(m)' = {id \in Ids : m \in Debe(id)'}
  BY DEF Deudores
<1>7. \A o \in Ids : n \notin Debe(o)
  BY <1>1, <1>2, <1>4
<1>8. Deudores(n)' = Destinados(tema)
  BY <1>1, <1>6, <1>7
<1>9. \A m : m # n => Deudores(m)' = Deudores(m)
  BY <1>1, <1>6 DEF Deudores
<1>10. Cuentas'
  <2>1. SUFFICES ASSUME NEW m \in Nat
                 PROVE  Cardinality(CopiasDe(desde', m)) = Cardinality(Deudores(m)')
    BY DEF Cuentas, CopiasDe
  <2>2. CASE m = n
    BY <2>2, <1>1, <1>5, <1>8
  <2>3. CASE m # n
    BY <2>3, <1>2, <1>5, <1>9 DEF Cuentas
  <2>4. QED
    BY <2>2, <2>3
<1>11. \A k \in 1..Len(desde') : EsMensaje(desde'[k]) =>
         \/ k \in 1..Len(desde) /\ desde'[k] = desde[k] /\ desde[k].n <= publicadas
         \/ desde'[k] = a /\ k > Len(desde)
  BY <1>2, <1>5
<1>12. QED
  BY <1>0, <1>5, <1>10, <1>11 DEF a

(* Each copy has its row: the table of the client matches the rows of the  *)
(* server.                                                                 *)
LEMMA PublicaReparto ==
  ASSUME Inv, Bien, ~cruce', NEW tema \in Temas, ServidorPublica(tema)
  PROVE  Reparto'
<1>0. PICK n : n = publicadas + 1
  OBVIOUS
<1>1. /\ UNCHANGED <<suscriptions, abierta>> /\ publicadas' = n
      /\ ~OrdenEnCurso /\ Acuerdo
  BY <1>0, Publicando
<1>2. /\ \A o \in Ids :
           /\ Tiene(o)' = Tiene(o)
           /\ Debe(o)' = IF o \in Destinados(tema) THEN Debe(o) \cup {n} ELSE Debe(o)
           /\ \A m \in Tiene(o) \cup Debe(o) : m <= publicadas
      /\ publicadas \in Nat
  BY <1>0, PublicandoFilas DEF Bien, Red
<1>3. /\ desde' \in Seq(Escritos)
      /\ \A k \in 1..Len(desde') : EsMensaje(desde'[k]) =>
           \/ k \in 1..Len(desde) /\ desde'[k] = desde[k] /\ desde[k].n <= publicadas
           \/ desde'[k] = Msg(tema, n) /\ k > Len(desde)
      /\ Cuentas'
  BY <1>0, PublicaCuentas
<1>4. /\ SinDeuda /\ Caminos /\ EnOrden /\ Turnos
      /\ \A o \in Ids : Debe(o) \subseteq Nat /\ Tiene(o) \subseteq Nat
      /\ desde \in Seq(Escritos) /\ Len(desde) \in Nat
  BY Contada, LenProperties DEF Bien, Reparto, Red
<1>5. Msg(tema, n).n = n /\ Msg(tema, n).tema = tema
  BY DEF Msg
<1>6. ASSUME NEW i \in 1..Len(suscriptions), NEW s, s = suscriptions[i]
      PROVE  /\ s.id \in Ids
             /\ \A msg : Toca(s, msg) => Toca(s, msg)'
             /\ \A msg : (EsPara(s, tema) /\ msg.n = n) => Toca(s, msg)'
             /\ n \in Debe(s.id)' => EsPara(s, tema)
             /\ s.max # SinLimite => Faltan(s.id)' <= s.max[1]
  BY <1>0, <1>1, <1>6, TablaYFilas, TocaPublicada
<1>7. SinDeuda'
  <2>1. ASSUME NEW id \in Ids, id \notin abierta
        PROVE  Debe(id)' = {}
    <3>1. \A i \in 1..Len(suscriptions) : suscriptions[i].id # id
      BY <2>1 DEF Inv, EnTabla, IdsDe
    <3>2. id \notin Destinados(tema)
      BY <3>1, <1>1, TablaYFilas DEF Destinados, Destinos
    <3>3. QED
      BY <3>2, <2>1, <1>2, <1>4 DEF SinDeuda
  <2>2. ASSUME NEW i \in 1..Len(suscriptions), NEW s, s = suscriptions[i], s.max # SinLimite
        PROVE  Faltan(s.id)' <= s.max[1]
    BY <2>2, <1>6
  <2>3. QED
    BY <2>1, <2>2, <1>1 DEF SinDeuda, Faltan
<1>8. ASSUME NEW msg, EnCamino(msg), msg.n <= publicadas, msg.n \in Nat
      PROVE  EnCamino(msg)'
  <2>1. msg.n <= publicadas'
    BY <1>0, <1>1, <1>2, <1>8
  <2>2. \A id \in Ids : \A m \in Tiene(id)' : m <= msg.n
    BY <1>2, <1>8 DEF EnCamino
  <2>3. msg.n # n
    BY <1>0, <1>2, <1>8
  <2>4. ASSUME NEW i \in 1..Len(suscriptions), NEW s, s = suscriptions[i]
        PROVE  /\ EsPara(s, msg.tema) => Toca(s, msg)'
               /\ msg.n \in Debe(s.id)' => EsPara(s, msg.tema)
    <3>1. /\ s.id \in Ids /\ (Toca(s, msg) => Toca(s, msg)')
          /\ EsPara(s, msg.tema) => Toca(s, msg)
          /\ msg.n \in Debe(s.id) => EsPara(s, msg.tema)
      BY <2>4, <1>6, <1>8 DEF EnCamino
    <3>2. msg.n \in Debe(s.id)' => msg.n \in Debe(s.id)
      BY <3>1, <2>3, <1>2
    <3>3. QED
      BY <3>1, <3>2
  <2>5. QED
    BY <2>1, <2>2, <2>4, <1>1 DEF EnCamino, EsPara, Toca, Debe, Tiene, Faltan
<1>9. ASSUME NEW msg, msg = Msg(tema, n)
      PROVE  EnCamino(msg)'
  <2>1. msg.n = n /\ msg.tema = tema
    BY <1>5, <1>9
  <2>2. \A id \in Ids : \A m \in Tiene(id)' : m <= msg.n
    BY <2>1, <1>0, <1>2, <1>4
  <2>3. msg.n <= publicadas'
    BY <2>1, <1>0, <1>1, <1>2
  <2>4. ASSUME NEW i \in 1..Len(suscriptions), NEW s, s = suscriptions[i]
        PROVE  /\ EsPara(s, msg.tema) => Toca(s, msg)'
               /\ msg.n \in Debe(s.id)' => EsPara(s, msg.tema)
    BY <2>1, <2>4, <1>6
  <2>5. QED
    BY <2>2, <2>3, <2>4, <1>1 DEF EnCamino, EsPara, Toca, Debe, Tiene, Faltan
<1>10. Caminos'
  <2>1. SUFFICES ASSUME NEW k \in 1..Len(desde'), EsMensaje(desde'[k])
                 PROVE  EnCamino(desde[k])'
    BY DEF Caminos
  <2>2. ASSUME NEW msg, msg = desde'[k]
        PROVE  EnCamino(msg)'
    <3>1. CASE k \in 1..Len(desde) /\ desde'[k] = desde[k] /\ desde[k].n <= publicadas
      <4>1. EnCamino(desde[k]) /\ desde[k] \in Escritos /\ EsMensaje(desde[k])
        BY <3>1, <2>1, <1>4, ElementOfSeq DEF Caminos
      <4>2. desde[k].n \in Nat
        BY <4>1, EscritosFormas
      <4>3. QED
        BY <4>1, <4>2, <3>1, <2>2, <1>8
    <3>2. CASE desde'[k] = Msg(tema, n)
      BY <3>2, <2>2, <1>9
    <3>3. QED
      BY <3>1, <3>2, <2>1, <1>3
  <2>3. QED
    BY <2>2 DEF EnCamino, Toca
<1>11. EnOrden'
  <2>1. SUFFICES ASSUME NEW j \in 1..Len(desde'), NEW k \in 1..Len(desde'),
                        j < k, EsMensaje(desde'[j]), EsMensaje(desde'[k])
                 PROVE  desde'[j].n <= desde'[k].n
    BY DEF EnOrden
  <2>2. CASE k \in 1..Len(desde) /\ desde'[k] = desde[k]
    <3>1. j \in 1..Len(desde) /\ desde'[j] = desde[j]
      BY <2>1, <2>2, <1>3, <1>4
    <3>2. QED
      BY <3>1, <2>1, <2>2, <1>4 DEF EnOrden
  <2>3. CASE desde'[k] = Msg(tema, n)
    <3>1. CASE j \in 1..Len(desde) /\ desde'[j] = desde[j] /\ desde[j].n <= publicadas
      <4>1. desde[j] \in Escritos /\ EsMensaje(desde[j])
        BY <3>1, <2>1, <1>4, ElementOfSeq
      <4>2. desde[j].n \in Nat
        BY <4>1, EscritosFormas
      <4>3. QED
        BY <4>2, <3>1, <2>3, <1>0, <1>2, <1>5
    <3>2. CASE desde'[j] = Msg(tema, n)
      BY <3>2, <2>3, <1>0, <1>2, <1>5
    <3>3. QED
      BY <3>1, <3>2, <2>1, <1>3
  <2>4. QED
    BY <2>1, <2>2, <2>3, <1>3
<1>12. Turnos'
  <2>1. ASSUME NEW a \in Ids, NEW b \in Ids, Tiene(a) \cap Debe(b) = {}
        PROVE  Tiene(a)' \cap Debe(b)' = {}
    <3>1. n \notin Tiene(a)
      BY <1>0, <1>2, <1>4
    <3>2. QED
      BY <2>1, <3>1, <1>2
  <2>2. ASSUME NEW i \in 1..Len(suscriptions), NEW j \in 1..Len(suscriptions), i < j,
               NEW a, a = suscriptions[i].id, NEW b, b = suscriptions[j].id
        PROVE  Tiene(a)' \cap Debe(b)' = {}
    <3>1. a \in Ids /\ b \in Ids
      BY <2>2, <1>6
    <3>2. Tiene(a) \cap Debe(b) = {}
      BY <2>2, <1>4 DEF Turnos
    <3>3. QED
      BY <2>1, <3>1, <3>2
  <2>3. ASSUME NEW i \in 1..Len(suscriptions'), NEW j \in 1..Len(suscriptions'), i < j
        PROVE  Tiene(suscriptions[i].id)' \cap Debe(suscriptions[j].id)' = {}
    <3>1. PICK a, b : a = suscriptions[i].id /\ b = suscriptions[j].id
      OBVIOUS
    <3>2. Tiene(a)' \cap Debe(b)' = {}
      BY <2>2, <2>3, <3>1, <1>1
    <3>3. a = suscriptions'[i].id /\ b = suscriptions'[j].id
      BY <3>1, <1>1
    <3>4. QED
      BY <3>2, <3>3 DEF Tiene, Debe
  <2>4. QED
    BY <2>3 DEF Turnos
<1>13. QED
  BY <1>3, <1>7, <1>10, <1>11, <1>12 DEF Reparto

(* A publication, for the whole invariant.                                 *)
LEMMA CopiasPublica ==
  ASSUME Inv, Bien, ~cruce', NEW tema \in Temas, ServidorPublica(tema)
  PROVE  Bien'
<1>1. /\ ~OrdenEnCurso
      /\ UNCHANGED <<usuario, hacia, candado>> /\ publicadas' = publicadas + 1
  BY Publicando
<1>2. /\ Historias' /\ filas' \subseteq [id : Ids, patron : Patrones, max : Topes]
      /\ desde' \in Seq(Escritos)
  BY PublicandoFilas, PublicaCuentas
<1>3. Red'
  BY <1>1, <1>2 DEF Red, Bien
<1>4. Calma'
  BY <1>1 DEF Calma, OrdenEnCurso
<1>5. QED
  BY <1>2, <1>3, <1>4, PublicaReparto, PublicaAcuerdo DEF Bien

-----------------------------------------------------------------------------
(* The listening thread deals with a message                               *)

(* What is owed is on the way, and what is on the way is owed.             *)
LEMMA DebidoEnCamino ==
  ASSUME Red, Cuentas, NEW n \in Nat
  PROVE  (\E id \in Ids : n \in Debe(id))
           <=> \E k \in 1..Len(desde) : EsMensaje(desde[k]) /\ desde[k].n = n
<1>1. /\ IsFiniteSet(CopiasDe(desde, n)) /\ IsFiniteSet(Deudores(n))
      /\ Cardinality(CopiasDe(desde, n)) = Cardinality(Deudores(n))
  BY Finitas DEF Red, Cuentas
<1>2. CopiasDe(desde, n) = {} <=> Deudores(n) = {}
  BY <1>1, FS_EmptySet
<1>3. QED
  BY <1>2 DEF CopiasDe, Deudores

(* The row that the listening thread picks by subject is owed the message, *)
(* and nothing before it.                                                  *)
LEMMA CabezaDebida ==
  ASSUME Inv, Bien, NEW msg, desde # << >>, msg = Head(desde), EsMensaje(msg)
  PROVE  /\ Primera(msg.tema) \in 1..Len(suscriptions)
         /\ msg.n \in Debe(suscriptions[Primera(msg.tema)].id)
         /\ \A m \in Debe(suscriptions[Primera(msg.tema)].id) : msg.n <= m
<1> DEFINE i == Primera(msg.tema)
<1>1. /\ Red /\ Historias /\ SinDeuda /\ Caminos /\ EnOrden /\ Cuentas /\ Turnos
      /\ suscriptions \in Seq(Fila) /\ abierta = IdsDe(suscriptions)
  BY DEF Bien, Reparto, Inv, Tipado, EnTabla
<1>2. desde \in Seq(Escritos) /\ Len(desde) \in Nat /\ 1 \in 1..Len(desde) /\ desde[1] = msg
  BY <1>1, Leida DEF Red
<1>3. msg \in Escritos /\ msg.n \in Nat /\ EnCamino(msg)
  <2>1. msg \in Escritos /\ EnCamino(msg)
    BY <1>1, <1>2, ElementOfSeq DEF Caminos
  <2>2. QED
    BY <2>1, EscritosFormas
<1>4. \A j \in 1..Len(suscriptions) : suscriptions[j].id \in Ids
  <2>1. \A j \in 1..Len(suscriptions) : suscriptions[j] \in Fila
    BY <1>1, ElementOfSeq
  <2>2. QED
    BY <2>1 DEF Fila
<1>5. PICK id \in Ids : msg.n \in Debe(id)
  BY <1>1, <1>2, <1>3, DebidoEnCamino
<1>6. PICK j \in 1..Len(suscriptions) : suscriptions[j].id = id
  BY <1>1, <1>5 DEF SinDeuda, IdsDe
<1>7. EsPara(suscriptions[j], msg.tema)
  BY <1>3, <1>5, <1>6 DEF EnCamino
<1>8. /\ i \in 1..Len(suscriptions) /\ EsPara(suscriptions[i], msg.tema)
      /\ ~(j < i)
  BY <1>1, <1>7, PrimeraEs
<1> HIDE DEF i
<1>9. ASSUME NEW m \in Debe(suscriptions[i].id)
      PROVE  msg.n <= m
  <2>1. m \in Nat
    BY <1>1, <1>4, <1>8, Contada
  <2>2. PICK k \in 1..Len(desde) : EsMensaje(desde[k]) /\ desde[k].n = m
    BY <2>1, <1>1, <1>4, <1>8, DebidoEnCamino
  <2>3. CASE k = 1
    BY <2>2, <2>3, <1>2, <1>3
  <2>4. CASE k # 1
    BY <2>2, <2>4, <1>1, <1>2 DEF EnOrden
  <2>5. QED
    BY <2>3, <2>4
<1>10. msg.n \in Debe(suscriptions[i].id)
  <2>1. Toca(suscriptions[i], msg)
    BY <1>3, <1>8 DEF EnCamino
  <2>2. CASE msg.n \in Debe(suscriptions[i].id)
    BY <2>2
  <2>3. CASE msg.n \in Tiene(suscriptions[i].id)
    <3>1. ~(i < j)
      BY <2>3, <1>1, <1>5, <1>6, <1>8 DEF Turnos
    <3>2. i = j
      BY <3>1, <1>1, <1>8, LenProperties
    <3>3. QED
      BY <3>2, <1>5, <1>6
  <2>4. CASE Faltan(suscriptions[i].id) > 0 /\ \A m \in Debe(suscriptions[i].id) : m < msg.n
    <3>1. Debe(suscriptions[i].id) # {} /\ Debe(suscriptions[i].id) \subseteq Nat
      BY <2>4, <1>1, <1>4, <1>8, Contada
    <3>2. PICK m \in Debe(suscriptions[i].id) : TRUE
      BY <3>1
    <3>3. m \in Nat /\ m < msg.n /\ msg.n <= m
      BY <3>1, <3>2, <2>4, <1>9
    <3>4. QED
      BY <3>3, <1>3
  <2>5. QED
    BY <2>1, <2>2, <2>3, <2>4 DEF Toca
<1>11. QED
  BY <1>8, <1>9, <1>10 DEF i

(* Row i, which is s, gets msg, and goes to the end of the table, or       *)
(* leaves it with its last message.                                        *)
Entrega(msg, i, s) ==
  /\ RecibeMensaje
  /\ msg = Head(desde) /\ i = Primera(msg.tema) /\ s = suscriptions[i]
  /\ recibidas' = [recibidas EXCEPT ![s.id] = Append(@, msg.n)]
  /\ EscribePub \/ UNCHANGED hacia
  /\ \/ /\ ~Ultimo(s)
        /\ suscriptions' = Append(RemoveAt(suscriptions, i), Gastada(s))
        /\ UNCHANGED <<abierta, candado, oyente>>
     \/ /\ Ultimo(s)
        /\ suscriptions' = RemoveAt(suscriptions, i)
        /\ abierta' = abierta \ {s.id}
        /\ candado' = "oyente" /\ oyente' = En("une", s.id)
  /\ UNCHANGED <<usuario, sub_id, conexion, filas, publicadas, enviadas, cruce>>

LEMMA Recibida ==
  ASSUME RecibeMensaje
  PROVE  /\ desde # << >> /\ EsMensaje(Head(desde)) /\ desde' = Tail(desde)
         /\ oyente = Lee /\ candado = "libre"
  BY DEF RecibeMensaje, LeeMsg, LeeHmsg, OyenteRecibe, EsMensaje

(* The row, and its limit.                                                 *)
LEMMA EntregaFila ==
  ASSUME Inv, Bien, NEW msg, NEW i, NEW s, Entrega(msg, i, s)
  PROVE  /\ msg \in Escritos /\ msg.n \in Nat /\ EnCamino(msg) /\ EsMensaje(msg)
         /\ i \in 1..Len(suscriptions) /\ s = suscriptions[i]
         /\ s \in Fila /\ s.id \in Ids /\ s.id \in abierta
         /\ \A k \in 1..Len(suscriptions) : k # i => suscriptions[k].id # s.id
         /\ msg.n \in Debe(s.id) /\ \A m \in Debe(s.id) : msg.n <= m
         /\ Faltan(s.id) \in Nat \ {0}
         /\ Gastada(s).id = s.id /\ Gastada(s).patron = s.patron
         /\ IF s.max = SinLimite THEN Gastada(s).max = SinLimite
            ELSE /\ s.max[1] \in Nat /\ Faltan(s.id) <= s.max[1] /\ s.max = <<s.max[1]>>
                 /\ Gastada(s).max = <<s.max[1] - 1>>
                 /\ Gastada(s).max # SinLimite /\ Gastada(s).max[1] = s.max[1] - 1
                 /\ Ultimo(s) <=> s.max[1] = 1
<1>1. /\ desde # << >> /\ EsMensaje(msg) /\ msg = Head(desde)
      /\ i = Primera(msg.tema) /\ s = suscriptions[i]
  BY Recibida DEF Entrega
<1>2. /\ i \in 1..Len(suscriptions)
      /\ msg.n \in Debe(s.id) /\ \A m \in Debe(s.id) : msg.n <= m
  BY <1>1, CabezaDebida
<1>3. /\ desde \in Seq(Escritos) /\ Historias /\ Caminos /\ SinDeuda
      /\ suscriptions \in Seq(Fila) /\ abierta = IdsDe(suscriptions) /\ Distintas(suscriptions)
  BY DEF Bien, Red, Reparto, Inv, Tipado, EnTabla
<1>4. msg \in Escritos /\ EnCamino(msg)
  <2>1. 1 \in 1..Len(desde) /\ desde[1] = msg
    BY <1>1, <1>3, Leida
  <2>2. QED
    BY <2>1, <1>1, <1>3, ElementOfSeq DEF Caminos
<1>5. msg.n \in Nat
  BY <1>1, <1>4, EscritosFormas
<1>6. s \in Fila
  BY <1>1, <1>2, <1>3, ElementOfSeq
<1>7. /\ s.id \in Ids /\ s.id \in abierta /\ s.max \in Topes
      /\ \A k \in 1..Len(suscriptions) : k # i => suscriptions[k].id # s.id
  BY <1>1, <1>2, <1>3, <1>6 DEF Fila, IdsDe, Distintas
<1>8. Faltan(s.id) \in Nat \ {0}
  BY <1>2, <1>3, <1>7, Contada
<1>9. CASE s.max = SinLimite
  BY <1>1, <1>2, <1>4, <1>5, <1>6, <1>7, <1>8, <1>9 DEF Gastada
<1>10. CASE s.max # SinLimite
  <2>1. s.max[1] \in Nat /\ s.max = <<s.max[1]>> /\ Faltan(s.id) <= s.max[1]
    BY <1>1, <1>2, <1>3, <1>7, <1>10, TopeNatural DEF SinDeuda
  <2>2. Gastada(s) = [s EXCEPT !.max = <<s.max[1] - 1>>]
    BY <1>6, <1>10 DEF Gastada, Fila
  <2>3. /\ Gastada(s).id = s.id /\ Gastada(s).patron = s.patron
        /\ Gastada(s).max = <<s.max[1] - 1>>
    BY <2>2, <1>6 DEF Fila
  <2>4. Gastada(s).max # SinLimite /\ Gastada(s).max[1] = s.max[1] - 1
    BY <2>3 DEF SinLimite
  <2>5. Ultimo(s) <=> s.max[1] = 1
    BY <1>10 DEF Ultimo
  <2>6. QED
    BY <2>1, <2>3, <2>4, <2>5, <1>1, <1>2, <1>4, <1>5, <1>6, <1>7, <1>8, <1>10
<1>11. QED
  BY <1>9, <1>10

(* The table after it.                                                     *)
LEMMA EntregaTabla ==
  ASSUME Inv, Bien, NEW msg, NEW i, NEW s, Entrega(msg, i, s)
  PROVE  /\ \A a \in 1..Len(suscriptions') :
              \/ ~Ultimo(s) /\ a = Len(suscriptions') /\ suscriptions'[a] = Gastada(s)
              \/ \E k \in 1..Len(suscriptions) : k # i /\ suscriptions'[a] = suscriptions[k]
         /\ \A a, b \in 1..Len(suscriptions') : a < b =>
              \E k \in 1..Len(suscriptions) :
                /\ k # i /\ suscriptions'[a] = suscriptions[k]
                /\ \/ suscriptions'[b] = Gastada(s)
                   \/ \E l \in 1..Len(suscriptions) :
                        k < l /\ l # i /\ suscriptions'[b] = suscriptions[l]
         /\ \A k \in 1..Len(suscriptions) : k # i =>
              \E a \in 1..Len(suscriptions') : suscriptions'[a] = suscriptions[k]
         /\ ~Ultimo(s) => \E a \in 1..Len(suscriptions') : suscriptions'[a] = Gastada(s)
<1> DEFINE L == Len(suscriptions)
           r == RemoveAt(suscriptions, i)
           g == Gastada(s)
<1>1. i \in 1..L /\ suscriptions \in Seq(Fila)
  BY EntregaFila DEF Inv, Tipado
<1>2. /\ L \in Nat /\ r \in Seq(Fila) /\ Len(r) = L - 1
      /\ \A j \in 1..(L - 1) : r[j] = IF j < i THEN suscriptions[j] ELSE suscriptions[j + 1]
  BY <1>1, Quitada
<1>3. \/ ~Ultimo(s) /\ suscriptions' = Append(r, g)
      \/ Ultimo(s) /\ suscriptions' = r
  BY DEF Entrega
<1> HIDE DEF r, g
<1>4. Ultimo(s) => Len(suscriptions') = L - 1 /\ \A j \in 1..(L - 1) : suscriptions'[j] = r[j]
  BY <1>2, <1>3
<1>5. ~Ultimo(s) => /\ Len(suscriptions') = L /\ suscriptions'[L] = g
                    /\ \A j \in 1..(L - 1) : suscriptions'[j] = r[j]
  <2>1. /\ Len(Append(r, g)) = Len(r) + 1
        /\ \A j \in 1..Len(r) : Append(r, g)[j] = r[j]
        /\ Append(r, g)[Len(r) + 1] = g
    <3>1. r \in Seq(Fila \cup {g}) /\ g \in Fila \cup {g}
      BY <1>2
    <3>2. QED
      BY <3>1, AppendProperties
  <2>2. QED
    BY <2>1, <1>2, <1>3
<1> DEFINE de(j) == IF j < i THEN j ELSE j + 1
<1>6. \A j \in 1..(L - 1) :
        /\ de(j) \in 1..L /\ de(j) # i /\ suscriptions'[j] = suscriptions[de(j)]
        /\ j \in 1..Len(suscriptions')
  BY <1>1, <1>2, <1>4, <1>5
<1>7. \A j, k \in 1..(L - 1) : j < k => de(j) < de(k)
  BY <1>1, <1>2
<1>8. \A k \in 1..L : k # i => \E j \in 1..(L - 1) : de(j) = k
  <2>1. SUFFICES ASSUME NEW k \in 1..L, k # i
                 PROVE  \E j \in 1..(L - 1) : de(j) = k
    OBVIOUS
  <2>2. CASE k < i
    BY <2>1, <2>2, <1>1, <1>2
  <2>3. CASE k > i
    <3>1. k - 1 \in 1..(L - 1) /\ de(k - 1) = k
      BY <2>1, <2>3, <1>1, <1>2
    <3>2. QED
      BY <3>1
  <2>4. QED
    BY <2>1, <2>2, <2>3, <1>1, <1>2
<1> HIDE DEF de
<1>9. \A a \in 1..Len(suscriptions') :
        a \in 1..(L - 1) \/ (~Ultimo(s) /\ a = Len(suscriptions') /\ a = L /\ suscriptions'[a] = g)
  BY <1>2, <1>4, <1>5
<1>10. ASSUME NEW a \in 1..Len(suscriptions'), NEW b \in 1..Len(suscriptions'), a < b
       PROVE  \E k \in 1..L :
                /\ k # i /\ suscriptions'[a] = suscriptions[k]
                /\ \/ suscriptions'[b] = g
                   \/ \E l \in 1..L : k < l /\ l # i /\ suscriptions'[b] = suscriptions[l]
  <2>1. a \in 1..(L - 1)
    BY <1>2, <1>4, <1>5, <1>10
  <2>2. CASE b \in 1..(L - 1)
    BY <2>1, <2>2, <1>6, <1>7, <1>10
  <2>3. CASE suscriptions'[b] = g
    BY <2>1, <2>3, <1>6
  <2>4. QED
    BY <2>2, <2>3, <1>9
<1>11. /\ \A k \in 1..L : k # i => \E a \in 1..Len(suscriptions') : suscriptions'[a] = suscriptions[k]
       /\ ~Ultimo(s) => \E a \in 1..Len(suscriptions') : suscriptions'[a] = g
  <2>1. \A k \in 1..L : k # i => \E a \in 1..Len(suscriptions') : suscriptions'[a] = suscriptions[k]
    BY <1>6, <1>8
  <2>2. ~Ultimo(s) => \E a \in 1..Len(suscriptions') : suscriptions'[a] = g
    BY <1>1, <1>2, <1>5
  <2>3. QED
    BY <2>1, <2>2
<1>12. \A a \in 1..Len(suscriptions') :
         \/ ~Ultimo(s) /\ a = Len(suscriptions') /\ suscriptions'[a] = g
         \/ \E k \in 1..L : k # i /\ suscriptions'[a] = suscriptions[k]
  BY <1>6, <1>9
<1>13. QED
  BY <1>10, <1>11, <1>12 DEF g

(* Who is owed what after it.                                              *)
LEMMA EntregaCuentas ==
  ASSUME Inv, Bien, NEW msg, NEW i, NEW s, Entrega(msg, i, s)
  PROVE  /\ Historias' /\ Cuentas' /\ EnOrden'
         /\ Faltan(s.id)' = Faltan(s.id) - 1
         /\ Debe(s.id)' = Debe(s.id) \ {msg.n} /\ Tiene(s.id)' = Tiene(s.id) \cup {msg.n}
         /\ \A o \in Ids : o # s.id =>
              Faltan(o)' = Faltan(o) /\ Debe(o)' = Debe(o) /\ Tiene(o)' = Tiene(o)
         /\ desde' \in Seq(Escritos)
         /\ \A k \in 1..Len(desde') : EsMensaje(desde'[k]) =>
              /\ k + 1 \in 1..Len(desde) /\ desde'[k] = desde[k + 1]
              /\ msg.n <= desde'[k].n /\ desde'[k].n \in Nat
<1>1. /\ msg \in Escritos /\ msg.n \in Nat /\ EsMensaje(msg) /\ s.id \in Ids
      /\ msg.n \in Debe(s.id) /\ \A m \in Debe(s.id) : msg.n <= m
  BY EntregaFila
<1>2. /\ desde # << >> /\ desde' = Tail(desde) /\ msg = Head(desde)
      /\ recibidas' = [recibidas EXCEPT ![s.id] = Append(@, msg.n)]
      /\ UNCHANGED <<enviadas, publicadas>>
  BY Recibida DEF Entrega
<1>3. desde \in Seq(Escritos) /\ Historias /\ Cuentas /\ EnOrden
  BY DEF Bien, Red, Reparto
<1>4. /\ Historias'
      /\ Faltan(s.id)' = Faltan(s.id) - 1
      /\ Debe(s.id)' = Debe(s.id) \ {msg.n} /\ Tiene(s.id)' = Tiene(s.id) \cup {msg.n}
      /\ \A o \in Ids : o # s.id =>
           Faltan(o)' = Faltan(o) /\ Debe(o)' = Debe(o) /\ Tiene(o)' = Tiene(o)
  BY <1>1, <1>2, <1>3, Entregada
<1>5. /\ desde' \in Seq(Escritos) /\ Len(desde) \in Nat /\ 1 \in 1..Len(desde) /\ msg = desde[1]
      /\ Len(desde') = Len(desde) - 1
      /\ \A k \in 1..Len(desde') : k + 1 \in 1..Len(desde) /\ desde'[k] = desde[k + 1]
      /\ \A n : Cardinality(CopiasDe(desde', n)) =
                  IF msg.n = n THEN Cardinality(CopiasDe(desde, n)) - 1
                  ELSE Cardinality(CopiasDe(desde, n))
  BY <1>1, <1>2, <1>3, Leida
<1>6. ASSUME NEW k \in 1..Len(desde'), EsMensaje(desde'[k])
      PROVE  /\ k + 1 \in 1..Len(desde) /\ desde'[k] = desde[k + 1]
             /\ msg.n <= desde'[k].n /\ desde'[k].n \in Nat
  <2>1. k + 1 \in 1..Len(desde) /\ desde'[k] = desde[k + 1] /\ 1 < k + 1
    BY <1>5
  <2>2. msg.n <= desde'[k].n
    BY <2>1, <1>1, <1>3, <1>5, <1>6 DEF EnOrden
  <2>3. desde'[k] \in Escritos
    BY <1>5, ElementOfSeq
  <2>4. QED
    BY <2>1, <2>2, <2>3, <1>6, EscritosFormas
<1>7. EnOrden'
  <2>1. SUFFICES ASSUME NEW j \in 1..Len(desde'), NEW k \in 1..Len(desde'),
                        j < k, EsMensaje(desde'[j]), EsMensaje(desde'[k])
                 PROVE  desde'[j].n <= desde'[k].n
    BY DEF EnOrden
  <2>2. j + 1 < k + 1
    BY <2>1, <1>5
  <2>3. QED
    BY <2>1, <2>2, <1>3, <1>5 DEF EnOrden
<1>8. Cuentas'
  <2>1. SUFFICES ASSUME NEW n \in Nat
                 PROVE  Cardinality(CopiasDe(desde', n)) = Cardinality(Deudores(n)')
    BY DEF Cuentas, CopiasDe
  <2>2. Deudores(n)' = {id \in Ids : n \in Debe(id)'}
    BY DEF Deudores
  <2>3. Cardinality(CopiasDe(desde, n)) = Cardinality(Deudores(n)) /\ IsFiniteSet(Deudores(n))
    BY <1>3, Finitas DEF Cuentas
  <2>4. CASE n = msg.n
    <3>1. Deudores(n)' = Deudores(n) \ {s.id} /\ s.id \in Deudores(n)
      BY <2>2, <2>4, <1>1, <1>4 DEF Deudores
    <3>2. Cardinality(Deudores(n) \ {s.id}) = Cardinality(Deudores(n)) - 1
      BY <3>1, <2>3, FS_RemoveElement
    <3>3. QED
      BY <3>1, <3>2, <2>3, <2>4, <1>5
  <2>5. CASE n # msg.n
    <3>1. Deudores(n)' = Deudores(n)
      BY <2>2, <2>5, <1>4 DEF Deudores
    <3>2. QED
      BY <3>1, <2>3, <2>5, <1>5
  <2>6. QED
    BY <2>4, <2>5
<1>9. QED
  BY <1>4, <1>5, <1>6, <1>7, <1>8

(* A later copy is owed to the rows as before.                             *)
LEMMA EntregaToca ==
  ASSUME Inv, Bien, NEW msg, NEW i, NEW s, Entrega(msg, i, s), NEW x, msg.n <= x.n, x.n \in Nat
  PROVE  /\ \A t : (t.id \in Ids /\ t.id # s.id /\ Toca(t, x)) => Toca(t, x)'
         /\ (~Ultimo(s) /\ Toca(s, x)) => Toca(Gastada(s), x)'
         /\ \A id \in Ids : x.n \in Debe(id)' => x.n \in Debe(id)
<1>0. s.id \in Ids
  BY EntregaFila
<1>1. /\ Faltan(s.id)' = Faltan(s.id) - 1 /\ s.id \in Ids
      /\ Debe(s.id)' = Debe(s.id) \ {msg.n} /\ Tiene(s.id)' = Tiene(s.id) \cup {msg.n}
      /\ \A o \in Ids : o # s.id =>
           Faltan(o)' = Faltan(o) /\ Debe(o)' = Debe(o) /\ Tiene(o)' = Tiene(o)
  BY <1>0, EntregaCuentas
<1>2. \A id \in Ids : x.n \in Debe(id)' => x.n \in Debe(id)
  BY <1>1
<1>3. ASSUME NEW t, t.id \in Ids, t.id # s.id, Toca(t, x)
      PROVE  Toca(t, x)'
  BY <1>1, <1>3 DEF Toca
<1>4. ASSUME ~Ultimo(s), Toca(s, x), NEW g, g = Gastada(s)
      PROVE  Toca(g, x)'
  <2>1. /\ Faltan(s.id) \in Nat \ {0} /\ g.id = s.id
        /\ s.max # SinLimite =>
             /\ s.max[1] \in Nat /\ g.max = <<s.max[1] - 1>> /\ (Ultimo(s) <=> s.max[1] = 1)
    BY <1>4, EntregaFila
  <2>2. CASE x.n \in Debe(s.id) \cup Tiene(s.id)
    <3>1. x.n \in Debe(s.id)' \cup Tiene(s.id)'
      BY <2>2, <1>1
    <3>2. QED
      BY <3>1, <2>1 DEF Toca
  <2>3. CASE /\ Faltan(s.id) > 0 /\ s.max = <<Faltan(s.id)>>
             /\ \A m \in Debe(s.id) : m < x.n
    <3>1. s.max # SinLimite /\ s.max[1] = Faltan(s.id)
      BY <2>3 DEF SinLimite
    <3>2. Faltan(s.id)' > 0 /\ g.max = <<Faltan(s.id)'>>
      BY <3>1, <2>1, <1>1, <1>4
    <3>3. \A m \in Debe(s.id)' : m < x.n
      BY <2>3, <1>1
    <3>4. QED
      BY <3>2, <3>3, <2>1 DEF Toca
  <2>4. QED
    BY <2>2, <2>3, <1>4 DEF Toca
<1>5. (~Ultimo(s) /\ Toca(s, x)) => Toca(Gastada(s), x)'
  <2>1. PICK g : g = Gastada(s)
    OBVIOUS
  <2>2. (~Ultimo(s) /\ Toca(s, x)) => Toca(g, x)'
    BY <2>1, <1>4
  <2>3. QED
    BY <2>1, <2>2
<1>6. QED
  BY <1>2, <1>3, <1>5

(* The copies behind the one handed over.                                  *)
LEMMA EntregaCaminos ==
  ASSUME Inv, Bien, NEW msg, NEW i, NEW s, Entrega(msg, i, s)
  PROVE  Caminos'
<1>1. /\ s.id \in Ids /\ i \in 1..Len(suscriptions) /\ s = suscriptions[i] /\ msg.n \in Nat
      /\ Gastada(s).id = s.id /\ Gastada(s).patron = s.patron
      /\ \A k \in 1..Len(suscriptions) : k # i => suscriptions[k].id # s.id
  BY EntregaFila
<1>2. /\ Tiene(s.id)' = Tiene(s.id) \cup {msg.n}
      /\ \A o \in Ids : o # s.id => Tiene(o)' = Tiene(o)
      /\ \A k \in 1..Len(desde') : EsMensaje(desde'[k]) =>
           /\ k + 1 \in 1..Len(desde) /\ desde'[k] = desde[k + 1]
           /\ msg.n <= desde'[k].n /\ desde'[k].n \in Nat
  BY EntregaCuentas
<1>3. Caminos /\ publicadas' = publicadas /\ suscriptions \in Seq(Fila)
  BY DEF Bien, Reparto, Entrega, Inv, Tipado
<1>4. \A k \in 1..Len(suscriptions) : suscriptions[k].id \in Ids
  <2>1. \A k \in 1..Len(suscriptions) : suscriptions[k] \in Fila
    BY <1>3, ElementOfSeq
  <2>2. QED
    BY <2>1 DEF Fila
<1>5. ASSUME NEW x, EnCamino(x), msg.n <= x.n, x.n \in Nat
      PROVE  EnCamino(x)'
  <2>1. x.n <= publicadas'
    BY <1>3, <1>5 DEF EnCamino
  <2>2. \A id \in Ids : \A m \in Tiene(id)' : m <= x.n
    BY <1>1, <1>2, <1>5 DEF EnCamino
  <2>3. /\ \A t : (t.id \in Ids /\ t.id # s.id /\ Toca(t, x)) => Toca(t, x)'
        /\ (~Ultimo(s) /\ Toca(s, x)) => Toca(Gastada(s), x)'
        /\ \A id \in Ids : x.n \in Debe(id)' => x.n \in Debe(id)
    BY <1>5, EntregaToca
  <2>4. ASSUME NEW a \in 1..Len(suscriptions'), NEW t, t = suscriptions'[a]
        PROVE  /\ EsPara(t, x.tema) => Toca(t, x)'
               /\ x.n \in Debe(t.id)' => EsPara(t, x.tema)
    <3>1. CASE ~Ultimo(s) /\ t = Gastada(s)
      <4>1. /\ EsPara(s, x.tema) => Toca(s, x)
            /\ x.n \in Debe(s.id) => EsPara(s, x.tema)
        BY <1>1, <1>5 DEF EnCamino
      <4>2. EsPara(t, x.tema) <=> EsPara(s, x.tema)
        BY <3>1, <1>1 DEF EsPara
      <4>3. Toca(s, x) => Toca(t, x)'
        BY <3>1, <2>3
      <4>4. x.n \in Debe(t.id)' => x.n \in Debe(s.id)
        BY <3>1, <2>3, <1>1
      <4>5. QED
        BY <4>1, <4>2, <4>3, <4>4
    <3>2. ASSUME NEW k \in 1..Len(suscriptions), k # i, t = suscriptions[k]
          PROVE  /\ EsPara(t, x.tema) => Toca(t, x)'
                 /\ x.n \in Debe(t.id)' => EsPara(t, x.tema)
      <4>1. /\ EsPara(t, x.tema) => Toca(t, x)
            /\ x.n \in Debe(t.id) => EsPara(t, x.tema)
        BY <3>2, <1>5 DEF EnCamino
      <4>2. t.id \in Ids /\ t.id # s.id
        BY <3>2, <1>1, <1>4
      <4>3. QED
        BY <4>1, <4>2, <2>3
    <3>3. QED
      BY <3>1, <3>2, <2>4, EntregaTabla
  <2>5. QED
    BY <2>1, <2>2, <2>4 DEF EnCamino, EsPara, Toca, Debe, Tiene, Faltan
<1>6. SUFFICES ASSUME NEW k \in 1..Len(desde'), EsMensaje(desde'[k])
               PROVE  EnCamino(desde[k])'
  BY DEF Caminos
<1>7. ASSUME NEW x, x = desde'[k]
      PROVE  EnCamino(x)'
  BY <1>2, <1>3, <1>5, <1>6, <1>7 DEF Caminos
<1>8. QED
  BY <1>7 DEF EnCamino, Toca

LEMMA EntregaReparto ==
  ASSUME Inv, Bien, NEW msg, NEW i, NEW s, Entrega(msg, i, s)
  PROVE  Reparto'
<1>1. /\ s.id \in Ids /\ i \in 1..Len(suscriptions) /\ s = suscriptions[i] /\ msg.n \in Nat
      /\ s.id \in abierta /\ EnCamino(msg)
      /\ Gastada(s).id = s.id
      /\ Faltan(s.id) \in Nat \ {0}
      /\ \A m \in Debe(s.id) : msg.n <= m
      /\ \A k \in 1..Len(suscriptions) : k # i => suscriptions[k].id # s.id
      /\ IF s.max = SinLimite THEN Gastada(s).max = SinLimite
         ELSE /\ s.max[1] \in Nat /\ Faltan(s.id) <= s.max[1]
              /\ Gastada(s).max[1] = s.max[1] - 1
              /\ Ultimo(s) <=> s.max[1] = 1
  BY EntregaFila
<1>2. /\ Historias' /\ Cuentas' /\ EnOrden'
      /\ Faltan(s.id)' = Faltan(s.id) - 1
      /\ Debe(s.id)' = Debe(s.id) \ {msg.n} /\ Tiene(s.id)' = Tiene(s.id) \cup {msg.n}
      /\ \A o \in Ids : o # s.id =>
           Faltan(o)' = Faltan(o) /\ Debe(o)' = Debe(o) /\ Tiene(o)' = Tiene(o)
  BY EntregaCuentas, Zenon
<1>3. /\ SinDeuda /\ Turnos /\ Historias /\ suscriptions \in Seq(Fila)
      /\ Ultimo(s) => abierta' = abierta \ {s.id} /\ s.max # SinLimite
      /\ ~Ultimo(s) => abierta' = abierta
  BY DEF Bien, Reparto, Inv, Tipado, Entrega, Ultimo
<1>4. \A k \in 1..Len(suscriptions) : suscriptions[k].id \in Ids
  <2>1. \A k \in 1..Len(suscriptions) : suscriptions[k] \in Fila
    BY <1>3, ElementOfSeq
  <2>2. QED
    BY <2>1 DEF Fila
<1>5. SinDeuda'
  <2>1. ASSUME NEW id \in Ids, id \notin abierta'
        PROVE  Debe(id)' = {}
    <3>1. CASE id # s.id
      BY <3>1, <2>1, <1>2, <1>3 DEF SinDeuda
    <3>2. CASE id = s.id
      <4>1. Ultimo(s) /\ Faltan(s.id) = 1
        BY <3>2, <2>1, <1>1, <1>3
      <4>2. Faltan(id)' = 0
        BY <4>1, <3>2, <1>2
      <4>3. Len(enviadas'[id]) \in Nat /\ Len(recibidas'[id]) \in Nat
        BY <2>1, <1>2, LenProperties DEF Historias
      <4>4. QED
        BY <4>2, <4>3 DEF Debe, Faltan
    <3>3. QED
      BY <3>1, <3>2
  <2>2. ASSUME NEW a \in 1..Len(suscriptions'), NEW t, t = suscriptions'[a], t.max # SinLimite
        PROVE  Faltan(t.id)' <= t.max[1]
    <3>1. CASE ~Ultimo(s) /\ t = Gastada(s)
      <4>1. /\ s.max # SinLimite /\ t.id = s.id /\ t.max[1] = s.max[1] - 1
            /\ s.max[1] \in Nat /\ Faltan(s.id) <= s.max[1]
        BY <3>1, <2>2, <1>1
      <4>2. QED
        BY <4>1, <1>1, <1>2
    <3>2. ASSUME NEW k \in 1..Len(suscriptions), k # i, t = suscriptions[k]
          PROVE  Faltan(t.id)' <= t.max[1]
      <4>1. t.id \in Ids /\ t.id # s.id
        BY <3>2, <1>1, <1>4
      <4>2. Faltan(t.id)' = Faltan(t.id)
        BY <4>1, <1>2
      <4>3. Faltan(t.id) <= t.max[1]
        BY <3>2, <2>2, <1>3 DEF SinDeuda
      <4>4. QED
        BY <4>2, <4>3
    <3>3. QED
      BY <3>1, <3>2, <2>2, EntregaTabla
  <2>3. QED
    BY <2>1, <2>2 DEF SinDeuda, Faltan
<1>6. Turnos'
  <2>1. ASSUME NEW a \in 1..Len(suscriptions'), NEW b \in 1..Len(suscriptions'), a < b,
               NEW t, t = suscriptions'[a], NEW u, u = suscriptions'[b]
        PROVE  Tiene(t.id)' \cap Debe(u.id)' = {}
    <3>1. PICK k \in 1..Len(suscriptions) :
            /\ k # i /\ t = suscriptions[k]
            /\ \/ u = Gastada(s)
               \/ \E l \in 1..Len(suscriptions) : k < l /\ l # i /\ u = suscriptions[l]
      BY <2>1, EntregaTabla
    <3>2. t.id \in Ids /\ Tiene(t.id)' = Tiene(t.id)
      BY <3>1, <1>1, <1>2, <1>4
    <3>3. CASE u = Gastada(s)
      <4>1. u.id = s.id /\ Debe(u.id)' = Debe(s.id) \ {msg.n}
        BY <3>3, <1>1, <1>2
      <4>2. \A m \in Tiene(t.id) : m <= msg.n /\ m \in Nat
        BY <3>2, <1>1, <1>3, Contada DEF EnCamino
      <4>3. \A m \in Debe(s.id) : msg.n <= m /\ m \in Nat
        BY <1>1, <1>3, Contada
      <4>4. QED
        BY <4>1, <4>2, <4>3, <3>2, <1>1
    <3>4. ASSUME NEW l \in 1..Len(suscriptions), k < l, l # i, u = suscriptions[l]
          PROVE  Tiene(t.id)' \cap Debe(u.id)' = {}
      <4>1. Debe(u.id)' = Debe(u.id)
        BY <3>4, <1>1, <1>2, <1>4
      <4>2. Tiene(t.id) \cap Debe(u.id) = {}
        BY <3>1, <3>4, <1>3 DEF Turnos
      <4>3. QED
        BY <4>1, <4>2, <3>2
    <3>5. QED
      BY <3>1, <3>3, <3>4
  <2>2. ASSUME NEW a \in 1..Len(suscriptions'), NEW b \in 1..Len(suscriptions'), a < b
        PROVE  Tiene(suscriptions[a].id)' \cap Debe(suscriptions[b].id)' = {}
    <3>1. PICK t, u : t = suscriptions'[a] /\ u = suscriptions'[b]
      OBVIOUS
    <3>2. Tiene(t.id)' \cap Debe(u.id)' = {}
      BY <2>1, <2>2, <3>1
    <3>3. QED
      BY <3>1, <3>2 DEF Tiene, Debe
  <2>3. QED
    BY <2>2 DEF Turnos
<1>7. QED
  BY <1>2, <1>5, <1>6, EntregaCaminos DEF Reparto

(* The limits of row and server row after it.                              *)
LEMMA EntregaCuadra ==
  ASSUME Inv, Bien, NEW msg, NEW i, NEW s, Entrega(msg, i, s), Cuadra(s.id, s.max)
  PROVE  /\ ~Ultimo(s) => Cuadra(s.id, Gastada(s).max)'
         /\ Ultimo(s) => \A f \in filas : f.id # s.id
<1>1. /\ Faltan(s.id) \in Nat \ {0}
      /\ IF s.max = SinLimite THEN Gastada(s).max = SinLimite
         ELSE /\ s.max[1] \in Nat /\ Faltan(s.id) <= s.max[1]
              /\ Gastada(s).max = <<s.max[1] - 1>>
              /\ Gastada(s).max # SinLimite /\ Gastada(s).max[1] = s.max[1] - 1
              /\ Ultimo(s) <=> s.max[1] = 1
  <2>1. Faltan(s.id) \in Nat \ {0}
    BY EntregaFila
  <2>2. CASE s.max = SinLimite
    BY <2>1, <2>2, EntregaFila
  <2>3. CASE s.max # SinLimite
    BY <2>1, <2>3, EntregaFila
  <2>4. QED
    BY <2>2, <2>3
<1>2. Faltan(s.id)' = Faltan(s.id) - 1 /\ filas' = filas
  <2>1. Faltan(s.id)' = Faltan(s.id) - 1
    BY EntregaCuentas
  <2>2. QED
    BY <2>1 DEF Entrega
<1>3. PICK t : t = Gastada(s).max
  OBVIOUS
<1>4. CASE (\A f \in filas : f.id # s.id) /\ Faltan(s.id) > 0 /\ s.max = <<Faltan(s.id)>>
  <2>1. s.max # SinLimite /\ s.max[1] = Faltan(s.id)
    BY <1>4 DEF SinLimite
  <2>2. ~Ultimo(s) => Faltan(s.id)' > 0 /\ t = <<Faltan(s.id)'>>
    BY <2>1, <1>1, <1>2, <1>3
  <2>3. ~Ultimo(s) => Cuadra(s.id, t)'
    BY <2>2, <1>2, <1>4 DEF Cuadra
  <2>4. QED
    BY <2>3, <1>3, <1>4 DEF Cuadra
<1>5. ASSUME NEW f \in filas, f.id = s.id, f.max = SinLimite <=> s.max = SinLimite,
             s.max # SinLimite =>
               s.max[1] = f.max[1] + Faltan(s.id) /\ (f.max[1] = 0 => Faltan(s.id) = 0)
      PROVE  ~Ultimo(s) /\ Cuadra(s.id, t)'
  <2>1. CASE s.max = SinLimite
    BY <2>1, <1>1, <1>2, <1>3, <1>5 DEF Cuadra, Ultimo
  <2>2. CASE s.max # SinLimite
    <3>1. f.max \in Topes
      BY DEF Bien, Red
    <3>2. f.max[1] \in Nat \ {0}
      BY <3>1, <2>2, <1>1, <1>5, TopeNatural
    <3>3. ~Ultimo(s)
      BY <3>2, <2>2, <1>1, <1>5
    <3>4. t # SinLimite /\ t[1] = f.max[1] + Faltan(s.id)' /\ f.max[1] # 0
      BY <3>2, <2>2, <1>1, <1>2, <1>3, <1>5
    <3>5. QED
      BY <3>3, <3>4, <2>2, <1>2, <1>5 DEF Cuadra
  <2>3. QED
    BY <2>1, <2>2
<1>6. Ultimo(s) => \A f \in filas : f.id # s.id
  BY <1>4, <1>5 DEF Cuadra
<1>7. ~Ultimo(s) => Cuadra(s.id, Gastada(s).max)'
  <2>1. ~Ultimo(s) => Cuadra(s.id, t)'
    BY <1>4, <1>5, <1>3 DEF Cuadra
  <2>2. CASE ~Ultimo(s)
    BY <2>1, <2>2, <1>3
  <2>3. QED
    BY <2>2
<1>8. QED
  BY <1>6, <1>7

(* No command is on the way while there are copies.                        *)
LEMMA EntregaSinOrden ==
  ASSUME Inv, Bien, NEW msg, NEW i, NEW s, Entrega(msg, i, s)
  PROVE  ~OrdenEnCurso /\ HaciaIgual /\ ~OrdenEnCurso'
<1>1. /\ desde # << >> /\ EsMensaje(Head(desde)) /\ desde \in Seq(Escritos)
      /\ hacia \in Seq(Comandos) /\ usuario' = usuario
      /\ EscribePub \/ UNCHANGED hacia
  BY Recibida DEF Entrega, Bien, Red
<1>2. HayMensajes
  BY <1>1, Leida DEF HayMensajes
<1>3. ~OrdenEnCurso
  BY <1>2 DEF Bien, Calma
<1>4. HaciaIgual
  <2>1. CASE EscribePub
    BY <2>1, <1>1, EscribePubHacia
  <2>2. CASE UNCHANGED hacia
    BY <2>2, <1>1 DEF HaciaIgual
  <2>3. QED
    BY <2>1, <2>2, <1>1
<1>5. /\ hacia' \in Seq(Comandos)
      /\ \A k \in 1..Len(hacia') : hacia'[k].tipo \in {"SUB", "UNSUB"} =>
           k \in 1..Len(hacia) /\ hacia'[k] = hacia[k]
  <2>1. /\ hacia' \in Seq(Comandos)
        /\ \A k \in 1..Len(hacia') :
             IF k \in 1..Len(hacia) THEN hacia'[k] = hacia[k]
             ELSE hacia'[k].tipo \notin {"SUB", "UNSUB"}
    BY <1>1, <1>4, HaciaQuieta
  <2>2. QED
    BY <2>1
<1>6. ~OrdenEnCurso'
  BY <1>1, <1>3, <1>5 DEF OrdenEnCurso
<1>7. QED
  BY <1>3, <1>4, <1>6

LEMMA EntregaAcuerdo ==
  ASSUME Inv, Bien, Acuerdo, NEW msg, NEW i, NEW s, Entrega(msg, i, s)
  PROVE  Acuerdo'
<1>1. /\ ~OrdenEnCurso /\ ~OrdenEnCurso'
      /\ UNCHANGED <<usuario, sub_id, filas>>
  BY EntregaSinOrden DEF Entrega
<1>2. /\ usuario'.fase \notin {"anota", "desuscribe"}
      /\ \A k \in 1..Len(hacia') : hacia'[k].tipo \notin {"SUB", "UNSUB"}
      /\ \A id : \A k \in 1..Len(hacia') : ~DeId(hacia'[k], id)
  BY <1>1 DEF OrdenEnCurso, DeId
<1>3. FilasUnicas'
  BY <1>1, <1>2 DEF Acuerdo, FilasUnicas
<1>4. \A id, p, m : Futura(id, p, m)' <=>
        \E a \in 1..Len(suscriptions') :
          /\ suscriptions'[a].id = id /\ suscriptions'[a].patron = p
          /\ m = suscriptions'[a].max
  BY <1>2 DEF Futura, Quita
<1>5. /\ \A k \in 1..Len(suscriptions) :
           /\ suscriptions[k].id \in Ids /\ suscriptions[k].max \in Topes
           /\ Cuadra(suscriptions[k].id, suscriptions[k].max)
           /\ \A f \in filas : f.id = suscriptions[k].id => f.patron = suscriptions[k].patron
      /\ \A f \in filas : \E k \in 1..Len(suscriptions) : suscriptions[k].id = f.id
  BY <1>1, TablaYFilas
<1>6. /\ s.id \in Ids /\ i \in 1..Len(suscriptions) /\ s = suscriptions[i]
      /\ Gastada(s).id = s.id /\ Gastada(s).patron = s.patron
      /\ \A k \in 1..Len(suscriptions) : k # i => suscriptions[k].id # s.id
  BY EntregaFila
<1>7. /\ ~Ultimo(s) => Cuadra(s.id, Gastada(s).max)'
      /\ Ultimo(s) => \A f \in filas : f.id # s.id
  BY <1>5, <1>6, EntregaCuadra
<1>8. \A o \in Ids : o # s.id => Faltan(o)' = Faltan(o)
  BY EntregaCuentas
<1>9. ASSUME NEW a \in 1..Len(suscriptions'), NEW t, t = suscriptions'[a],
             NEW id, id = t.id, NEW m, m = t.max
      PROVE  Cuadra(id, m)' /\ \A f \in filas' : f.id = id => f.patron = t.patron
  <2>1. CASE ~Ultimo(s) /\ t = Gastada(s)
    <3>1. id = s.id /\ m = Gastada(s).max /\ t.patron = s.patron
      BY <2>1, <1>6, <1>9
    <3>2. PICK g : g = Gastada(s).max
      OBVIOUS
    <3>3. Cuadra(s.id, m)'
      BY <3>1, <2>1, <1>7, <1>1 DEF Cuadra
    <3>4. QED
      BY <3>1, <3>3, <1>1, <1>5, <1>6 DEF Cuadra
  <2>2. ASSUME NEW k \in 1..Len(suscriptions), k # i, t = suscriptions[k]
        PROVE  Cuadra(id, m)' /\ \A f \in filas' : f.id = id => f.patron = t.patron
    <3>1. id # s.id /\ id \in Ids /\ Cuadra(id, m)
      BY <2>2, <1>5, <1>6, <1>9
    <3>2. Cuadra(id, m)'
      BY <3>1, <1>1, <1>8 DEF Cuadra
    <3>3. QED
      BY <3>2, <2>2, <1>1, <1>5, <1>9
  <2>3. QED
    BY <2>1, <2>2, <1>9, EntregaTabla
<1>10. ASSUME NEW id \in Ids, NEW p \in Patrones, NEW m \in Topes, Futura(id, p, m)'
       PROVE  Servida(id, p, m)'
  <2>1. PICK a \in 1..Len(suscriptions') :
          /\ suscriptions'[a].id = id /\ suscriptions'[a].patron = p
          /\ m = suscriptions'[a].max
    BY <1>4, <1>10
  <2>2. Cuadra(id, m)' /\ \A f \in filas' : f.id = id => f.patron = p
    BY <2>1, <1>9
  <2>3. QED
    BY <2>2, <1>2 DEF Servida, EsUltima
<1>11. ASSUME NEW id \in Ids, \A p \in Patrones, m \in Topes : ~Futura(id, p, m)'
       PROVE  Olvidada(id)'
  <2>1. \A a \in 1..Len(suscriptions') : suscriptions'[a].id # id
    <3>1. ASSUME NEW a \in 1..Len(suscriptions')
          PROVE  suscriptions'[a].patron \in Patrones /\ suscriptions'[a].max \in Topes
      <4>1. suscriptions \in Seq(Fila) /\ Gastada(s).max \in Topes /\ s \in Fila
        <5>1. /\ s \in Fila /\ Faltan(s.id) \in Nat \ {0}
              /\ IF s.max = SinLimite THEN Gastada(s).max = SinLimite
                 ELSE /\ s.max[1] \in Nat /\ Faltan(s.id) <= s.max[1]
                      /\ Gastada(s).max = <<s.max[1] - 1>>
          BY EntregaFila
        <5>2. s.max # SinLimite => s.max[1] - 1 \in Nat
          BY <5>1
        <5>3. QED
          BY <5>1, <5>2 DEF Inv, Tipado, Topes
      <4>2. CASE suscriptions'[a] = Gastada(s)
        BY <4>1, <4>2, <1>6 DEF Fila
      <4>3. ASSUME NEW k \in 1..Len(suscriptions), suscriptions'[a] = suscriptions[k]
            PROVE  suscriptions'[a].patron \in Patrones /\ suscriptions'[a].max \in Topes
        <5>1. suscriptions[k] \in Fila
          BY <4>1, ElementOfSeq
        <5>2. QED
          BY <5>1, <4>3 DEF Fila
      <4>4. QED
        BY <4>2, <4>3, EntregaTabla
    <3>2. QED
      BY <3>1, <1>4, <1>11
  <2>2. \A f \in filas : f.id # id
    <3>1. SUFFICES ASSUME NEW k \in 1..Len(suscriptions), suscriptions[k].id = id
                   PROVE  \A f \in filas : f.id # id
      BY <1>5
    <3>2. CASE k # i
      BY <3>1, <3>2, <2>1, EntregaTabla
    <3>3. CASE k = i
      <4>1. Ultimo(s)
        <5>1. ASSUME ~Ultimo(s)
              PROVE  \E a \in 1..Len(suscriptions') : suscriptions'[a] = Gastada(s)
          BY <5>1, EntregaTabla
        <5>2. Gastada(s).id = id
          BY <3>1, <3>3, <1>6
        <5>3. QED
          BY <5>1, <5>2, <2>1
      <4>2. QED
        BY <4>1, <3>1, <3>3, <1>6, <1>7
    <3>4. QED
      BY <3>2, <3>3
  <2>3. QED
    BY <2>2, <1>1, <1>2 DEF Olvidada
<1>12. QED
  BY <1>3, <1>10, <1>11 DEF Acuerdo

LEMMA CopiasEntrega ==
  ASSUME Inv, Bien, NEW msg, NEW i, NEW s, Entrega(msg, i, s)
  PROVE  Bien'
<1>1. /\ HaciaIgual /\ ~OrdenEnCurso'
      /\ hacia \in Seq(Comandos) /\ desde \in Seq(Escritos)
      /\ filas' \subseteq [id : Ids, patron : Patrones, max : Topes] /\ publicadas' \in Nat
  BY EntregaSinOrden DEF Entrega, Bien, Red
<1>2. /\ conexion' = conexion /\ candado' # "envenenado" /\ oyente # Fin
      /\ desde # << >> /\ EsMensaje(Head(desde)) /\ desde' = Tail(desde)
  BY Recibida DEF Entrega, Lee, Fin
<1>3. Historias' /\ desde' \in Seq(Escritos)
  BY EntregaCuentas
<1>4. hacia' \in Seq(Comandos)
  BY <1>1, HaciaQuieta
<1>5. Red' /\ Calma'
  BY <1>1, <1>2, <1>3, <1>4 DEF Red, Calma
<1>6. Viva' => Acuerdo'
  <2>1. Head(desde).tipo # "-ERR"
    BY <1>2 DEF EsMensaje
  <2>2. Viva' => Viva
    BY <2>1, <1>1, <1>2, VivaQuieta
  <2>3. QED
    BY <2>2, EntregaAcuerdo DEF Bien
<1>7. Reparto'
  BY EntregaReparto
<1>8. QED
  BY <1>3, <1>5, <1>6, <1>7 DEF Bien

(* The three ways to deal with a message, and the two that do not occur:   *)
(* a message for nobody, and one for a row that has had its last.          *)
LEMMA CopiasMensaje ==
  ASSUME Inv, Bien, ~cruce, ~cruce',
         SinDestino \/ Reparte \/ ReparteUltimo \/ RepartePasado \/ PierdeFila
  PROVE  Bien'
<1>1. PICK msg : msg = Head(desde)
  OBVIOUS
<1>2. PICK i : i = Primera(msg.tema)
  OBVIOUS
<1>3. PICK s : s = suscriptions[i]
  OBVIOUS
<1>4. RecibeMensaje
  BY DEF SinDestino, Reparte, ReparteUltimo, RepartePasado, PierdeFila
<1>5. /\ i \in 1..Len(suscriptions) /\ i # 0
      /\ msg.n \in Debe(s.id)
  <2>1. /\ i \in 1..Len(suscriptions) /\ msg.n \in Debe(s.id)
    BY <1>1, <1>2, <1>3, <1>4, Recibida, CabezaDebida
  <2>2. QED
    BY <2>1
<1>6. ~SinDestino
  BY <1>1, <1>2, <1>5 DEF SinDestino
<1>7. ~RepartePasado
  <2>1. /\ suscriptions \in Seq(Fila) /\ SinDeuda /\ Historias
    BY DEF Bien, Reparto, Inv, Tipado
  <2>2. s.id \in Ids
    <3>1. s \in Fila
      BY <2>1, <1>3, <1>5, ElementOfSeq
    <3>2. QED
      BY <3>1 DEF Fila
  <2>3. Faltan(s.id) \in Nat \ {0}
    BY <2>1, <2>2, <1>5, Contada
  <2>4. ~Agotada(s)
    BY <2>1, <2>3, <1>3, <1>5 DEF SinDeuda, Agotada
  <2>5. QED
    BY <2>4, <1>1, <1>2, <1>3 DEF RepartePasado
<1>8. ~PierdeFila
  BY DEF PierdeFila
<1>9. ASSUME Reparte \/ ReparteUltimo
      PROVE  Entrega(msg, i, s)
  <2>1. recibidas' = [recibidas EXCEPT ![s.id] = Append(@, msg.n)]
    BY <1>1, <1>2, <1>3, <1>9, Zenon DEF Reparte, ReparteUltimo, EnviaAlHilo
  <2>2. EscribePub \/ UNCHANGED hacia
    BY <1>9 DEF Reparte, ReparteUltimo
  <2>3. UNCHANGED <<usuario, sub_id, conexion, filas, publicadas, enviadas, cruce>>
    BY <1>9 DEF Reparte, ReparteUltimo, delUsuario, delServidor
  <2>4. CASE Reparte
    <3>1. /\ ~Ultimo(s) /\ suscriptions' = Append(RemoveAt(suscriptions, i), Gastada(s))
          /\ UNCHANGED <<abierta, candado, oyente>>
      BY <2>4, <1>1, <1>2, <1>3 DEF Reparte, Reencola, Gastada
    <3>2. QED
      BY <3>1, <2>1, <2>2, <2>3, <1>1, <1>2, <1>3, <1>4 DEF Entrega
  <2>5. CASE ReparteUltimo
    <3>1. /\ Ultimo(s) /\ suscriptions' = RemoveAt(suscriptions, i)
          /\ abierta' = abierta \ {s.id}
          /\ candado' = "oyente" /\ oyente' = En("une", s.id)
      BY <2>5, <1>1, <1>2, <1>3 DEF ReparteUltimo
    <3>2. QED
      BY <3>1, <2>1, <2>2, <2>3, <1>1, <1>2, <1>3, <1>4, Zenon DEF Entrega
  <2>6. QED
    BY <2>4, <2>5, <1>9
<1>10. QED
  BY <1>6, <1>7, <1>8, <1>9, CopiasEntrega

-----------------------------------------------------------------------------
LEMMA InitCopias == Init => Copias
<1>1. SUFFICES ASSUME Init
               PROVE  Bien
  BY DEF Copias
<1>2. /\ hacia = <<Aviso("CONNECT")>> /\ desde = << >> /\ filas = {} /\ publicadas = 0
      /\ suscriptions = << >> /\ abierta = {} /\ sub_id = 0 /\ usuario.fase = "conecta"
      /\ candado = "libre"
      /\ enviadas = [id \in Ids |-> << >>] /\ recibidas = [id \in Ids |-> << >>]
  BY <1>1 DEF Init, Nada
<1>3. /\ Aviso("CONNECT") \in Comandos /\ Aviso("CONNECT").tipo = "CONNECT"
      /\ Len(hacia) = 1 /\ hacia[1] = Aviso("CONNECT")
  BY <1>2 DEF Aviso, Comandos
<1>4. \A id \in Ids : /\ enviadas[id] = << >> /\ recibidas[id] = << >>
                      /\ Debe(id) = {} /\ Tiene(id) = {} /\ Faltan(id) = 0
  BY <1>2 DEF Debe, Tiene, Faltan
<1>5. Red
  BY <1>2, <1>3 DEF Red
<1>6. Historias
  BY <1>2 DEF Historias
<1>7. Cuentas
  <2>1. \A n : CopiasDe(desde, n) = {} /\ Deudores(n) = {}
    BY <1>2, <1>4 DEF CopiasDe, Deudores
  <2>2. QED
    BY <2>1 DEF Cuentas
<1>8. Reparto
  BY <1>2, <1>4, <1>7 DEF Reparto, SinDeuda, Caminos, EnOrden, Turnos
<1>9. Calma
  BY <1>2 DEF Calma, HayMensajes
<1>10. Acuerdo
  <2>1. \A k \in 1..Len(hacia) : hacia[k].tipo = "CONNECT"
    BY <1>3
  <2>2. \A id, p, m : ~Futura(id, p, m)
    BY <1>2 DEF Futura
  <2>3. QED
    BY <2>1, <2>2, <1>2 DEF Acuerdo, FilasUnicas, Olvidada
<1>11. QED
  BY <1>5, <1>6, <1>8, <1>9, <1>10 DEF Bien

(* Once a command has crossed a copy nothing more is said.                 *)
LEMMA CruceSigue ==
  ASSUME [Next]_vars, cruce
  PROVE  cruce'
<1>1. CASE UNCHANGED vars
  BY <1>1 DEF vars
<1>2. CASE Servidor
  BY <1>2 DEF Servidor, ServidorAcepta, ServidorRechaza, ServidorPing, Rompe, ServidorPublica
<1>3. CASE Pide
  BY <1>3 DEF Pide, Publica, CreateStream, HPublica, NoCreaConsumer, NoAnota, UnaEscritura,
              Suscribe, CreaConsumer, EscribeSub, NoEscribeSub, Desuscribe, Cruza
<1>4. CASE Usuario
  BY <1>4 DEF Usuario, Anota, FijaLimite, QuitaFila, Une, Falla, NoConecta
<1>5. CASE Oyente
  BY <1>5 DEF Oyente, OyenteOk, OyentePing, OyenteError, OyenteFinDeArchivo, SinDestino, Reparte,
              ReparteUltimo, RepartePasado, PierdeFila, OyenteUne
<1>6. CASE \E id \in Ids : Hilo(id)
  BY <1>6 DEF Hilo, HiloToma, HiloAtiende, HiloTermina
<1>7. QED
  BY <1>1, <1>2, <1>3, <1>4, <1>5, <1>6 DEF Next

(* Every step keeps the invariant.                                         *)
LEMMA SiguienteCopias == Inv /\ Inv' /\ Copias /\ [Next]_vars => Copias'
<1>1. SUFFICES ASSUME Inv, Inv', Copias, [Next]_vars, ~cruce'
               PROVE  Bien'
  BY DEF Copias
<1>2. ~cruce /\ Bien
  BY <1>1, CruceSigue DEF Copias
<1>3. CASE UNCHANGED vars
  <2>1. /\ UNCHANGED <<Contables, filas, usuario, sub_id, hacia, desde, publicadas, candado,
                       conexion, oyente>>
    BY <1>3 DEF vars, delUsuario, delServidor, hilos, Contables
  <2>2. SoloAvisos /\ HaciaIgual /\ candado' # "envenenado" /\ (Viva' => Viva)
    BY <2>1, <1>2 DEF SoloAvisos, HaciaIgual, Bien, Red, Viva, SinLector
  <2>3. \A id \in Ids, p \in Patrones, m \in Topes : Futura(id, p, m)' <=> Futura(id, p, m)
    BY <2>1, FuturaQuieta DEF Contables
  <2>4. QED
    BY <2>1, <2>2, <2>3, <1>1, <1>2, QuietoConServidor
<1>4. CASE Servidor
  BY <1>1, <1>2, <1>4, CopiasAcepta, CopiasRechaza, CopiasRed, CopiasSinServidor, CopiasPublica
     DEF Servidor
<1>5. CASE Pide
  <2>1. ASSUME NEW patron \in Patrones, Suscribe(patron)
        PROVE  Bien'
    BY <2>1, <1>1, <1>2, CopiasSub, CopiasNoEscribeSub DEF Suscribe
  <2>2. ASSUME NEW patron \in Patrones, CreaConsumer(patron)
        PROVE  Bien'
    BY <2>2, <1>1, <1>2, CopiasSub, CopiasNoEscribeSub DEF CreaConsumer
  <2>3. ASSUME NEW id \in 1..sub_id, NEW max \in {SinLimite} \cup {<<n>> : n \in Limites},
               Desuscribe(id, max)
        PROVE  Bien'
    <3>1. max \in Topes
      BY NatsClientAssumption DEF Topes
    <3>2. QED
      BY <2>3, <3>1, <1>1, <1>2, CopiasDesuscribe
  <2>4. ~NoAnota
    BY <1>1 DEF NoAnota
  <2>5. QED
    BY <2>1, <2>2, <2>3, <2>4, <1>1, <1>2, <1>5, CopiasUnaEscritura DEF Pide
<1>6. CASE Usuario
  BY <1>1, <1>2, <1>6, CopiasAnota, CopiasFijaLimite, CopiasQuitaFila, CopiasUsuario DEF Usuario
<1>7. CASE Oyente
  BY <1>1, <1>2, <1>7, CopiasUsuario, CopiasRed, CopiasSinServidor, CopiasMensaje DEF Oyente
<1>8. CASE \E id \in Ids : Hilo(id)
  BY <1>1, <1>2, <1>8, CopiasRed
<1>9. QED
  BY <1>1, <1>3, <1>4, <1>5, <1>6, <1>7, <1>8 DEF Next

(* What the property asks, in the invariant.                               *)
LEMMA CopiasDice == Inv /\ Copias => CopiasPropias
<1>1. SUFFICES ASSUME Inv, Bien, ~cruce, NEW id \in Ids
               PROVE  /\ IsPrefix(recibidas[id], enviadas[id])
                      /\ ~HayMensajes => recibidas[id] = enviadas[id]
  BY DEF Copias, CopiasPropias
<1> DEFINE r == recibidas[id]
           e == enviadas[id]
<1>2. /\ r \in Seq(Nat) /\ e \in Seq(Nat) /\ Len(r) \in Nat /\ Len(e) \in Nat /\ Len(r) <= Len(e)
      /\ \A k \in 1..Len(r) : r[k] = e[k]
  BY <1>1, Contada DEF Bien, Historias
<1>3. ~HayMensajes => Len(r) = Len(e)
  <2>1. ~HayMensajes => Faltan(id) = 0
    BY <1>1, SinCopias DEF Bien, Reparto
  <2>2. QED
    BY <2>1, <1>2 DEF Faltan
<1> HIDE DEF r, e
<1>4. IsPrefix(r, e)
  <2> DEFINE a == SubSeq(r, 1, Len(r))
             b == SubSeq(e, 1, Len(r))
  <2>1. /\ a \in Seq(Nat) /\ Len(a) = IF 1 <= Len(r) THEN Len(r) - 1 + 1 ELSE 0
        /\ \A k \in 1..(Len(r) - 1 + 1) : a[k] = r[1 + k - 1]
    BY <1>2, ElementOfSeq, SubSeqProperties
  <2>2. /\ b \in Seq(Nat) /\ Len(b) = IF 1 <= Len(r) THEN Len(r) - 1 + 1 ELSE 0
        /\ \A k \in 1..(Len(r) - 1 + 1) : b[k] = e[1 + k - 1]
    <3>1. \A k \in 1..Len(r) : e[k] \in Nat
      BY <1>2, ElementOfSeq
    <3>2. QED
      BY <1>2, <3>1, SubSeqProperties
  <2> HIDE DEF a, b
  <2>3. a = b
    <3>1. Len(a) = Len(b) /\ \A k \in 1..Len(a) : a[k] = b[k]
      BY <2>1, <2>2, <1>2
    <3>2. QED
      BY <2>1, <2>2, <3>1, SeqEqual
  <2>4. QED
    BY <2>3, <1>2 DEF IsPrefix, a, b
<1>5. ~HayMensajes => r = e
  BY <1>2, <1>3, SeqEqual
<1>6. QED
  BY <1>4, <1>5 DEF r, e

(* Whatever the patterns, the limits, the order of the commands and the    *)
(* refusals of the server, and although the listening thread picks a row   *)
(* by subject, each subscription gets its publications once and in order,  *)
(* unless a command crosses a copy on its way or a row is lost.            *)
THEOREM CopiasPropiasSiempre == Spec => []CopiasPropias
<1>1. Spec => [](Inv /\ Copias)
  <2>1. Inv /\ Copias /\ [Next]_vars => (Inv /\ Copias)'
    BY SiguienteInv, SiguienteCopias
  <2>2. Init => Inv /\ Copias
    BY InitInv, InitCopias
  <2>3. QED
    BY <2>1, <2>2, PTL DEF Spec
<1>2. QED
  BY <1>1, CopiasDice, PTL
=============================================================================
