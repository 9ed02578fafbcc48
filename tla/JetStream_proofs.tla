-------------------------- MODULE JetStream_proofs --------------------------
(* Proofs about JetStream, for any set of consumers, any limit of sends,   *)
(* any number of messages and restarts, and whatever becomes of the texts  *)
(* in the file.                                                            *)
EXTENDS JetStream, SequenceTheorems, TLAPS

Hilos ==
  [fase : {"espera"}, ack : Nat, contador : 0..Limite]
    \cup [fase : {"ack"}, ack : Nat, m : Mensajes, contador : 0..Limite]

Tipado ==
  /\ creado \in BOOLEAN
  /\ messages \in Seq(Mensajes)
  /\ id_counter = Len(messages)
  /\ \A i \in 1..Len(messages) : messages[i].id = i - 1
  /\ consumers \subseteq Consumidores
  /\ cola \in [Consumidores -> Seq(Mensajes)]
  /\ acks \in [Consumidores -> Seq(Nat)]
  /\ copias \in [Consumidores -> Seq(Nat)]
  /\ hilo \in [Consumidores -> Hilos]
  /\ publicados \in 0..MaxMensajes
  /\ desde \in [Consumidores -> Nat]
  /\ vistos \in [Consumidores -> SUBSET Nat]
  /\ \A m \in ToSet(messages) : m.n <= publicados

(* The rows of the three files and what memory has: this much holds        *)
(* whatever was read from them.                                            *)
Filas ==
  /\ disco = [datos |-> disco.datos, rel |-> disco.rel, acks |-> disco.acks]
  /\ creado <=> disco.datos.hay /\ disco.rel.hay
  /\ creado \/ consumers = {}
  /\ creado => consumers = disco.rel.filas \cap DOMAIN disco.acks

(* The file has the messages of the memory, though a text that came back   *)
(* from it may have lost something on the way.                             *)
Concuerdan(filas, s) ==
  /\ filas \in Seq(Mensajes)
  /\ Len(filas) = Len(s)
  /\ \A i \in 1..Len(s) :
       /\ filas[i].id = s[i].id /\ filas[i].n = s[i].n
       /\ Queda[filas[i].texto] = Queda[s[i].texto]

(* What the three files hold.                                              *)
Archivos ==
  /\ disco = [datos |-> disco.datos, rel |-> disco.rel, acks |-> disco.acks]
  /\ creado <=> disco.datos.hay /\ disco.rel.hay
  /\ creado \/ consumers = {}
  /\ creado =>
       /\ Concuerdan(disco.datos.filas, messages)
       /\ consumers = disco.rel.filas \cap DOMAIN disco.acks
  /\ \A k \in consumers : disco.acks[k] \in 0..id_counter

Ordenada(s) == \A i, j \in 1..Len(s) : i < j => s[i].id < s[j].id

(* A queue is in the order of the ids, and what the thread holds comes     *)
(* before it; the ids that go round are ids that were given.               *)
EnColaDe(k) ==
  /\ k \notin consumers =>
       /\ cola[k] = << >> /\ acks[k] = << >> /\ copias[k] = << >>
       /\ hilo[k].fase = "espera"
  /\ ToSet(cola[k]) \subseteq ToSet(messages)
  /\ Ordenada(cola[k])
  /\ hilo[k].fase = "ack" =>
       /\ hilo[k].m \in ToSet(messages)
       /\ \A m \in ToSet(cola[k]) : hilo[k].m.id < m.id
  /\ \A id \in ToSet(copias[k]) \cup ToSet(acks[k]) : id < id_counter
  /\ k \in consumers => hilo[k].ack <= id_counter

EnCola == \A k \in Consumidores : EnColaDe(k)

Visto(k, m) == m.n > desde[k] => m.n \in vistos[k]

(* What is acknowledged, on the disk, by the thread or by a copy that the  *)
(* client still holds, is acknowledged with all that came before it, and   *)
(* that was sent; the rest waits in the queue.                             *)
SinHuecosDe(k) ==
  \A m \in ToSet(messages) :
    /\ m.id < hilo[k].ack => Visto(k, m)
    /\ m.id < disco.acks[k] => Visto(k, m)
    /\ \A id \in ToSet(copias[k]) : m.id < id => Visto(k, m)
    /\ Visto(k, m) \/ m \in ToSet(cola[k])

SinHuecos == \A k \in consumers : SinHuecosDe(k)

Inv == Tipado /\ Archivos /\ EnCola /\ SinHuecos

(* Once a load altered the ids only the rows are accounted for.            *)
Todo == Filas /\ (~alterado => Inv)

-----------------------------------------------------------------------------
(* Queues                                                                  *)

LEMMA AlFinal ==
  ASSUME NEW S, NEW s \in Seq(S), NEW x \in S
  PROVE  /\ Append(s, x) \in Seq(S)
         /\ ToSet(Append(s, x)) = ToSet(s) \cup {x}
<1> DEFINE w == Append(s, x)
<1>1. /\ w \in Seq(S) /\ Len(s) \in Nat /\ Len(w) = Len(s) + 1
      /\ \A i \in 1..Len(s) : w[i] = s[i]
      /\ w[Len(s) + 1] = x
  BY AppendProperties
<1> HIDE DEF w
<1>2. DOMAIN w = 1..(Len(s) + 1) /\ DOMAIN s = 1..Len(s)
  BY <1>1
<1>3. QED
  BY <1>1, <1>2 DEF ToSet, w

LEMMA DelPrincipio ==
  ASSUME NEW S, NEW s \in Seq(S), s # << >>
  PROVE  /\ Tail(s) \in Seq(S)
         /\ ToSet(s) = {Head(s)} \cup ToSet(Tail(s))
         /\ Head(s) \in S
<1> DEFINE w == Tail(s)
<1>1. /\ w \in Seq(S) /\ Len(s) \in Nat \ {0} /\ Len(w) = Len(s) - 1
      /\ \A i \in 1..Len(w) : w[i] = s[i + 1]
      /\ Head(s) = s[1] /\ s[1] \in S
  BY HeadTailProperties, EmptySeq, LenProperties
<1> HIDE DEF w
<1>2. DOMAIN w = 1..(Len(s) - 1) /\ DOMAIN s = 1..Len(s)
  BY <1>1
<1>3. ASSUME NEW x \in ToSet(s), x # s[1]
      PROVE  x \in ToSet(w)
  <2>1. PICK i \in 1..Len(s) : x = s[i]
    BY <1>2, <1>3 DEF ToSet
  <2>2. i - 1 \in 1..(Len(s) - 1) /\ w[i - 1] = s[i]
    BY <1>1, <1>3, <2>1
  <2>3. QED
    BY <1>2, <2>1, <2>2 DEF ToSet
<1>4. ASSUME NEW x \in ToSet(w)
      PROVE  x \in ToSet(s)
  <2>1. PICK i \in 1..(Len(s) - 1) : x = w[i]
    BY <1>2, <1>4 DEF ToSet
  <2>2. i + 1 \in 1..Len(s) /\ w[i] = s[i + 1]
    BY <1>1, <2>1
  <2>3. QED
    BY <1>2, <2>1, <2>2 DEF ToSet
<1>5. s[1] \in ToSet(s)
  BY <1>1, <1>2 DEF ToSet
<1>6. ToSet(s) = {s[1]} \cup ToSet(w)
  BY <1>3, <1>4, <1>5
<1>7. QED
  BY <1>1, <1>6 DEF w

LEMMA Vacia == ToSet(<< >>) = {} /\ Ordenada(<< >>)
  BY DEF ToSet, Ordenada

LEMMA OrdenadaAlFinal ==
  ASSUME NEW s \in Seq(Mensajes), Ordenada(s), NEW x \in Mensajes,
         \A m \in ToSet(s) : m.id < x.id
  PROVE  Ordenada(Append(s, x))
<1> DEFINE w == Append(s, x)
<1>1. /\ Len(s) \in Nat /\ Len(w) = Len(s) + 1
      /\ \A i \in 1..Len(s) : w[i] = s[i]
      /\ w[Len(s) + 1] = x
  BY AppendProperties
<1> HIDE DEF w
<1>2. \A i \in 1..Len(s) : s[i].id < x.id
  BY DEF ToSet
<1>3. SUFFICES ASSUME NEW i \in 1..(Len(s) + 1), NEW j \in 1..(Len(s) + 1), i < j
               PROVE  w[i].id < w[j].id
  BY <1>1 DEF Ordenada, w
<1>4. i \in 1..Len(s)
  BY <1>1, <1>3
<1>5. CASE j \in 1..Len(s)
  BY <1>1, <1>3, <1>4, <1>5 DEF Ordenada
<1>6. CASE j = Len(s) + 1
  BY <1>1, <1>2, <1>4, <1>6
<1>7. QED
  BY <1>1, <1>5, <1>6

LEMMA OrdenadaDelPrincipio ==
  ASSUME NEW s \in Seq(Mensajes), Ordenada(s), s # << >>
  PROVE  /\ Ordenada(Tail(s))
         /\ \A m \in ToSet(Tail(s)) : Head(s).id < m.id
<1> DEFINE w == Tail(s)
<1>1. /\ w \in Seq(Mensajes) /\ Len(s) \in Nat \ {0} /\ Len(w) = Len(s) - 1
      /\ \A i \in 1..Len(w) : w[i] = s[i + 1]
      /\ Head(s) = s[1]
  BY HeadTailProperties, EmptySeq, LenProperties
<1> HIDE DEF w
<1>2. DOMAIN w = 1..Len(w)
  BY <1>1
<1>3. \A i \in 1..Len(w) : s[1].id < w[i].id
  BY <1>1 DEF Ordenada
<1>4. \A i, j \in 1..Len(w) : i < j => w[i].id < w[j].id
  BY <1>1 DEF Ordenada
<1>5. \A m \in ToSet(w) : s[1].id < m.id
  BY <1>2, <1>3 DEF ToSet
<1>6. QED
  BY <1>1, <1>4, <1>5 DEF Ordenada, w

(* What the tables hold, one by one.                                       *)
LEMMA Elementos ==
  ASSUME Tipado
  PROVE  /\ \A m \in ToSet(messages) :
              /\ m \in Mensajes /\ m.id \in Nat /\ m.n \in 0..MaxMensajes
              /\ m.id < id_counter /\ m.n <= publicados
         /\ id_counter \in Nat
         /\ \A k \in Consumidores :
              /\ hilo[k].fase \in {"espera", "ack"} /\ hilo[k].ack \in Nat
              /\ hilo[k].contador \in 0..Limite
              /\ hilo[k].fase = "ack" => hilo[k].m \in Mensajes /\ hilo[k].m.id \in Nat
<1>1. ASSUME NEW m \in ToSet(messages)
      PROVE  /\ m \in Mensajes /\ m.id \in Nat /\ m.n \in 0..MaxMensajes
             /\ m.id < id_counter /\ m.n <= publicados
  <2>1. messages \in Seq(Mensajes) /\ DOMAIN messages = 1..Len(messages)
    BY DEF Tipado
  <2>2. PICK i \in 1..Len(messages) : m = messages[i]
    BY <1>1, <2>1 DEF ToSet
  <2>3. m \in Mensajes /\ m.id = i - 1 /\ Len(messages) \in Nat
    BY <2>1, <2>2 DEF Tipado
  <2>4. QED
    BY <1>1, <2>3 DEF Tipado, Mensajes
<1>2. id_counter \in Nat
  BY LenProperties DEF Tipado
<1>3. ASSUME NEW k \in Consumidores
      PROVE  /\ hilo[k].fase \in {"espera", "ack"} /\ hilo[k].ack \in Nat
             /\ hilo[k].contador \in 0..Limite
             /\ hilo[k].fase = "ack" => hilo[k].m \in Mensajes /\ hilo[k].m.id \in Nat
  <2>1. hilo[k] \in Hilos
    BY <1>3 DEF Tipado
  <2>2. QED
    BY <2>1 DEF Hilos, Mensajes
<1>4. QED
  BY <1>1, <1>2, <1>3

-----------------------------------------------------------------------------
LEMMA InitInv == Init => Inv
<1>1. SUFFICES ASSUME Init
               PROVE  Inv
  OBVIOUS
<1>2. Limite \in Nat \ {0} /\ MaxMensajes \in Nat
  BY JetStreamAssumption
<1>3. \A k \in Consumidores : hilo[k] = [fase |-> "espera", ack |-> 0, contador |-> 0]
  BY <1>1 DEF Init, HiloNuevo
<1>4. hilo \in [Consumidores -> Hilos]
  <2>1. hilo = [k \in Consumidores |-> [fase |-> "espera", ack |-> 0, contador |-> 0]]
    BY <1>1 DEF Init, HiloNuevo
  <2>2. [fase |-> "espera", ack |-> 0, contador |-> 0] \in Hilos
    BY <1>2 DEF Hilos
  <2>3. QED
    BY <2>1, <2>2
<1>5. ToSet(messages) = {}
  BY <1>1, Vacia DEF Init
<1>6. Tipado
  <2>1. messages = << >> /\ Len(messages) = 0 /\ messages \in Seq(Mensajes)
    BY <1>1 DEF Init
  <2>2. /\ cola \in [Consumidores -> Seq(Mensajes)]
        /\ acks \in [Consumidores -> Seq(Nat)]
        /\ copias \in [Consumidores -> Seq(Nat)]
        /\ vistos \in [Consumidores -> SUBSET Nat]
    BY <1>1 DEF Init
  <2>3. \A i \in 1..Len(messages) : messages[i].id = i - 1
    BY <2>1
  <2>4. publicados \in 0..MaxMensajes /\ desde \in [Consumidores -> Nat]
    BY <1>1, <1>2 DEF Init
  <2>5. QED
    BY <1>1, <1>4, <1>5, <2>1, <2>2, <2>3, <2>4 DEF Init, Tipado
<1>7. Archivos
  BY <1>1 DEF Init, Archivos, SinFila
<1>8. EnCola
  BY <1>1, <1>3, Vacia DEF Init, EnCola, EnColaDe
<1>9. SinHuecos
  BY <1>1 DEF Init, SinHuecos
<1>10. QED
  BY <1>6, <1>7, <1>8, <1>9 DEF Inv

-----------------------------------------------------------------------------
(* The executor                                                            *)

LEMMA CreateStreamInv ==
  ASSUME Inv, CreateStream
  PROVE  Inv'
<1>1. consumers = {} /\ consumers' = {}
  BY DEF Inv, Archivos, CreateStream
<1>2. messages' = << >> /\ id_counter' = 0 /\ ToSet(messages)' = {}
  BY Vacia DEF CreateStream
<1>3. /\ cola' = cola /\ acks' = acks /\ copias' = copias /\ hilo' = hilo
      /\ publicados' = publicados /\ desde' = desde /\ vistos' = vistos
  BY DEF CreateStream
<1>4. Tipado'
  <2>1. messages' \in Seq(Mensajes) /\ Len(messages') = 0
    BY <1>2
  <2>2. QED
    BY <1>1, <1>2, <1>3, <2>1 DEF Inv, Tipado, CreateStream
<1>5. Archivos'
  <2>1. /\ disco = [datos |-> disco.datos, rel |-> disco.rel, acks |-> disco.acks]
        /\ disco' = [disco EXCEPT !.datos = Fila(<< >>), !.rel = Fila({})]
    BY DEF Inv, Archivos, CreateStream
  <2>2. disco' = [datos |-> Fila(<< >>), rel |-> Fila({}), acks |-> disco.acks]
    BY <2>1
  <2>3. /\ disco'.datos = Fila(<< >>) /\ disco'.rel = Fila({}) /\ disco'.acks = disco.acks
        /\ disco'.datos.hay /\ disco'.rel.hay /\ disco'.rel.filas = {}
    BY <2>2 DEF Fila
  <2>4. disco' = [datos |-> disco'.datos, rel |-> disco'.rel, acks |-> disco'.acks]
    BY <2>2, <2>3
  <2>5. disco'.datos.filas = << >> /\ Concuerdan(<< >>, << >>)
    BY <2>3 DEF Fila, Concuerdan
  <2>6. QED
    BY <1>1, <1>2, <2>3, <2>4, <2>5 DEF Archivos, CreateStream
<1>6. EnCola'
  BY <1>1, <1>2, <1>3, Vacia DEF Inv, EnCola, EnColaDe
<1>7. SinHuecos'
  BY <1>1 DEF SinHuecos
<1>8. QED
  BY <1>4, <1>5, <1>6, <1>7 DEF Inv

(* The new message has the next id and waits in every queue.               *)
LEMMA StoreMsgInv ==
  ASSUME Inv, NEW subject, NEW texto, StoreMsg(subject, texto)
  PROVE  Inv'
<1>1. PICK m : m = [id |-> id_counter, n |-> publicados + 1, texto |-> texto]
  OBVIOUS
<1>2. /\ creado /\ publicados < MaxMensajes /\ publicados' = publicados + 1
      /\ messages' = Append(messages, m) /\ id_counter' = id_counter + 1
      /\ cola' = [k \in Consumidores |->
                    IF k \in consumers THEN Append(cola[k], m) ELSE cola[k]]
      /\ disco' = [disco EXCEPT !.datos = Fila(messages'), !.rel = Fila(consumers)]
      /\ creado' = creado /\ consumers' = consumers /\ acks' = acks /\ hilo' = hilo
      /\ copias' = copias /\ desde' = desde /\ vistos' = vistos
  BY <1>1 DEF StoreMsg
<1>3. /\ id_counter \in Nat /\ publicados + 1 \in 1..MaxMensajes
      /\ m.id = id_counter /\ m.n = publicados + 1 /\ m \in Mensajes
  <2>1. id_counter \in Nat /\ publicados + 1 \in 1..MaxMensajes
    BY <1>2, Elementos, JetStreamAssumption DEF Inv, Tipado
  <2>2. texto \in Textos
    BY <2>1, JetStreamAssumption DEF StoreMsg
  <2>3. QED
    BY <1>1, <2>1, <2>2 DEF Mensajes
<1>4. /\ messages' \in Seq(Mensajes) /\ ToSet(messages)' = ToSet(messages) \cup {m}
      /\ Len(messages') = Len(messages) + 1
      /\ \A i \in 1..Len(messages) : messages'[i] = messages[i]
      /\ messages'[Len(messages) + 1] = m
  BY <1>2, <1>3, AlFinal, AppendProperties DEF Inv, Tipado
<1>5. ASSUME NEW k \in consumers
      PROVE  /\ cola'[k] \in Seq(Mensajes) /\ Ordenada(cola'[k])
             /\ ToSet(cola'[k]) = ToSet(cola[k]) \cup {m}
  <2>1. /\ k \in Consumidores /\ cola[k] \in Seq(Mensajes) /\ Ordenada(cola[k])
        /\ \A x \in ToSet(cola[k]) : x.id < m.id
    BY <1>3, Elementos DEF Inv, Tipado, EnCola, EnColaDe
  <2>2. cola'[k] = Append(cola[k], m)
    BY <1>2, <2>1
  <2>3. QED
    BY <1>3, <2>1, <2>2, AlFinal, OrdenadaAlFinal
<1>6. ASSUME NEW k \in Consumidores, k \notin consumers
      PROVE  cola'[k] = cola[k]
  BY <1>2, <1>6
<1>7. Tipado'
  <2>1. cola' \in [Consumidores -> Seq(Mensajes)]
    BY <1>2, <1>3, <1>5, <1>6 DEF Inv, Tipado
  <2>2. \A i \in 1..Len(messages') : messages'[i].id = i - 1
    <3>1. ASSUME NEW i \in 1..Len(messages')
          PROVE  messages'[i].id = i - 1
      <4>1. CASE i \in 1..Len(messages)
        BY <1>4, <4>1 DEF Inv, Tipado
      <4>2. CASE i = Len(messages) + 1
        BY <1>3, <1>4, <4>2 DEF Inv, Tipado
      <4>3. QED
        BY <1>3, <1>4, <3>1, <4>1, <4>2 DEF Inv, Tipado
    <3>2. QED
      BY <3>1
  <2>3. \A x \in ToSet(messages)' : x.n <= publicados'
    BY <1>2, <1>3, <1>4, Elementos DEF Inv, Tipado
  <2>4. id_counter' = Len(messages') /\ publicados' \in 0..MaxMensajes
    BY <1>2, <1>3, <1>4 DEF Inv, Tipado
  <2>5. QED
    BY <1>2, <1>4, <2>1, <2>2, <2>3, <2>4 DEF Inv, Tipado
<1>8. Archivos'
  <2>1. disco = [datos |-> disco.datos, rel |-> disco.rel, acks |-> disco.acks]
    BY DEF Inv, Archivos
  <2>2. disco' = [datos |-> Fila(messages'), rel |-> Fila(consumers), acks |-> disco.acks]
    BY <1>2, <2>1
  <2>3. consumers = consumers \cap DOMAIN disco.acks
    BY <1>2 DEF Inv, Archivos
  <2>4. \A k \in consumers : disco.acks[k] \in 0..(id_counter + 1)
    BY <1>3 DEF Inv, Archivos
  <2>5. /\ disco'.datos = Fila(messages') /\ disco'.rel = Fila(consumers)
        /\ disco'.acks = disco.acks
        /\ disco'.datos.hay /\ disco'.rel.hay /\ disco'.rel.filas = consumers
    BY <2>2 DEF Fila
  <2>6. disco' = [datos |-> disco'.datos, rel |-> disco'.rel, acks |-> disco'.acks]
    BY <2>2, <2>5
  <2>7. disco'.datos.filas = messages' /\ Concuerdan(messages', messages')
    BY <1>4, <2>5 DEF Fila, Concuerdan
  <2>8. QED
    BY <1>2, <2>3, <2>4, <2>5, <2>6, <2>7 DEF Archivos
<1>9. EnCola'
  <2>1. SUFFICES ASSUME NEW k \in Consumidores
                 PROVE  EnColaDe(k)'
    BY DEF EnCola
  <2>2. EnColaDe(k)
    BY DEF Inv, EnCola
  <2>3. \A id \in ToSet(copias[k]) \cup ToSet(acks[k]) : id < id_counter + 1
    <3>1. ToSet(copias[k]) \cup ToSet(acks[k]) \subseteq Nat
      BY DEF Inv, Tipado, ToSet
    <3>2. QED
      BY <1>3, <2>2, <3>1 DEF EnColaDe
  <2>4. hilo[k].ack \in Nat /\ (hilo[k].fase = "ack" => hilo[k].m.id < m.id)
    BY <1>3, <2>2, Elementos DEF Inv, EnColaDe
  <2>5. CASE k \in consumers
    <3>1. Ordenada(cola'[k]) /\ ToSet(cola'[k]) \subseteq ToSet(messages')
      BY <1>4, <1>5, <2>2, <2>5 DEF EnColaDe
    <3>2. hilo[k].fase = "ack" => /\ hilo[k].m \in ToSet(messages')
                                  /\ \A x \in ToSet(cola'[k]) : hilo[k].m.id < x.id
      BY <1>4, <1>5, <2>2, <2>4, <2>5 DEF EnColaDe
    <3>3. hilo[k].ack <= id_counter + 1
      BY <1>3, <2>2, <2>4, <2>5 DEF EnColaDe
    <3>4. QED
      BY <1>2, <2>3, <2>5, <3>1, <3>2, <3>3 DEF EnColaDe
  <2>6. CASE k \notin consumers
    BY <1>2, <1>4, <1>6, <2>2, <2>3, <2>6 DEF EnColaDe
  <2>7. QED
    BY <2>5, <2>6
<1>10. SinHuecos'
  <2>1. SUFFICES ASSUME NEW k \in consumers
                 PROVE  SinHuecosDe(k)'
    BY <1>2 DEF SinHuecos
  <2>2. /\ SinHuecosDe(k) /\ EnColaDe(k) /\ k \in Consumidores
        /\ disco'.acks[k] = disco.acks[k] /\ disco.acks[k] \in 0..id_counter
    BY <1>2 DEF Inv, Tipado, SinHuecos, EnCola, Archivos
  <2>3. \A x : Visto(k, x)' <=> Visto(k, x)
    BY <1>2 DEF Visto
  <2>4. /\ ~(m.id < hilo[k].ack) /\ ~(m.id < disco.acks[k])
        /\ \A id \in ToSet(copias[k]) : ~(m.id < id)
    <3>1. hilo[k].ack \in Nat /\ hilo[k].ack <= id_counter
      BY <2>2, Elementos DEF Inv, EnColaDe
    <3>2. \A id \in ToSet(copias[k]) : id \in Nat /\ id < id_counter
      BY <2>2 DEF Inv, Tipado, EnColaDe, ToSet
    <3>3. QED
      BY <1>3, <2>2, <3>1, <3>2
  <2>5. QED
    BY <1>2, <1>4, <1>5, <2>2, <2>3, <2>4 DEF SinHuecosDe
<1>11. QED
  BY <1>7, <1>8, <1>9, <1>10 DEF Inv

(* A consumer that joins has everything to come; one that was there loses  *)
(* what its row of the file said.                                          *)
LEMMA CreateConsumerInv ==
  ASSUME Inv, NEW k \in Consumidores, CreateConsumer(k)
  PROVE  Inv'
<1>1. /\ creado /\ creado' = creado /\ messages' = messages
      /\ id_counter' = id_counter /\ publicados' = publicados /\ vistos' = vistos
      /\ AddConsumer(k)
      /\ disco = [datos |-> disco.datos, rel |-> disco.rel, acks |-> disco.acks]
      /\ id_counter \in Nat
  BY Elementos DEF CreateConsumer, Inv, Archivos
<1>2. Construido(k) = [datos |-> disco.datos, rel |-> disco.rel, acks |-> ConAck(k, 0)]
  BY <1>1 DEF Construido
<1>3. /\ DOMAIN ConAck(k, 0) = DOMAIN disco.acks \cup {k}
      /\ ConAck(k, 0)[k] = 0
      /\ \A j \in DOMAIN disco.acks : j # k => ConAck(k, 0)[j] = disco.acks[j]
  BY DEF ConAck
<1>4. consumers \subseteq DOMAIN disco.acks
  BY <1>1 DEF Inv, Archivos
<1>5. CASE k \in consumers
  <2>1. /\ disco' = [datos |-> disco.datos, rel |-> disco.rel, acks |-> ConAck(k, 0)]
        /\ consumers' = consumers /\ cola' = cola /\ acks' = acks /\ hilo' = hilo
        /\ copias' = copias /\ desde' = desde
    BY <1>1, <1>2, <1>5 DEF AddConsumer
  <2>2. Tipado' /\ EnCola'
    BY <1>1, <2>1 DEF Inv, Tipado, EnCola, EnColaDe
  <2>3. disco'.datos = disco.datos /\ disco'.rel = disco.rel /\ disco'.acks = ConAck(k, 0)
    BY <2>1
  <2>4. Archivos'
    <3>1. \A j \in consumers : disco'.acks[j] \in 0..id_counter
      BY <1>1, <1>3, <1>4, <2>3 DEF Inv, Archivos
    <3>2. QED
      BY <1>1, <1>3, <1>5, <2>1, <2>3, <3>1 DEF Inv, Archivos
  <2>5. SinHuecos'
    <3>1. SUFFICES ASSUME NEW j \in consumers, NEW m \in ToSet(messages)
                   PROVE  /\ m.id < hilo[j].ack => Visto(j, m)
                          /\ m.id < disco'.acks[j] => Visto(j, m)
                          /\ \A id \in ToSet(copias[j]) : m.id < id => Visto(j, m)
                          /\ Visto(j, m) \/ m \in ToSet(cola[j])
      BY <1>1, <2>1 DEF SinHuecos, SinHuecosDe, Visto
    <3>2. m.id \in Nat
      BY Elementos DEF Inv
    <3>3. QED
      BY <1>3, <1>4, <2>3, <3>2 DEF Inv, SinHuecos, SinHuecosDe
  <2>6. QED
    BY <2>2, <2>4, <2>5 DEF Inv
<1>6. CASE k \notin consumers
  <2>1. /\ consumers' = consumers \cup {k}
        /\ disco' = [datos |-> disco.datos, rel |-> Fila(consumers \cup {k}),
                     acks |-> ConAck(k, 0)]
        /\ cola' = [cola EXCEPT ![k] = << >>]
        /\ acks' = [acks EXCEPT ![k] = << >>]
        /\ hilo' = [hilo EXCEPT ![k] = HiloNuevo(0)]
        /\ copias' = [copias EXCEPT ![k] = << >>]
        /\ desde' = [desde EXCEPT ![k] = publicados]
    BY <1>1, <1>2, <1>6 DEF AddConsumer
  <2>2. HiloNuevo(0) \in Hilos /\ HiloNuevo(0).fase = "espera" /\ HiloNuevo(0).ack = 0
    BY JetStreamAssumption DEF HiloNuevo, Hilos
  <2>3. /\ cola'[k] = << >> /\ acks'[k] = << >> /\ copias'[k] = << >>
        /\ hilo'[k] = HiloNuevo(0) /\ desde'[k] = publicados
        /\ \A j \in Consumidores : j # k =>
             /\ cola'[j] = cola[j] /\ acks'[j] = acks[j] /\ copias'[j] = copias[j]
             /\ hilo'[j] = hilo[j] /\ desde'[j] = desde[j]
    BY <2>1 DEF Inv, Tipado
  <2>4. Tipado'
    <3>1. publicados \in Nat
      BY DEF Inv, Tipado
    <3>2. QED
      BY <1>1, <2>1, <2>2, <3>1 DEF Inv, Tipado
  <2>5. /\ disco'.datos = disco.datos /\ disco'.rel = Fila(consumers \cup {k})
        /\ disco'.acks = ConAck(k, 0)
    BY <2>1
  <2>6. Archivos'
    <3>1. \A j \in consumers' : disco'.acks[j] \in 0..id_counter
      BY <1>1, <1>3, <1>4, <2>1, <2>5 DEF Inv, Archivos
    <3>2. QED
      BY <1>1, <1>3, <1>4, <2>1, <2>5, <3>1 DEF Inv, Archivos, Fila
  <2>7. EnCola'
    <3>1. EnColaDe(k)'
      BY <1>1, <2>1, <2>3, <2>2, Vacia DEF EnColaDe
    <3>2. ASSUME NEW j \in Consumidores, j # k
          PROVE  EnColaDe(j)'
      BY <1>1, <2>1, <2>3, <3>2 DEF Inv, EnCola, EnColaDe
    <3>3. QED
      BY <3>1, <3>2 DEF EnCola
  <2>8. SinHuecos'
    <3>1. SinHuecosDe(k)'
      <4>1. \A m \in ToSet(messages) : Visto(k, m)'
        BY <1>1, <2>3, Elementos DEF Inv, Tipado, Visto
      <4>2. QED
        BY <1>1, <4>1 DEF SinHuecosDe
    <3>2. ASSUME NEW j \in consumers, j # k
          PROVE  SinHuecosDe(j)'
      <4>1. j \in Consumidores /\ disco'.acks[j] = disco.acks[j]
        BY <1>3, <1>4, <2>5, <3>2 DEF Inv, Tipado
      <4>2. \A m : Visto(j, m)' <=> Visto(j, m)
        BY <1>1, <2>3, <3>2, <4>1 DEF Visto
      <4>3. QED
        BY <1>1, <2>3, <3>2, <4>1, <4>2 DEF Inv, SinHuecos, SinHuecosDe
    <3>3. QED
      BY <2>1, <3>1, <3>2 DEF SinHuecos
  <2>9. QED
    BY <2>4, <2>6, <2>7, <2>8 DEF Inv
<1>7. QED
  BY <1>5, <1>6

(* An ack is of a copy that was sent with all that came before it.         *)
LEMMA EjAckInv ==
  ASSUME Inv, NEW k \in Consumidores, EjAck(k)
  PROVE  Inv'
<1>1. PICK id : id = Head(copias[k])
  OBVIOUS
<1>2. /\ k \in consumers /\ copias[k] # << >> /\ copias[k] \in Seq(Nat)
      /\ copias' = [copias EXCEPT ![k] = Tail(@)]
      /\ acks' = [acks EXCEPT ![k] = Append(@, id)]
      /\ disco' = [disco EXCEPT !.acks = ConAck(k, id)]
      /\ creado' = creado /\ messages' = messages /\ id_counter' = id_counter
      /\ consumers' = consumers /\ cola' = cola /\ hilo' = hilo
      /\ publicados' = publicados /\ desde' = desde /\ vistos' = vistos
      /\ acks[k] \in Seq(Nat) /\ id_counter \in Nat
  BY <1>1, Elementos DEF EjAck, Ack, Inv, Tipado
<1>3. /\ Tail(copias[k]) \in Seq(Nat) /\ id \in Nat
      /\ ToSet(copias[k]) = {id} \cup ToSet(Tail(copias[k]))
      /\ Append(acks[k], id) \in Seq(Nat)
      /\ ToSet(Append(acks[k], id)) = ToSet(acks[k]) \cup {id}
  BY <1>1, <1>2, DelPrincipio, AlFinal
<1>4. /\ copias'[k] = Tail(copias[k]) /\ acks'[k] = Append(acks[k], id)
      /\ \A j \in Consumidores : j # k => copias'[j] = copias[j] /\ acks'[j] = acks[j]
      /\ copias' \in [Consumidores -> Seq(Nat)] /\ acks' \in [Consumidores -> Seq(Nat)]
  BY <1>2, <1>3 DEF Inv, Tipado
<1>5. /\ disco' = [datos |-> disco.datos, rel |-> disco.rel, acks |-> ConAck(k, id)]
      /\ disco'.datos = disco.datos /\ disco'.rel = disco.rel
      /\ disco'.acks = ConAck(k, id)
  <2>1. disco = [datos |-> disco.datos, rel |-> disco.rel, acks |-> disco.acks]
    BY DEF Inv, Archivos
  <2>2. QED
    BY <1>2, <2>1
<1>6. /\ DOMAIN disco'.acks = DOMAIN disco.acks \cup {k}
      /\ disco'.acks[k] = id
      /\ \A j \in DOMAIN disco.acks : j # k => disco'.acks[j] = disco.acks[j]
  BY <1>5 DEF ConAck
<1>7. /\ consumers \subseteq DOMAIN disco.acks /\ consumers # {} /\ creado
      /\ EnColaDe(k) /\ id < id_counter
  BY <1>2, <1>3 DEF Inv, Archivos, EnCola, EnColaDe
<1>8. Tipado'
  BY <1>2, <1>4 DEF Inv, Tipado
<1>9. Archivos'
  <2>1. \A j \in consumers : disco'.acks[j] \in 0..id_counter
    BY <1>2, <1>3, <1>6, <1>7 DEF Inv, Archivos
  <2>2. QED
    BY <1>2, <1>5, <1>6, <1>7, <2>1 DEF Inv, Archivos
<1>10. EnCola'
  <2>1. EnColaDe(k)'
    BY <1>2, <1>3, <1>4, <1>7 DEF EnColaDe
  <2>2. ASSUME NEW j \in Consumidores, j # k
        PROVE  EnColaDe(j)'
    BY <1>2, <1>4, <2>2 DEF Inv, EnCola, EnColaDe
  <2>3. QED
    BY <2>1, <2>2 DEF EnCola
<1>11. SinHuecos'
  <2>1. \A j, m : Visto(j, m)' <=> Visto(j, m)
    BY <1>2 DEF Visto
  <2>2. SinHuecosDe(k)'
    BY <1>2, <1>3, <1>4, <1>6, <2>1 DEF Inv, SinHuecos, SinHuecosDe
  <2>3. ASSUME NEW j \in consumers, j # k
        PROVE  SinHuecosDe(j)'
    <3>1. j \in Consumidores /\ disco'.acks[j] = disco.acks[j]
      BY <1>6, <1>7, <2>3 DEF Inv, Tipado
    <3>2. QED
      BY <1>2, <1>4, <2>1, <2>3, <3>1 DEF Inv, SinHuecos, SinHuecosDe
  <2>4. QED
    BY <1>2, <2>2, <2>3 DEF SinHuecos
<1>12. QED
  BY <1>8, <1>9, <1>10, <1>11 DEF Inv

-----------------------------------------------------------------------------
(* The thread of a consumer                                                *)

(* It touches only what is its own.                                        *)
LEMMA SoloLoSuyo ==
  ASSUME Inv, NEW k \in consumers, UNCHANGED stream,
         cola' \in [Consumidores -> Seq(Mensajes)],
         acks' \in [Consumidores -> Seq(Nat)],
         copias' \in [Consumidores -> Seq(Nat)],
         hilo' \in [Consumidores -> Hilos],
         vistos' \in [Consumidores -> SUBSET Nat],
         \A j \in Consumidores : j # k =>
           /\ cola'[j] = cola[j] /\ acks'[j] = acks[j] /\ copias'[j] = copias[j]
           /\ hilo'[j] = hilo[j] /\ vistos'[j] = vistos[j],
         EnColaDe(k)', SinHuecosDe(k)'
  PROVE  Inv'
<1>1. /\ creado' = creado /\ messages' = messages /\ id_counter' = id_counter
      /\ consumers' = consumers /\ disco' = disco /\ publicados' = publicados
      /\ desde' = desde
  BY DEF stream
<1>2. Tipado'
  BY <1>1 DEF Inv, Tipado
<1>3. Archivos'
  BY <1>1 DEF Inv, Archivos
<1>4. ASSUME NEW j \in Consumidores, j # k
      PROVE  EnColaDe(j)' /\ (j \in consumers => SinHuecosDe(j)')
  <2>1. \A m : Visto(j, m)' <=> Visto(j, m)
    BY <1>1, <1>4 DEF Visto
  <2>2. EnColaDe(j) /\ (j \in consumers => SinHuecosDe(j))
    BY <1>4 DEF Inv, EnCola, SinHuecos
  <2>3. EnColaDe(j)'
    BY <1>1, <1>4, <2>2 DEF EnColaDe
  <2>4. j \in consumers => SinHuecosDe(j)'
    BY <1>1, <1>4, <2>1, <2>2 DEF SinHuecosDe
  <2>5. QED
    BY <2>3, <2>4
<1>5. EnCola' /\ SinHuecos'
  BY <1>1, <1>4 DEF EnCola, SinHuecos, Inv, Tipado
<1>6. QED
  BY <1>2, <1>3, <1>5 DEF Inv

(* A copy is sent of a message that all the earlier ones were sent before. *)
LEMMA Enviado ==
  ASSUME Inv, NEW k \in consumers, NEW m \in ToSet(messages), Envia(k, m),
         desde' = desde
  PROVE  /\ copias' \in [Consumidores -> Seq(Nat)]
         /\ vistos' \in [Consumidores -> SUBSET Nat]
         /\ ToSet(copias'[k]) = ToSet(copias[k]) \cup {m.id}
         /\ \A j \in Consumidores : j # k =>
              copias'[j] = copias[j] /\ vistos'[j] = vistos[j]
         /\ \A x : Visto(k, x) => Visto(k, x)'
         /\ Visto(k, m)'
<1>1. /\ k \in Consumidores /\ copias[k] \in Seq(Nat) /\ m.id \in Nat /\ m.n \in Nat
      /\ copias \in [Consumidores -> Seq(Nat)]
      /\ vistos \in [Consumidores -> SUBSET Nat]
      /\ copias' = [copias EXCEPT ![k] = Append(@, m.id)]
      /\ vistos' = [vistos EXCEPT ![k] = @ \cup {m.n}]
  BY Elementos DEF Inv, Tipado, Envia
<1>2. /\ Append(copias[k], m.id) \in Seq(Nat)
      /\ ToSet(Append(copias[k], m.id)) = ToSet(copias[k]) \cup {m.id}
  BY <1>1, AlFinal
<1>3. copias'[k] = Append(copias[k], m.id) /\ vistos'[k] = vistos[k] \cup {m.n}
  BY <1>1
<1>4. /\ copias' \in [Consumidores -> Seq(Nat)]
      /\ vistos' \in [Consumidores -> SUBSET Nat]
      /\ \A j \in Consumidores : j # k =>
           copias'[j] = copias[j] /\ vistos'[j] = vistos[j]
  BY <1>1, <1>2
<1>5. (\A x : Visto(k, x) => Visto(k, x)') /\ Visto(k, m)'
  BY <1>3 DEF Visto
<1>6. QED
  BY <1>2, <1>3, <1>4, <1>5

(* What comes before the message in the thread's hands was sent.           *)
LEMMA EnMano ==
  ASSUME Inv, NEW k \in Consumidores, hilo[k].fase = "ack"
  PROVE  /\ k \in consumers /\ hilo[k].m \in ToSet(messages)
         /\ \A m \in ToSet(messages) : m.id < hilo[k].m.id => Visto(k, m)
<1>1. /\ k \in consumers /\ hilo[k].m \in ToSet(messages)
      /\ \A m \in ToSet(cola[k]) : hilo[k].m.id < m.id
  BY DEF Inv, EnCola, EnColaDe
<1>2. ASSUME NEW m \in ToSet(messages), m.id < hilo[k].m.id
      PROVE  Visto(k, m)
  <2>1. m.id \in Nat /\ hilo[k].m.id \in Nat
    BY <1>1, Elementos DEF Inv
  <2>2. m \notin ToSet(cola[k])
    BY <1>1, <1>2, <2>1
  <2>3. QED
    BY <1>1, <2>2 DEF Inv, SinHuecos, SinHuecosDe
<1>3. QED
  BY <1>1, <1>2

LEMMA TomaInv ==
  ASSUME Inv, NEW k \in Consumidores, Toma(k)
  PROVE  Inv'
<1>1. PICK m : m = Head(cola[k])
  OBVIOUS
<1>2. /\ k \in consumers /\ cola[k] # << >> /\ cola[k] \in Seq(Mensajes)
      /\ Ordenada(cola[k]) /\ hilo[k].fase = "espera"
      /\ cola' = [cola EXCEPT ![k] = Tail(@)]
      /\ UNCHANGED stream /\ acks' = acks
      /\ messages' = messages /\ consumers' = consumers /\ desde' = desde
      /\ id_counter' = id_counter /\ disco' = disco
      /\ EnColaDe(k) /\ SinHuecosDe(k)
  BY DEF Toma, stream, Inv, Tipado, EnCola, EnColaDe, SinHuecos
<1>3. /\ Tail(cola[k]) \in Seq(Mensajes)
      /\ ToSet(cola[k]) = {m} \cup ToSet(Tail(cola[k]))
      /\ Ordenada(Tail(cola[k]))
      /\ \A x \in ToSet(Tail(cola[k])) : m.id < x.id
  BY <1>1, <1>2, DelPrincipio, OrdenadaDelPrincipio
<1>4. /\ cola'[k] = Tail(cola[k])
      /\ cola' \in [Consumidores -> Seq(Mensajes)]
      /\ \A j \in Consumidores : j # k => cola'[j] = cola[j]
  BY <1>2, <1>3 DEF Inv, Tipado
<1>5. /\ m \in ToSet(messages) /\ m.id \in Nat
      /\ \A x \in ToSet(messages) : x.id \in Nat
      /\ m.id < id_counter
  BY <1>2, <1>3, Elementos DEF Inv, EnColaDe
<1>6. ASSUME NEW x \in ToSet(messages)
      PROVE  Visto(k, x) \/ x = m \/ x \in ToSet(cola'[k])
  BY <1>2, <1>3, <1>4 DEF SinHuecosDe
<1>7. CASE Procesado(k, m)
  <2>1. hilo' = hilo /\ copias' = copias /\ vistos' = vistos
    BY <1>1, <1>7 DEF Toma
  <2>2. \A x : Visto(k, x)' <=> Visto(k, x)
    BY <1>2, <2>1 DEF Visto
  <2>3. Visto(k, m)
    BY <1>2, <1>5, <1>7, Elementos DEF Procesado, SinHuecosDe, Inv
  <2>4. EnColaDe(k)'
    BY <1>2, <1>3, <1>4, <2>1 DEF EnColaDe
  <2>5. SinHuecosDe(k)'
    BY <1>2, <1>6, <2>1, <2>2, <2>3 DEF SinHuecosDe
  <2>6. QED
    BY <1>2, <1>4, <2>1, <2>4, <2>5, SoloLoSuyo DEF Inv, Tipado
<1>8. CASE ~Procesado(k, m)
  <2>1. PICK h : h = [fase |-> "ack", ack |-> hilo[k].ack, m |-> m,
                      contador |-> UnoMas(hilo[k].contador)]
    OBVIOUS
  <2>2. Envia(k, m) /\ hilo' = [hilo EXCEPT ![k] = h]
    BY <1>1, <1>8, <2>1 DEF Toma
  <2>3. /\ copias' \in [Consumidores -> Seq(Nat)]
        /\ vistos' \in [Consumidores -> SUBSET Nat]
        /\ ToSet(copias'[k]) = ToSet(copias[k]) \cup {m.id}
        /\ \A j \in Consumidores : j # k =>
             copias'[j] = copias[j] /\ vistos'[j] = vistos[j]
        /\ \A x : Visto(k, x) => Visto(k, x)'
        /\ Visto(k, m)'
    BY <1>2, <1>5, <2>2, Enviado
  <2>4. h \in Hilos /\ h.fase = "ack" /\ h.m = m /\ h.ack = hilo[k].ack
    <3>1. hilo[k].ack \in Nat /\ UnoMas(hilo[k].contador) \in 0..Limite /\ m \in Mensajes
      BY <1>5, Elementos, JetStreamAssumption DEF Inv, UnoMas
    <3>2. QED
      BY <2>1, <3>1 DEF Hilos
  <2>5. /\ hilo'[k] = h /\ hilo' \in [Consumidores -> Hilos]
        /\ \A j \in Consumidores : j # k => hilo'[j] = hilo[j]
    BY <2>2, <2>4 DEF Inv, Tipado
  <2>6. EnColaDe(k)'
    BY <1>2, <1>3, <1>4, <1>5, <2>3, <2>4, <2>5 DEF EnColaDe
  <2>7. SinHuecosDe(k)'
    <3>1. ASSUME NEW x \in ToSet(messages), x.id < m.id
          PROVE  Visto(k, x)
      <4>1. x # m /\ x \notin ToSet(cola'[k])
        BY <1>3, <1>4, <1>5, <3>1
      <4>2. QED
        BY <1>6, <4>1
    <3>2. QED
      BY <1>2, <1>6, <2>3, <2>4, <2>5, <3>1 DEF SinHuecosDe
  <2>8. QED
    BY <1>2, <1>4, <2>3, <2>5, <2>6, <2>7, SoloLoSuyo DEF Inv, Tipado
<1>9. QED
  BY <1>7, <1>8

(* The thread goes on with the next message.                               *)
LEMMA Avanza ==
  ASSUME Inv, NEW k \in Consumidores, hilo[k].fase = "ack", Siguiente(k),
         UNCHANGED stream, copias' = copias, vistos' = vistos, cola' = cola,
         acks' \in [Consumidores -> Seq(Nat)],
         \A j \in Consumidores : j # k => acks'[j] = acks[j],
         ToSet(acks'[k]) \subseteq ToSet(acks[k])
  PROVE  Inv'
<1>1. PICK h : h = [fase |-> "espera", ack |-> hilo[k].m.id, contador |-> hilo[k].contador]
  OBVIOUS
<1>2. /\ k \in consumers /\ hilo[k].m \in ToSet(messages)
      /\ \A m \in ToSet(messages) : m.id < hilo[k].m.id => Visto(k, m)
  BY EnMano
<1>3. /\ h \in Hilos /\ h.fase = "espera" /\ h.ack = hilo[k].m.id
      /\ hilo[k].m.id < id_counter /\ id_counter \in Nat /\ hilo[k].m.id \in Nat
  <2>1. /\ hilo[k].m.id \in Nat /\ hilo[k].contador \in 0..Limite
        /\ hilo[k].m.id < id_counter /\ id_counter \in Nat
    BY <1>2, Elementos DEF Inv
  <2>2. QED
    BY <1>1, <2>1 DEF Hilos
<1>4. /\ hilo'[k] = h /\ hilo' \in [Consumidores -> Hilos]
      /\ \A j \in Consumidores : j # k => hilo'[j] = hilo[j]
  BY <1>1, <1>3 DEF Siguiente, Inv, Tipado
<1>5. /\ messages' = messages /\ id_counter' = id_counter /\ consumers' = consumers
      /\ disco' = disco /\ desde' = desde /\ EnColaDe(k) /\ SinHuecosDe(k)
  BY <1>2 DEF stream, Inv, EnCola, SinHuecos
<1>6. \A x : Visto(k, x)' <=> Visto(k, x)
  BY <1>5 DEF Visto
<1>7. EnColaDe(k)'
  BY <1>2, <1>3, <1>4, <1>5 DEF EnColaDe
<1>8. SinHuecosDe(k)'
  BY <1>2, <1>3, <1>4, <1>5, <1>6 DEF SinHuecosDe
<1>9. QED
  BY <1>2, <1>4, <1>7, <1>8, SoloLoSuyo DEF Inv, Tipado

LEMMA RecibeAckInv ==
  ASSUME Inv, NEW k \in Consumidores, RecibeAck(k)
  PROVE  Inv'
<1>1. /\ acks[k] # << >> /\ acks[k] \in Seq(Nat) /\ acks' = [acks EXCEPT ![k] = Tail(@)]
      /\ acks \in [Consumidores -> Seq(Nat)]
  BY DEF RecibeAck, Inv, Tipado
<1>2. Tail(acks[k]) \in Seq(Nat) /\ ToSet(Tail(acks[k])) \subseteq ToSet(acks[k])
  BY <1>1, DelPrincipio
<1>3. /\ acks' \in [Consumidores -> Seq(Nat)] /\ acks'[k] = Tail(acks[k])
      /\ \A j \in Consumidores : j # k => acks'[j] = acks[j]
  BY <1>1, <1>2
<1>4. QED
  BY <1>2, <1>3, Avanza DEF RecibeAck

LEMMA VenceInv ==
  ASSUME Inv, NEW k \in Consumidores, Vence(k)
  PROVE  Inv'
<1>1. CASE Rinde(k)
  BY <1>1, Avanza DEF Vence, Rinde, Inv, Tipado
<1>2. CASE Insiste(k)
  <2>1. PICK m : m = hilo[k].m
    OBVIOUS
  <2>2. /\ hilo[k].fase = "ack" /\ Envia(k, m)
        /\ hilo' = [hilo EXCEPT ![k].contador = UnoMas(@)]
        /\ UNCHANGED stream /\ cola' = cola /\ acks' = acks
        /\ messages' = messages /\ consumers' = consumers /\ desde' = desde
        /\ id_counter' = id_counter /\ disco' = disco
    BY <1>2, <2>1 DEF Vence, Insiste, Reenvia, stream
  <2>3. /\ k \in consumers /\ m \in ToSet(messages)
        /\ \A x \in ToSet(messages) : x.id < m.id => Visto(k, x)
        /\ EnColaDe(k) /\ SinHuecosDe(k)
        /\ m.id \in Nat /\ m.id < id_counter
    BY <2>1, <2>2, EnMano, Elementos DEF Inv, EnCola, SinHuecos
  <2>4. /\ copias' \in [Consumidores -> Seq(Nat)]
        /\ vistos' \in [Consumidores -> SUBSET Nat]
        /\ ToSet(copias'[k]) = ToSet(copias[k]) \cup {m.id}
        /\ \A j \in Consumidores : j # k =>
             copias'[j] = copias[j] /\ vistos'[j] = vistos[j]
        /\ \A x : Visto(k, x) => Visto(k, x)'
        /\ Visto(k, m)'
    BY <2>2, <2>3, Enviado
  <2>5. PICK h : h = [hilo[k] EXCEPT !.contador = UnoMas(@)]
    OBVIOUS
  <2>6. /\ h \in Hilos /\ h.fase = "ack" /\ h.m = m /\ h.ack = hilo[k].ack
    <3>1. hilo[k] \in Hilos /\ hilo[k].fase = "ack"
      BY <2>2, Elementos DEF Inv, Tipado
    <3>2. hilo[k] \in [fase : {"ack"}, ack : Nat, m : Mensajes, contador : 0..Limite]
      BY <3>1 DEF Hilos
    <3>3. UnoMas(hilo[k].contador) \in 0..Limite
      BY <3>2, JetStreamAssumption DEF UnoMas
    <3>4. QED
      BY <2>1, <2>5, <3>2, <3>3 DEF Hilos
  <2>7. /\ hilo'[k] = h /\ hilo' \in [Consumidores -> Hilos]
        /\ \A j \in Consumidores : j # k => hilo'[j] = hilo[j]
    BY <2>2, <2>5, <2>6 DEF Inv, Tipado
  <2>8. EnColaDe(k)'
    BY <2>1, <2>2, <2>3, <2>4, <2>6, <2>7 DEF EnColaDe
  <2>9. SinHuecosDe(k)'
    BY <2>2, <2>3, <2>4, <2>6, <2>7 DEF SinHuecosDe
  <2>10. QED
    BY <2>2, <2>3, <2>4, <2>7, <2>8, <2>9, SoloLoSuyo DEF Inv, Tipado
<1>3. QED
  BY <1>1, <1>2 DEF Vence

-----------------------------------------------------------------------------
(* The restart                                                             *)

(* The ids that are found in the file tell the next one.                   *)
LEMMA SiguienteId ==
  ASSUME NEW s \in Seq(Mensajes), s # << >>,
         \A i \in 1..Len(s) : s[i].id = i - 1
  PROVE  Max({m.id + 1 : m \in ToSet(s)}) = Len(s)
<1> DEFINE S == {m.id + 1 : m \in ToSet(s)}
<1>1. Len(s) \in Nat \ {0} /\ DOMAIN s = 1..Len(s)
  BY EmptySeq, LenProperties
<1>2. Len(s) \in S
  <2>1. PICK m : m = s[Len(s)]
    OBVIOUS
  <2>2. m \in ToSet(s) /\ m.id + 1 = Len(s)
    BY <1>1, <2>1 DEF ToSet
  <2>3. QED
    BY <2>2
<1>3. \A x \in S : x \in Nat /\ x <= Len(s)
  <2>1. ASSUME NEW m \in ToSet(s)
        PROVE  m.id + 1 \in Nat /\ m.id + 1 <= Len(s)
    <3>1. PICK i \in 1..Len(s) : m = s[i]
      BY <1>1, <2>1 DEF ToSet
    <3>2. QED
      BY <1>1, <3>1
  <2>2. QED
    BY <2>1
<1> HIDE DEF S
<1>4. \A x \in S : (\A y \in S : x >= y) <=> x = Len(s)
  BY <1>1, <1>2, <1>3
<1>5. Max(S) = Len(s)
  BY <1>2, <1>4 DEF Max
<1>6. QED
  BY <1>5 DEF S

(* Of a file that agrees with the memory, and no text of which has pieces, *)
(* every message comes back with its id; only its text may be another.     *)
LEMMA LeidosConcuerdan ==
  ASSUME Tipado, NEW filas, Concuerdan(filas, messages), SinPiezas(filas), NEW s,
         s = Leidos(filas)
  PROVE  /\ s \in Seq(Mensajes) /\ Len(s) = Len(messages)
         /\ Concuerdan(filas, s)
         /\ \A i \in 1..Len(s) : s[i].id = messages[i].id /\ s[i].n = messages[i].n
         /\ s = [i \in 1..Len(messages) |-> Leido(messages[i])]
<1>1. /\ filas \in Seq(Mensajes) /\ Len(filas) = Len(messages)
      /\ DOMAIN filas = 1..Len(messages) /\ Len(messages) \in Nat
      /\ messages \in Seq(Mensajes)
  BY LenProperties DEF Concuerdan, Tipado
<1>2. s = [i \in 1..Len(messages) |-> Leido(filas[i])]
  BY <1>1 DEF Leidos
<1>3. ASSUME NEW i \in 1..Len(messages)
      PROVE  /\ Leido(filas[i]) \in Mensajes
             /\ Leido(filas[i]) = Leido(messages[i])
             /\ Leido(filas[i]).id = messages[i].id
             /\ Leido(filas[i]).n = messages[i].n
             /\ Leido(filas[i]).id = filas[i].id
             /\ Leido(filas[i]).n = filas[i].n
             /\ Queda[Leido(filas[i]).texto] = Queda[filas[i].texto]
  <2>1. PICK f \in Mensajes : f = filas[i]
    BY <1>1
  <2>2. PICK m \in Mensajes : m = messages[i]
    BY <1>1
  <2>3. f.id = m.id /\ f.n = m.n /\ Queda[f.texto] = Queda[m.texto]
    BY <2>1, <2>2 DEF Concuerdan
  <2>4. f.texto \in Textos /\ Queda[f.texto] \in Textos
        /\ Queda[Queda[f.texto]] = Queda[f.texto]
    BY JetStreamAssumption DEF Mensajes
  <2>5. /\ Leido(f) = [id |-> f.id, n |-> f.n, texto |-> Queda[f.texto]]
        /\ Leido(m) = [id |-> m.id, n |-> m.n, texto |-> Queda[m.texto]]
    BY DEF Leido, Mensajes
  <2>6. Leido(f) \in Mensajes
    BY <2>4, <2>5 DEF Mensajes
  <2>7. Leido(f) = Leido(m)
    BY <2>3, <2>5
  <2>8. Leido(f).id = m.id /\ Leido(f).n = m.n /\ Leido(f).texto = Queda[f.texto]
    BY <2>3, <2>5
  <2>9. QED
    BY <2>1, <2>2, <2>3, <2>4, <2>6, <2>7, <2>8
<1>4. s \in Seq(Mensajes) /\ Len(s) = Len(messages)
  BY <1>1, <1>2, <1>3
<1>5. s = [i \in 1..Len(messages) |-> Leido(messages[i])]
  BY <1>2, <1>3
<1>6. \A i \in 1..Len(messages) : s[i] = Leido(filas[i])
  BY <1>2
<1>7. Concuerdan(filas, s)
  BY <1>1, <1>3, <1>4, <1>6 DEF Concuerdan
<1>8. QED
  BY <1>3, <1>4, <1>5, <1>6, <1>7

(* Files d that agree with the memory, in what they hold, give it back.    *)
LEMMA CargaInv ==
  ASSUME Inv, NEW d, d = [datos |-> d.datos, rel |-> d.rel, acks |-> d.acks],
         d.datos.hay /\ d.rel.hay =>
           /\ Concuerdan(d.datos.filas, messages) /\ SinPiezas(d.datos.filas)
           /\ d.rel.filas \cap DOMAIN d.acks \subseteq consumers
           /\ \A k \in d.rel.filas \cap DOMAIN d.acks : d.acks[k] = disco.acks[k],
         Carga(d), UNCHANGED <<publicados, desde, vistos>>
  PROVE  Inv'
<1>1. disco' = d
  BY DEF Carga
<1>2. ASSUME ~(d.datos.hay /\ d.rel.hay)
      PROVE  Inv'
  <2>1. /\ creado' = FALSE /\ messages' = << >> /\ id_counter' = 0 /\ consumers' = {}
        /\ hilo' = [k \in Consumidores |-> HiloNuevo(0)]
        /\ cola' = [k \in Consumidores |-> << >>]
        /\ acks' = [k \in Consumidores |-> << >>]
        /\ copias' = [k \in Consumidores |-> << >>]
    BY <1>2 DEF Carga
  <2>2. HiloNuevo(0) \in Hilos /\ HiloNuevo(0).fase = "espera"
    BY JetStreamAssumption DEF HiloNuevo, Hilos
  <2>3. messages' \in Seq(Mensajes) /\ Len(messages') = 0 /\ ToSet(messages)' = {}
    BY <2>1, Vacia
  <2>4. Tipado'
    <3>1. \A i \in 1..Len(messages') : messages'[i].id = i - 1
      BY <2>3
    <3>2. /\ hilo' \in [Consumidores -> Hilos]
          /\ cola' \in [Consumidores -> Seq(Mensajes)]
          /\ acks' \in [Consumidores -> Seq(Nat)]
          /\ copias' \in [Consumidores -> Seq(Nat)]
      BY <2>1, <2>2
    <3>3. QED
      BY <2>1, <2>3, <3>1, <3>2 DEF Inv, Tipado
  <2>5. Archivos'
    BY <1>1, <1>2, <2>1 DEF Archivos
  <2>6. EnCola'
    BY <2>1, <2>2, <2>3, Vacia DEF EnCola, EnColaDe
  <2>7. SinHuecos'
    BY <2>1 DEF SinHuecos
  <2>8. QED
    BY <2>4, <2>5, <2>6, <2>7 DEF Inv
<1>3. ASSUME d.datos.hay, d.rel.hay
      PROVE  Inv'
  <2>1. PICK cs : cs = d.rel.filas \cap DOMAIN d.acks
    OBVIOUS
  <2>2. /\ cs \subseteq consumers /\ cs \subseteq Consumidores
        /\ \A k \in cs : d.acks[k] = disco.acks[k] /\ disco.acks[k] \in 0..id_counter
    BY <1>3, <2>1 DEF Inv, Tipado, Archivos
  <2> DEFINE s == messages'
  <2>3. /\ creado' = TRUE /\ consumers' = cs
        /\ acks' = [k \in Consumidores |-> << >>]
        /\ copias' = [k \in Consumidores |-> << >>]
        /\ cola' = [k \in Consumidores |-> IF k \in cs THEN s ELSE << >>]
        /\ hilo' = [k \in Consumidores |->
                      HiloNuevo(IF k \in cs THEN d.acks[k] ELSE 0)]
        /\ id_counter' = IF s = << >> THEN 0 ELSE Max({m.id + 1 : m \in ToSet(s)})
        /\ s = Leidos(d.datos.filas)
    BY <1>3, <2>1, <2>2 DEF Carga
  <2> HIDE DEF s
  <2>4. /\ s \in Seq(Mensajes) /\ Len(s) = Len(messages) /\ Len(s) \in Nat
        /\ DOMAIN s = 1..Len(s)
        /\ Concuerdan(d.datos.filas, s)
        /\ \A i \in 1..Len(s) :
             s[i].id = messages[i].id /\ s[i].n = messages[i].n /\ s[i].id = i - 1
    <3>1. /\ s \in Seq(Mensajes) /\ Len(s) = Len(messages)
          /\ Concuerdan(d.datos.filas, s)
          /\ \A i \in 1..Len(s) : s[i].id = messages[i].id /\ s[i].n = messages[i].n
      BY <1>3, <2>3, LeidosConcuerdan DEF Inv
    <3>2. QED
      BY <3>1, LenProperties DEF Inv, Tipado
  <2>5. id_counter' = id_counter /\ id_counter \in Nat
    <3>1. id_counter = Len(s) /\ id_counter \in Nat
      BY <2>4 DEF Inv, Tipado
    <3>2. CASE s = << >>
      BY <2>3, <3>1, <3>2
    <3>3. CASE s # << >>
      BY <2>3, <2>4, <3>1, <3>3, SiguienteId
    <3>4. QED
      BY <3>1, <3>2, <3>3
  <2>6. ASSUME NEW x \in ToSet(s)
        PROVE  \E m \in ToSet(messages) : x.id = m.id /\ x.n = m.n
    <3>1. PICK i \in 1..Len(s) : x = s[i]
      BY <2>4, <2>6 DEF ToSet
    <3>2. messages[i] \in ToSet(messages)
      BY <2>4, LenProperties DEF Inv, Tipado, ToSet
    <3>3. QED
      BY <2>4, <3>1, <3>2
  <2>7. ASSUME NEW k \in Consumidores
        PROVE  /\ hilo'[k] \in Hilos /\ hilo'[k].fase = "espera"
               /\ k \in cs => hilo'[k].ack = disco.acks[k] /\ cola'[k] = s
               /\ k \notin cs => cola'[k] = << >>
               /\ acks'[k] = << >> /\ copias'[k] = << >>
    <3>1. PICK n \in Nat : /\ n = IF k \in cs THEN d.acks[k] ELSE 0
                           /\ hilo'[k] = HiloNuevo(n)
      BY <2>2, <2>3, <2>5
    <3>2. HiloNuevo(n) \in Hilos /\ HiloNuevo(n).fase = "espera" /\ HiloNuevo(n).ack = n
      BY JetStreamAssumption DEF HiloNuevo, Hilos
    <3>3. QED
      BY <2>2, <2>3, <3>1, <3>2
  <2>8. Tipado'
    <3>1. /\ hilo' \in [Consumidores -> Hilos]
          /\ cola' \in [Consumidores -> Seq(Mensajes)]
          /\ acks' \in [Consumidores -> Seq(Nat)]
          /\ copias' \in [Consumidores -> Seq(Nat)]
      BY <2>3, <2>4, <2>7
    <3>2. id_counter = Len(s)
      BY <2>4 DEF Inv, Tipado
    <3>3. \A x \in ToSet(s) : x.n <= publicados
      BY <2>6 DEF Inv, Tipado
    <3>4. QED
      BY <2>2, <2>3, <2>4, <2>5, <3>1, <3>2, <3>3 DEF Inv, Tipado, s
  <2>9. Archivos'
    BY <1>1, <1>3, <2>1, <2>2, <2>3, <2>4, <2>5 DEF Archivos, s
  <2>10. EnCola'
    <3>1. Ordenada(s)
      BY <2>4 DEF Ordenada
    <3>2. \A k \in cs : disco.acks[k] <= id_counter
      BY <2>2, <2>5
    <3>3. QED
      BY <2>2, <2>3, <2>5, <2>7, <3>1, <3>2, Vacia DEF EnCola, EnColaDe, s
  <2>11. SinHuecos'
    <3>1. ASSUME NEW k \in cs
          PROVE  SinHuecosDe(k)'
      <4>1. /\ SinHuecosDe(k) /\ k \in Consumidores /\ disco'.acks[k] = disco.acks[k]
        BY <1>1, <2>2 DEF Inv, SinHuecos
      <4>2. ASSUME NEW x \in ToSet(s)
            PROVE  x.id < disco.acks[k] => Visto(k, x)'
        <5>1. PICK m \in ToSet(messages) : x.id = m.id /\ x.n = m.n
          BY <2>6, <4>2
        <5>2. m.id < disco.acks[k] => Visto(k, m)
          BY <4>1 DEF SinHuecosDe
        <5>3. QED
          BY <5>1, <5>2 DEF Visto
      <4>3. QED
        BY <2>3, <2>7, <4>1, <4>2, Vacia DEF SinHuecosDe, s
    <3>2. QED
      BY <2>3, <3>1 DEF SinHuecos
  <2>12. QED
    BY <2>8, <2>9, <2>10, <2>11 DEF Inv
<1>4. QED
  BY <1>2, <1>3

(* A load that altered nothing read the file as it was, without pieces.    *)
LEMMA ReiniciaInv ==
  ASSUME Inv, Reinicia, ~alterado'
  PROVE  Inv'
<1>1. Carga(disco) /\ UNCHANGED <<publicados, desde, vistos>>
  BY DEF Reinicia
<1>2. PICK d : d = disco
  OBVIOUS
<1>3. d.datos.hay /\ d.rel.hay => SinPiezas(d.datos.filas)
  BY <1>1, <1>2 DEF Carga
<1>4. /\ d = [datos |-> d.datos, rel |-> d.rel, acks |-> d.acks]
      /\ d.datos.hay /\ d.rel.hay =>
           /\ Concuerdan(d.datos.filas, messages) /\ SinPiezas(d.datos.filas)
           /\ d.rel.filas \cap DOMAIN d.acks \subseteq consumers
           /\ \A k \in d.rel.filas \cap DOMAIN d.acks : d.acks[k] = disco.acks[k]
  BY <1>2, <1>3 DEF Inv, Archivos
<1>5. QED
  BY <1>1, <1>2, <1>4, CargaInv

(* A stop in mid-write leaves one of the files without some of its rows,   *)
(* or the stream's row short.                                              *)
LEMMA Cortado ==
  ASSUME Filas, creado, NEW d \in Cortados
  PROVE  /\ d = [datos |-> d.datos, rel |-> d.rel, acks |-> d.acks]
         /\ d.rel.hay => d.rel.filas \subseteq disco.rel.filas
         /\ DOMAIN d.acks \subseteq DOMAIN disco.acks
         /\ \A k \in DOMAIN d.acks : d.acks[k] = disco.acks[k]
<1>1. disco = [datos |-> disco.datos, rel |-> disco.rel, acks |-> disco.acks]
  BY DEF Filas
<1>2. CASE \E x : d = [disco EXCEPT !.datos = x]
  <2>1. PICK x : d = [disco EXCEPT !.datos = x]
    BY <1>2
  <2>2. d = [datos |-> x, rel |-> disco.rel, acks |-> disco.acks]
    BY <1>1, <2>1
  <2>3. QED
    BY <2>2
<1>3. CASE \E x : d = [disco EXCEPT !.rel = x] /\ (x.hay => x.filas \subseteq disco.rel.filas)
  <2>1. PICK x : d = [disco EXCEPT !.rel = x] /\ (x.hay => x.filas \subseteq disco.rel.filas)
    BY <1>3
  <2>2. d = [datos |-> disco.datos, rel |-> x, acks |-> disco.acks]
    BY <1>1, <2>1
  <2>3. QED
    BY <2>1, <2>2
<1>4. CASE \E ks \in SUBSET DOMAIN disco.acks : d = [disco EXCEPT !.acks = Restrict(disco.acks, ks)]
  <2>1. PICK ks \in SUBSET DOMAIN disco.acks :
          d = [disco EXCEPT !.acks = Restrict(disco.acks, ks)]
    BY <1>4
  <2>2. PICK f : f = Restrict(disco.acks, ks)
    OBVIOUS
  <2>3. DOMAIN f = ks /\ \A k \in ks : f[k] = disco.acks[k]
    BY <2>2 DEF Restrict
  <2>4. d = [datos |-> disco.datos, rel |-> disco.rel, acks |-> f]
    BY <1>1, <2>1, <2>2
  <2>5. QED
    BY <2>3, <2>4
<1>5. SinFila.hay = FALSE /\ \A cs : Fila(cs).filas = cs
  BY DEF SinFila, Fila
<1>6. QED
  BY <1>2, <1>3, <1>4, <1>5 DEF Cortados

LEMMA ReiniciaEscribiendoInv ==
  ASSUME Filas, Inv, ReiniciaEscribiendo, ~alterado'
  PROVE  Inv'
<1>1. PICK d \in Cortados : Carga(d)
  BY DEF ReiniciaEscribiendo
<1>2. creado /\ UNCHANGED <<publicados, desde, vistos>>
  BY DEF ReiniciaEscribiendo
<1>3. d.datos.hay /\ d.rel.hay => SinPiezas(d.datos.filas) /\ d.datos = disco.datos
  BY <1>1 DEF Carga
<1>4. /\ d = [datos |-> d.datos, rel |-> d.rel, acks |-> d.acks]
      /\ d.datos.hay /\ d.rel.hay =>
           /\ Concuerdan(d.datos.filas, messages) /\ SinPiezas(d.datos.filas)
           /\ d.rel.filas \cap DOMAIN d.acks \subseteq consumers
           /\ \A k \in d.rel.filas \cap DOMAIN d.acks : d.acks[k] = disco.acks[k]
  BY <1>2, <1>3, Cortado DEF Inv, Archivos
<1>5. QED
  BY <1>1, <1>2, <1>4, CargaInv

-----------------------------------------------------------------------------
(* The rows, whatever was read from them                                   *)

LEMMA FilasAcks ==
  ASSUME Filas, NEW k, NEW id, k \in consumers,
         disco' = [disco EXCEPT !.acks = ConAck(k, id)],
         creado' = creado, consumers' = consumers
  PROVE  Filas'
<1>1. disco = [datos |-> disco.datos, rel |-> disco.rel, acks |-> disco.acks]
  BY DEF Filas
<1>2. disco' = [datos |-> disco.datos, rel |-> disco.rel, acks |-> ConAck(k, id)]
  BY <1>1
<1>3. DOMAIN ConAck(k, id) = DOMAIN disco.acks \cup {k}
  BY DEF ConAck
<1>4. creado /\ k \in DOMAIN disco.acks
  BY DEF Filas
<1>5. /\ disco'.datos = disco.datos /\ disco'.rel = disco.rel
      /\ DOMAIN disco'.acks = DOMAIN disco.acks
      /\ disco' = [datos |-> disco'.datos, rel |-> disco'.rel, acks |-> disco'.acks]
  BY <1>2, <1>3, <1>4
<1>6. QED
  BY <1>5 DEF Filas

LEMMA FilasCarga ==
  ASSUME NEW d, d = [datos |-> d.datos, rel |-> d.rel, acks |-> d.acks], Carga(d)
  PROVE  Filas'
  BY DEF Carga, Filas

LEMMA FilasNext ==
  ASSUME Filas, Next
  PROVE  Filas'
<1>1. disco = [datos |-> disco.datos, rel |-> disco.rel, acks |-> disco.acks]
  BY DEF Filas
<1>2. CASE CreateStream
  <2>1. disco' = [datos |-> Fila(<< >>), rel |-> Fila({}), acks |-> disco.acks]
    BY <1>1, <1>2 DEF CreateStream
  <2>2. /\ disco'.datos.hay /\ disco'.rel.hay /\ disco'.rel.filas = {}
        /\ disco' = [datos |-> disco'.datos, rel |-> disco'.rel, acks |-> disco'.acks]
    BY <2>1 DEF Fila
  <2>3. creado' = TRUE /\ consumers' = {}
    BY <1>2 DEF CreateStream
  <2>4. QED
    BY <2>2, <2>3 DEF Filas
<1>3. ASSUME NEW subject, NEW texto, StoreMsg(subject, texto)
      PROVE  Filas'
  <2>1. /\ disco' = [datos |-> Fila(messages'), rel |-> Fila(consumers), acks |-> disco.acks]
        /\ creado /\ creado' = creado /\ consumers' = consumers
    BY <1>1, <1>3 DEF StoreMsg
  <2>2. /\ disco'.datos.hay /\ disco'.rel.hay /\ disco'.rel.filas = consumers
        /\ disco'.acks = disco.acks
        /\ disco' = [datos |-> disco'.datos, rel |-> disco'.rel, acks |-> disco'.acks]
    BY <2>1 DEF Fila
  <2>3. QED
    BY <2>1, <2>2 DEF Filas
<1>4. ASSUME NEW k \in Consumidores, CreateConsumer(k)
      PROVE  Filas'
  <2>1. CASE k \in consumers
    BY <1>4, <2>1, FilasAcks DEF CreateConsumer, AddConsumer, Construido
  <2>2. CASE k \notin consumers
    <3>1. Construido(k) = [datos |-> disco.datos, rel |-> disco.rel, acks |-> ConAck(k, 0)]
      BY <1>1 DEF Construido
    <3>2. /\ disco' = [datos |-> disco.datos, rel |-> Fila(consumers \cup {k}),
                       acks |-> ConAck(k, 0)]
          /\ creado /\ creado' = creado /\ consumers' = consumers \cup {k}
      BY <1>4, <2>2, <3>1 DEF CreateConsumer, AddConsumer
    <3>3. DOMAIN ConAck(k, 0) = DOMAIN disco.acks \cup {k}
      BY DEF ConAck
    <3>4. /\ disco'.datos = disco.datos /\ disco'.rel.hay
          /\ disco'.rel.filas = consumers \cup {k}
          /\ DOMAIN disco'.acks = DOMAIN disco.acks \cup {k}
          /\ disco' = [datos |-> disco'.datos, rel |-> disco'.rel, acks |-> disco'.acks]
      BY <3>2, <3>3 DEF Fila
    <3>5. QED
      BY <3>2, <3>4 DEF Filas
  <2>3. QED
    BY <2>1, <2>2
<1>5. ASSUME NEW k \in Consumidores, EjAck(k)
      PROVE  Filas'
  BY <1>5, FilasAcks DEF EjAck, Ack
<1>6. ASSUME NEW k \in Consumidores, Hilo(k)
      PROVE  Filas'
  BY <1>6 DEF Hilo, Toma, RecibeAck, Vence, stream, Filas
<1>7. CASE Reinicia
  BY <1>1, <1>7, FilasCarga DEF Reinicia
<1>8. CASE ReiniciaEscribiendo
  BY <1>8, Cortado, FilasCarga DEF ReiniciaEscribiendo
<1>9. QED
  BY <1>2, <1>3, <1>4, <1>5, <1>6, <1>7, <1>8 DEF Next

-----------------------------------------------------------------------------
(* Nothing undoes what a load altered.                                     *)
LEMMA SigueAlterado == [Next]_vars => (alterado => alterado')
<1>1. SUFFICES ASSUME [Next]_vars, alterado
               PROVE  alterado'
  OBVIOUS
<1>2. CASE Reinicia \/ ReiniciaEscribiendo
  BY <1>1, <1>2 DEF Reinicia, ReiniciaEscribiendo, Carga
<1>3. CASE CreateStream \/ \E s \in ToSet(Subjects), t \in Textos : StoreMsg(s, t)
  BY <1>1, <1>3 DEF CreateStream, StoreMsg
<1>4. CASE \E k \in Consumidores : CreateConsumer(k) \/ EjAck(k) \/ Hilo(k)
  BY <1>1, <1>4 DEF CreateConsumer, EjAck, Hilo, Toma, RecibeAck, Vence, stream
<1>5. QED
  BY <1>1, <1>2, <1>3, <1>4 DEF Next, vars

LEMMA NextInv == Todo /\ [Next]_vars => Todo'
<1>1. SUFFICES ASSUME Filas, ~alterado => Inv, [Next]_vars
               PROVE  Filas' /\ (~alterado' => Inv')
  BY DEF Todo
<1>2. Filas'
  BY <1>1, FilasNext DEF Filas, vars
<1>3. ASSUME ~alterado'
      PROVE  Inv'
  <2>1. Inv
    BY <1>1, <1>3, SigueAlterado
  <2>2. CASE CreateStream \/ Reinicia \/ ReiniciaEscribiendo
    BY <1>1, <1>3, <2>1, <2>2, CreateStreamInv, ReiniciaInv, ReiniciaEscribiendoInv
  <2>3. CASE \E s \in ToSet(Subjects), t \in Textos : StoreMsg(s, t)
    BY <2>1, <2>3, StoreMsgInv
  <2>4. CASE \E k \in Consumidores : CreateConsumer(k) \/ EjAck(k) \/ Hilo(k)
    BY <2>1, <2>4, CreateConsumerInv, EjAckInv, TomaInv, RecibeAckInv, VenceInv DEF Hilo
  <2>5. CASE UNCHANGED vars
    BY <2>1, <2>5
    DEF vars, Inv, Tipado, Archivos, EnCola, EnColaDe, SinHuecos, SinHuecosDe, Visto
  <2>6. QED
    BY <1>1, <2>2, <2>3, <2>4, <2>5 DEF Next
<1>4. QED
  BY <1>2, <1>3

LEMMA TodoSiempre == Spec => []Todo
<1>1. Init => Filas
  BY DEF Init, Filas, SinFila
<1>2. QED
  BY <1>1, InitInv, NextInv, PTL DEF Spec, Todo

(* While no load altered them, the ids in memory are 0, 1, 2..., after any *)
(* number of restarts from the files, and every queue, copy and ack is of  *)
(* an id that was given.                                                   *)
THEOREM IdsSeguidosSiempre == Spec => []IdsSeguidos
<1>1. Todo => IdsSeguidos
  BY DEF Todo, Inv, Tipado, EnCola, EnColaDe, IdsSeguidos
<1>2. QED
  BY TodoSiempre, <1>1, PTL

(* Nor is a stored message skipped: the threads skip by the last           *)
(* acknowledged id only, and that id, whatever the order of acks, retries  *)
(* and restarts, never gets ahead of what was sent.                        *)
THEOREM NadaSeSalteaSiempre == Spec => []NadaSeSaltea
<1>1. Todo => NadaSeSaltea
  BY DEF Todo, Inv, SinHuecos, SinHuecosDe, Visto, NadaSeSaltea
<1>2. QED
  BY TodoSiempre, <1>1, PTL

(* Between two commands the files give back the consumers that memory has, *)
(* and, unless a text has pieces of its own, the messages with their ids.  *)
THEOREM ReinicioFielSiempre == Spec => []ReinicioFiel
<1>1. ASSUME Todo, creado
      PROVE  /\ disco.datos.hay /\ disco.rel.hay
             /\ consumers = disco.rel.filas \cap DOMAIN disco.acks
  BY <1>1 DEF Todo, Filas
<1>2. ASSUME Todo, creado, ~alterado, SinPiezas(disco.datos.filas)
      PROVE  Leidos(disco.datos.filas) = [i \in 1..Len(messages) |-> Leido(messages[i])]
  BY <1>2, LeidosConcuerdan DEF Todo, Inv, Archivos
<1>3. Todo => ReinicioFiel
  BY <1>1, <1>2 DEF ReinicioFiel
<1>4. QED
  BY TodoSiempre, <1>3, PTL
=============================================================================
