------------------------------ MODULE JetStream ------------------------------
(***************************************************************************)
(* One stream of the server (js.rs), the threads of its push consumers     *)
(* (consumer.rs), their three csv files (file_processing.rs), and the      *)
(* server going down and coming back from those files.                     *)
(*                                                                         *)
(* Each consumer thread takes one message at a time, publishes it on the   *)
(* delivery subject and waits half a second for an ack; the client library *)
(* acks every copy it receives, in order, sooner or later or never.        *)
(*                                                                         *)
(* A stream is one row of text in its file, cut at the commas when it is   *)
(* read.  A text is told by what becomes of it there: what is left of it   *)
(* before its first comma, and the pieces after its commas that start with *)
(* a number, which are taken for messages of their own.                    *)
(***************************************************************************)
EXTENDS Naturals, Sequences, SequencesExt, FiniteSetsExt

CONSTANTS
  Consumidores,  \* names of consumers
  Subjects,      \* the subjects the stream is created with, a sequence
  Limite,        \* sends after which a thread stops resending; 5 in the code
  Textos,        \* payloads
  Queda,         \* [Textos -> Textos]: the text up to its first comma, its
                 \*  words one blank apart
  Piezas,        \* [Textos -> the id and the text read from each piece]
  MaxMensajes,   \* bound of the model: messages ever stored
  Mandan,        \* bound of the model: [1..MaxMensajes -> texts it may have]
  MaxReinicios   \* bound of the model: times the server goes down

ASSUME JetStreamAssumption ==
  /\ Subjects # << >>
  /\ Limite \in Nat \ {0}
  /\ Queda \in [Textos -> Textos]
  /\ \A t \in Textos :
       /\ DOMAIN Piezas[t] = 1..Len(Piezas[t])
       /\ Queda[Queda[t]] = Queda[t] /\ Piezas[Queda[t]] = << >>
       /\ \A i \in DOMAIN Piezas[t] :
            /\ Piezas[t][i].id \in Nat /\ Piezas[t][i].texto \in Textos
            /\ Queda[Piezas[t][i].texto] = Piezas[t][i].texto
  /\ MaxMensajes \in Nat /\ MaxReinicios \in Nat
  /\ Mandan \in [1..MaxMensajes -> SUBSET Textos]

VARIABLES
  creado,        \* the stream exists in memory
  subjects,      \* the subjects it stores
  messages,      \* its messages: [id, n, texto], n is history (publicados)
  id_counter,
  consumers,     \* the consumers it has in memory
  last_acknoledged, \* [consumer -> PushConsumer.last_acknoledged]
  cola,          \* [consumer -> messages in the channel js to thread]
  acks,          \* [consumer -> acks in the channel to the thread]
  hilo,          \* [consumer -> the thread: what it waits for, its own
                 \*  last_acknoledged, its contador]
  copias,        \* [consumer -> ids its client received and did not ack yet]
  disco,         \* the csv files: datos, rel, acks
  reinicios,
  alterado,      \* history: a load gave back other ids than it was given
  publicados,    \* history: messages stored so far; numbers them
  desde,         \* history: [consumer -> publicados when it joined]
  vistos         \* history: [consumer -> messages it was sent at least once]

vars == <<creado, subjects, messages, id_counter, consumers, last_acknoledged,
          cola, acks, hilo, copias, disco, reinicios, alterado, publicados,
          desde, vistos>>

stream == <<creado, subjects, messages, id_counter, consumers, disco,
            alterado, publicados, desde>>

(* A file without the row of the stream, or of any consumer.               *)
SinFila == [hay |-> FALSE, filas |-> << >>]
Fila(x) == [hay |-> TRUE, filas |-> x]

HiloNuevo(ack) == [fase |-> "espera", ack |-> ack, contador |-> 0]

Init ==
  /\ creado = FALSE /\ subjects = {}
  /\ messages = << >> /\ id_counter = 0 /\ consumers = {}
  /\ last_acknoledged = [k \in Consumidores |-> 0]
  /\ cola = [k \in Consumidores |-> << >>]
  /\ acks = [k \in Consumidores |-> << >>]
  /\ hilo = [k \in Consumidores |-> HiloNuevo(0)]
  /\ copias = [k \in Consumidores |-> << >>]
  /\ disco = [datos |-> SinFila, rel |-> SinFila, acks |-> << >>]
  /\ reinicios = 0
  /\ alterado = FALSE
  /\ publicados = 0
  /\ desde = [k \in Consumidores |-> 0]
  /\ vistos = [k \in Consumidores |-> {}]

-----------------------------------------------------------------------------
(* The executor's side: create_stream, store_msg, create_consumer, ack     *)

(* A stream that exists is left alone.                                     *)
CreateStream ==
  /\ ~creado
  /\ creado' = TRUE /\ subjects' = ToSet(Subjects)
  /\ messages' = << >> /\ id_counter' = 0 /\ consumers' = {}
  /\ disco' = [disco EXCEPT !.datos = Fila(<< >>), !.rel = Fila({})]
  /\ UNCHANGED <<last_acknoledged, cola, acks, hilo, copias, reinicios,
                 alterado, publicados, desde, vistos>>

StoreMsg_SinContar(subject, texto) ==
  LET m == [id |-> id_counter, n |-> publicados + 1, texto |-> texto] IN
  /\ creado /\ subject \in subjects
  /\ publicados < MaxMensajes /\ texto \in Mandan[publicados + 1]
  /\ publicados' = publicados + 1
  /\ messages' = Append(messages, m)
  /\ cola' = [k \in Consumidores |->
                IF k \in consumers THEN Append(cola[k], m) ELSE cola[k]]
  /\ disco' = [disco EXCEPT !.datos = Fila(messages'),
                            !.rel = Fila(consumers)]
  /\ UNCHANGED <<creado, subjects, consumers, last_acknoledged, acks, hilo,
                 id_counter, copias, reinicios, alterado, desde, vistos>>

StoreMsg_GuardaAntes(subject, texto) ==
  LET m == [id |-> id_counter, n |-> publicados + 1, texto |-> texto] IN
  /\ creado /\ subject \in subjects
  /\ publicados < MaxMensajes /\ texto \in Mandan[publicados + 1]
  /\ publicados' = publicados + 1
  /\ messages' = Append(messages, m)
  /\ cola' = [k \in Consumidores |->
                IF k \in consumers THEN Append(cola[k], m) ELSE cola[k]]
  /\ id_counter' = id_counter + 1
  /\ disco' = [disco EXCEPT !.datos = Fila(messages),
                            !.rel = Fila(consumers)]
  /\ UNCHANGED <<creado, subjects, consumers, last_acknoledged, acks, hilo,
                 copias, reinicios, alterado, desde, vistos>>

(* Keep it, hand it to every consumer, then write both files.              *)
StoreMsg(subject, texto) ==
  LET m == [id |-> id_counter, n |-> publicados + 1, texto |-> texto] IN
  /\ creado /\ subject \in subjects
  /\ publicados < MaxMensajes /\ texto \in Mandan[publicados + 1]
  /\ publicados' = publicados + 1
  /\ messages' = Append(messages, m)
  /\ cola' = [k \in Consumidores |->
                IF k \in consumers THEN Append(cola[k], m) ELSE cola[k]]
  /\ id_counter' = id_counter + 1
  /\ disco' = [disco EXCEPT !.datos = Fila(messages'),
                            !.rel = Fila(consumers)]
  /\ UNCHANGED <<creado, subjects, consumers, last_acknoledged, acks, hilo,
                 copias, reinicios, alterado, desde, vistos>>

ConAck(k, id) == [j \in DOMAIN disco.acks \cup {k} |->
                    IF j = k THEN id ELSE disco.acks[j]]

(* A consumer writes its row, with nothing acknowledged, when it is built. *)
Construido(k) == [disco EXCEPT !.acks = ConAck(k, 0)]

(* Only then is one with its name looked for.  The one that is not needed  *)
(* goes away with its thread.                                              *)
AddConsumer(k) ==
  IF k \in consumers
  THEN /\ disco' = Construido(k)
       /\ UNCHANGED <<consumers, last_acknoledged, cola, acks, hilo, copias,
                      desde>>
  ELSE /\ consumers' = consumers \cup {k}
       /\ disco' = [Construido(k) EXCEPT !.rel = Fila(consumers \cup {k})]
       /\ last_acknoledged' = [last_acknoledged EXCEPT ![k] = 0]
       /\ cola' = [cola EXCEPT ![k] = << >>]
       /\ acks' = [acks EXCEPT ![k] = << >>]
       /\ hilo' = [hilo EXCEPT ![k] = HiloNuevo(0)]
       /\ copias' = [copias EXCEPT ![k] = << >>]
       /\ desde' = [desde EXCEPT ![k] = publicados]

(* Without the stream the client gets an error and nothing changes.        *)
CreateConsumer(k) ==
  /\ creado
  /\ AddConsumer(k)
  /\ UNCHANGED <<creado, subjects, messages, id_counter, reinicios, alterado,
                 publicados, vistos>>

(* Whatever its id, it is recorded, passed to the thread and written.      *)
Ack(k, id) ==
  /\ last_acknoledged' = [last_acknoledged EXCEPT ![k] = id]
  /\ acks' = [acks EXCEPT ![k] = Append(@, id)]
  /\ disco' = [disco EXCEPT !.acks = ConAck(k, id)]

(* The ack of the oldest copy the client has not acked yet; for a consumer *)
(* that is not there the client gets an error and nothing changes.         *)
EjAck(k) ==
  /\ k \in consumers /\ copias[k] # << >>
  /\ copias' = [copias EXCEPT ![k] = Tail(@)]
  /\ Ack(k, Head(copias[k]))
  /\ UNCHANGED <<creado, subjects, messages, id_counter, consumers, cola, hilo,
                 reinicios, alterado, publicados, desde, vistos>>

-----------------------------------------------------------------------------
(* The thread of a consumer                                                *)

UnoMas(contador) == IF contador < Limite THEN contador + 1 ELSE contador

(* send_msg: the executor delivers it to the subscribers.                  *)
Envia(k, m) ==
  /\ copias' = [copias EXCEPT ![k] = Append(@, m.id)]
  /\ vistos' = [vistos EXCEPT ![k] = @ \cup {m.n}]

Procesado_MenorOIgual(k, m) == hilo[k].ack >= m.id

Procesado(k, m) == hilo[k].ack > m.id

Toma(k) ==
  LET m == Head(cola[k]) IN
  /\ hilo[k].fase = "espera" /\ cola[k] # << >>
  /\ cola' = [cola EXCEPT ![k] = Tail(@)]
  /\ IF Procesado(k, m)
     THEN UNCHANGED <<hilo, copias, vistos>>
     ELSE /\ Envia(k, m)
          /\ hilo' = [hilo EXCEPT ![k] =
                        [fase |-> "ack", ack |-> @.ack, m |-> m,
                         contador |-> UnoMas(@.contador)]]
  /\ UNCHANGED <<stream, last_acknoledged, acks, reinicios>>

(* The message counts as acknowledged, by an ack or by giving up.          *)
Siguiente(k) ==
  hilo' = [hilo EXCEPT ![k] =
             [fase |-> "espera", ack |-> @.m.id, contador |-> @.contador]]

(* Any ack in the channel will do; its id is not looked at.                *)
RecibeAck(k) ==
  /\ hilo[k].fase = "ack" /\ acks[k] # << >>
  /\ acks' = [acks EXCEPT ![k] = Tail(@)]
  /\ Siguiente(k)
  /\ UNCHANGED <<stream, last_acknoledged, cola, copias, reinicios, vistos>>

Reenvia(k) ==
  /\ Envia(k, hilo[k].m)
  /\ hilo' = [hilo EXCEPT ![k].contador = UnoMas(@)]

Vence_SinLimite(k) ==
  /\ hilo[k].fase = "ack" /\ acks[k] = << >>
  /\ Len(copias[k]) <= Limite + 1
  /\ Reenvia(k)
  /\ UNCHANGED <<stream, last_acknoledged, cola, acks, reinicios>>

Rinde(k) ==
  /\ hilo[k].contador >= Limite
  /\ Siguiente(k)
  /\ UNCHANGED <<copias, vistos>>

Insiste(k) ==
  /\ hilo[k].contador < Limite
  /\ Reenvia(k)

(* Half a second went by.                                                  *)
Vence(k) ==
  /\ hilo[k].fase = "ack" /\ acks[k] = << >>
  /\ Rinde(k) \/ Insiste(k)
  /\ UNCHANGED <<stream, last_acknoledged, cola, acks, reinicios>>

-----------------------------------------------------------------------------
(* The server goes down and comes back                                     *)

(* parse_js_data: a message comes back from its first piece, with its id   *)
(* and what is left of its text, and is followed by its other pieces.      *)
Leido(m) == [m EXCEPT !.texto = Queda[@]]

DePiezas(texto) ==
  [i \in DOMAIN Piezas[texto] |->
     [id |-> Piezas[texto][i].id, n |-> 0, texto |-> Piezas[texto][i].texto]]

SinPiezas(filas) == \A i \in DOMAIN filas : Piezas[filas[i].texto] = << >>

Leidos(filas) ==
  IF SinPiezas(filas) THEN [i \in DOMAIN filas |-> Leido(filas[i])]
  ELSE FlattenSeq([i \in DOMAIN filas |->
                     <<Leido(filas[i])>> \o DePiezas(filas[i].texto)])

(* load_file_storage over the files as they were left.  A stream is loaded *)
(* when both of its rows are there, with its first subject only.           *)
Carga(d) ==
  LET hay == d.datos.hay /\ d.rel.hay
      msjs == IF hay THEN Leidos(d.datos.filas) ELSE << >>
      cs == IF hay THEN d.rel.filas \cap DOMAIN d.acks ELSE {}
      ackDe(k) == IF k \in cs THEN d.acks[k] ELSE 0
  IN
  /\ disco' = d
  /\ creado' = hay
  /\ subjects' = IF hay THEN {Head(Subjects)} ELSE {}
  /\ messages' = msjs
  /\ id_counter' = IF msjs = << >> THEN 0
                   ELSE Max({m.id + 1 : m \in ToSet(msjs)})
  /\ alterado' = (alterado \/ (hay /\ (\/ ~SinPiezas(d.datos.filas)
                                       \/ d.datos # disco.datos)))
  /\ consumers' = cs
  /\ last_acknoledged' = [k \in Consumidores |-> ackDe(k)]
  /\ hilo' = [k \in Consumidores |-> HiloNuevo(ackDe(k))]
  /\ cola' = [k \in Consumidores |-> IF k \in cs THEN msjs ELSE << >>]
  /\ acks' = [k \in Consumidores |-> << >>]
  /\ copias' = [k \in Consumidores |-> << >>]

Reinicia ==
  /\ reinicios < MaxReinicios
  /\ reinicios' = reinicios + 1
  /\ Carga(disco)
  /\ UNCHANGED <<publicados, desde, vistos>>

(* update_csv_file empties a file before it writes its rows again: what it *)
(* was writing may be left without rows, with some of them, or with a row  *)
(* that ends early.                                                        *)
Cortados ==
  {[disco EXCEPT !.datos = SinFila], [disco EXCEPT !.rel = SinFila]}
  \cup {[disco EXCEPT !.datos = Fila(SubSeq(disco.datos.filas, 1, i))] :
          i \in 0..Len(disco.datos.filas)}
  \cup {[disco EXCEPT !.rel = Fila(cs)] : cs \in SUBSET disco.rel.filas}
  \cup {[disco EXCEPT !.acks = Restrict(disco.acks, ks)] :
          ks \in SUBSET DOMAIN disco.acks}

ReiniciaEscribiendo ==
  /\ reinicios < MaxReinicios
  /\ creado
  /\ reinicios' = reinicios + 1
  /\ \E d \in Cortados : Carga(d)
  /\ UNCHANGED <<publicados, desde, vistos>>

-----------------------------------------------------------------------------
Hilo(k) == Toma(k) \/ RecibeAck(k) \/ Vence(k)

Next ==
  \/ CreateStream
  \/ \E s \in ToSet(Subjects), t \in Textos : StoreMsg(s, t)
  \/ \E k \in Consumidores : CreateConsumer(k) \/ EjAck(k) \/ Hilo(k)
  \/ Reinicia \/ ReiniciaEscribiendo

(* The threads run and time goes by; nobody else owes anything.            *)
Spec == Init /\ [][Next]_vars /\ \A k \in Consumidores : WF_vars(Hilo(k))

-----------------------------------------------------------------------------
(* Properties                                                              *)

Mensajes == [id : Nat, n : 0..MaxMensajes, texto : Textos]

(* Unless a load altered them, the ids in memory are 0, 1, 2... after any  *)
(* restart, which decides the id of the next message (js.rs id_counter),   *)
(* and no queue, copy or ack mentions an id that was not given.            *)
IdsSeguidos ==
  ~alterado =>
    /\ messages \in Seq(Mensajes)
    /\ id_counter = Len(messages)
    /\ \A i \in 1..Len(messages) : messages[i].id = i - 1
    /\ \A k \in consumers :
         /\ ToSet(cola[k]) \subseteq ToSet(messages)
         /\ \A id \in ToSet(copias[k]) \cup ToSet(acks[k]) : id < id_counter

(* Altered or not, the next id is beyond every id in memory.               *)
TypeOK ==
  /\ creado \in BOOLEAN /\ alterado \in BOOLEAN
  /\ messages \in Seq(Mensajes)
  /\ \A m \in ToSet(messages) : m.id < id_counter
  /\ consumers \subseteq Consumidores
  /\ \A k \in consumers : hilo[k].contador \in 0..Limite
  /\ IdsSeguidos

(* No stored message is skipped: whatever the acks, the retries, the new   *)
(* consumers and the restarts, a message stored since the consumer joined  *)
(* was sent to it or still waits in its queue.  The thread skips by its    *)
(* last acknowledged id only (consumer.rs process_message), so this needs  *)
(* the ids to come back as they were: it does not hold, and is not         *)
(* claimed, once a load found a number after a comma of some text, or half *)
(* a row.                                                                  *)
NadaSeSaltea ==
  ~alterado =>
    \A k \in consumers : \A m \in ToSet(messages) :
      m.n > desde[k] => m.n \in vistos[k] \/ m \in ToSet(cola[k])

(* A consumer whose client never acks does not hold back the messages that *)
(* follow: each leaves the queue, unless the server stops.                 *)
NadieBloquea ==
  \A k \in Consumidores, n \in 1..MaxMensajes, r \in 0..MaxReinicios :
    (reinicios = r /\ \E m \in ToSet(cola[k]) : m.n = n)
      ~> (reinicios # r \/ \A m \in ToSet(cola[k]) : m.n # n)

(* A restart between two commands loses no consumer and no message, and    *)
(* keeps the ids: the three files together give back the messages memory   *)
(* holds, each with what is left of its text before its first comma.  It   *)
(* is not so when a text has a number after a comma (see alterado), nor    *)
(* for a stop in mid-write, nor for the subjects, of which the first comes *)
(* back (js.rs parse_js_data).                                             *)
ReinicioFiel ==
  creado =>
    /\ disco.datos.hay /\ disco.rel.hay
    /\ consumers = disco.rel.filas \cap DOMAIN disco.acks
    /\ ~alterado /\ SinPiezas(disco.datos.filas) =>
         Leidos(disco.datos.filas) =
           [i \in 1..Len(messages) |-> Leido(messages[i])]
=============================================================================
