-------------------------------- MODULE Canal --------------------------------
(***************************************************************************)
(* The one channel every client shares on its way to the executor.  Each   *)
(* listening thread (oyente_cliente.rs) reads the lines of its client and  *)
(* sends commands; the executor takes them one by one, except that HPUB    *)
(* goes on taking elements of the channel for its headers and its payload  *)
(* (command_executor.rs hpublish).                                         *)
(*                                                                         *)
(* A line is who sent it, in which of his messages, what it is and how     *)
(* long it is; its text does not matter.                                   *)
(***************************************************************************)
EXTENDS Naturals, Sequences, SequencesExt

CONSTANTS
  Clientes,
  Tipos,         \* [Clientes -> kinds of message it sends]
  MaxMensajes,   \* bound of the model: [Clientes -> messages it sends]
  Cabeceras,     \* header lines of an HPUB
  Largo          \* [kind of line -> bytes]

ASSUME CanalAssumption ==
  /\ Tipos \in [Clientes ->
                SUBSET {"PUB", "pub", "PUBmal", "HPUB", "HPUBmal", "OTRO"}]
  /\ MaxMensajes \in [Clientes -> Nat]
  /\ Cabeceras \in Nat \ {0}
  /\ Largo \in [{"PUB", "pub", "PUBmal", "HPUB", "HPUBmal", "OTRO", "cabecera",
                   "vacia", "payload"} -> Nat]

VARIABLES
  cliente,     \* [Clientes -> "abierto" | "cerrado"]
  enviados,    \* [Clientes -> messages sent so far]
  cable,       \* [Clientes -> lines on their way to the oyente]
  oyente,      \* [Clientes -> "lee" | "fin"]
  canal,       \* the elements of the mpsc channel
  ejecutor,    \* what the executor is doing: "libre" or inside an hpublish
  vivo,        \* FALSE once the executor thread has panicked
  publicado    \* history: what was written to the subscribers, in order

vars == <<cliente, enviados, cable, oyente, canal, ejecutor, vivo, publicado>>

delCliente == <<cliente, enviados>>
delEjecutor == <<ejecutor, vivo, publicado>>

Linea(tipo, c, n) == [tipo |-> tipo, de |-> c, n |-> n]
Libre == [fase |-> "libre"]

Init ==
  /\ cliente = [c \in Clientes |-> "abierto"]
  /\ enviados = [c \in Clientes |-> 0]
  /\ cable = [c \in Clientes |-> << >>]
  /\ oyente = [c \in Clientes |-> "lee"]
  /\ canal = << >>
  /\ ejecutor = Libre
  /\ vivo = TRUE
  /\ publicado = << >>

-----------------------------------------------------------------------------
(* The clients (any program that speaks the protocol).  A "PUBmal" or an   *)
(* "HPUBmal" is one the executor is going to refuse: its line has not the  *)
(* fields it should, or the client may not publish on its subject when the *)
(* executor comes to it.                                                   *)

Mensaje(tipo, c, n) ==
  CASE tipo \in {"PUB", "pub", "PUBmal"} -> <<Linea(tipo, c, n), Linea("payload", c, n)>>
    [] tipo \in {"HPUB", "HPUBmal"} ->
         <<Linea(tipo, c, n)>>
         \o [i \in 1..Cabeceras |-> Linea("cabecera", c, n)]
         \o <<Linea("vacia", c, n), Linea("payload", c, n)>>
    [] tipo = "OTRO" -> <<Linea("OTRO", c, n)>>

Envia(c) ==
  /\ cliente[c] = "abierto"
  /\ enviados[c] < MaxMensajes[c]
  /\ enviados' = [enviados EXCEPT ![c] = @ + 1]
  /\ \E tipo \in Tipos[c] :
       cable' = [cable EXCEPT ![c] = @ \o Mensaje(tipo, c, enviados[c] + 1)]
  /\ UNCHANGED <<cliente, oyente, canal, delEjecutor>>

(* The connection breaks; only a part of what was sent arrives.            *)
Cierra(c) ==
  /\ cliente[c] = "abierto"
  /\ cliente' = [cliente EXCEPT ![c] = "cerrado"]
  /\ \E k \in 0..Len(cable[c]) :
       cable' = [cable EXCEPT ![c] = SubSeq(@, 1, k)]
  /\ UNCHANGED <<enviados, oyente, canal, delEjecutor>>

-----------------------------------------------------------------------------
(* The listening threads                                                   *)

Comando(linea, payload) ==
  [op |-> linea.tipo, de |-> linea.de, n |-> linea.n, payload |-> payload]

Nada == [de |-> "nadie", n |-> 0]

Encola_AlFrente(cmd) == canal' = <<cmd>> \o canal

Encola_SiHayLugar(cmd) == canal' = IF canal = << >> THEN <<cmd>> ELSE canal

Encola(cmd) == canal' = Append(canal, cmd)

(* How many lines make the next message of the thread: a line that starts  *)
(* with PUB is read together with the one that follows it, whatever the    *)
(* executor thinks of it later.                                            *)
Atomo_Linea(c) == 1

Atomo(c) == IF Head(cable[c]).tipo \in {"PUB", "PUBmal"} THEN 2 ELSE 1

Payload(c) ==
  IF Atomo(c) = 2 THEN [de |-> cable[c][2].de, n |-> cable[c][2].n] ELSE Nada

OyenteLee(c) ==
  /\ oyente[c] = "lee" /\ cable[c] # << >>
  /\ Len(cable[c]) >= Atomo(c)
  /\ IF Head(cable[c]).tipo = "vacia" THEN UNCHANGED canal
     ELSE Encola(Comando(Head(cable[c]), Payload(c)))
  /\ cable' = [cable EXCEPT ![c] = SubSeq(@, Atomo(c) + 1, Len(@))]
  /\ UNCHANGED <<delCliente, oyente, delEjecutor>>

(* End of file, also in the middle of a PUB.                               *)
OyenteTermina(c) ==
  /\ oyente[c] = "lee" /\ cliente[c] = "cerrado"
  /\ cable[c] # << >> => Len(cable[c]) < Atomo(c)
  /\ Encola([op |-> "SHUTDOWN", de |-> c, n |-> 0, payload |-> Nada])
  /\ cable' = [cable EXCEPT ![c] = << >>]
  /\ oyente' = [oyente EXCEPT ![c] = "fin"]
  /\ UNCHANGED <<delCliente, delEjecutor>>

-----------------------------------------------------------------------------
(* The executor                                                            *)

LargoDe(cmd) == IF cmd.op = "SHUTDOWN" THEN 8 ELSE Largo[cmd.op]

(* What the line of an HPUB says its headers take: as in the tests of      *)
(* hpublish, every line with its CRLF and the empty line.                  *)
BytesHeader == Cabeceras * (Largo["cabecera"] + 2) + 2

Recibe ==
  /\ vivo
  /\ canal # << >>
  /\ canal' = Tail(canal)
  /\ UNCHANGED <<delCliente, cable, oyente>>

Publicacion(op, de, n, payload, cabecera) ==
  [op |-> op, de |-> de, n |-> n, payload |-> payload, cabecera |-> cabecera]

EjPub ==
  LET m == Head(canal) IN
  /\ ejecutor = Libre /\ Recibe
  /\ m.op = "PUB"
  /\ publicado' = Append(publicado,
                         Publicacion("PUB", m.de, m.n, m.payload, << >>))
  /\ UNCHANGED <<ejecutor, vivo>>

(* publish accepts "pub" too, but finds no payload in it: index 1 of a     *)
(* vector of one element panics.  So does the subtraction of parse_hmsg,   *)
(* in a build that checks overflow, if the client gave a total that is     *)
(* less than the header bytes (the numbers of an HPUB matter only here).   *)
EjPanico ==
  /\ ejecutor = Libre /\ Recibe
  /\ Head(canal).op \in {"pub", "HPUB"}
  /\ vivo' = FALSE
  /\ UNCHANGED <<ejecutor, publicado>>

(* parse_msg or parse_hmsg cannot read the line, or the client may not     *)
(* publish there: -ERR, and nothing is published.  The payload of a PUB    *)
(* goes with it; the lines of an HPUB stay in the channel.                 *)
EjRechaza ==
  /\ ejecutor = Libre /\ Recibe
  /\ Head(canal).op \in {"PUBmal", "HPUBmal"}
  /\ UNCHANGED delEjecutor

(* The other commands, and lines that are no command, those of an HPUB     *)
(* that was refused among them, do not touch what this module is about.    *)
EjOtro ==
  /\ ejecutor = Libre /\ Recibe
  /\ Head(canal).op \notin {"PUB", "pub", "PUBmal", "HPUB", "HPUBmal"}
  /\ UNCHANGED delEjecutor

EjHpub ==
  LET m == Head(canal) IN
  /\ ejecutor = Libre /\ Recibe
  /\ m.op = "HPUB"
  /\ ejecutor' = [fase |-> "cabecera", de |-> m.de, n |-> m.n, acum |-> 0,
                  cabecera |-> << >>]
  /\ UNCHANGED <<vivo, publicado>>

Origen(cmd) == [de |-> cmd.de, n |-> cmd.n]

EjCabecera_AlMenos ==
  LET m == Head(canal)
      acum == ejecutor.acum + LargoDe(m) + 2
  IN
  /\ ejecutor.fase = "cabecera" /\ Recibe
  /\ ejecutor' = [ejecutor EXCEPT
                    !.fase = IF acum + 2 >= BytesHeader THEN "vacio" ELSE @,
                    !.acum = acum,
                    !.cabecera = Append(@, Origen(m))]
  /\ UNCHANGED <<vivo, publicado>>

(* Headers are taken until their bytes add up exactly.  Past that point    *)
(* the sum never matches again; acum stays at the first value beyond.      *)
EjCabecera ==
  LET m == Head(canal)
      acum == ejecutor.acum + LargoDe(m) + 2
  IN
  /\ ejecutor.fase = "cabecera" /\ Recibe
  /\ ejecutor' =
       IF acum + 2 > BytesHeader
       THEN [ejecutor EXCEPT !.acum = BytesHeader]
       ELSE [ejecutor EXCEPT
               !.fase = IF acum + 2 = BytesHeader THEN "vacio" ELSE @,
               !.acum = acum,
               !.cabecera = Append(@, Origen(m))]
  /\ UNCHANGED <<vivo, publicado>>

(* The element between the headers and the payload is thrown away.         *)
EjVacio ==
  /\ ejecutor.fase = "vacio" /\ Recibe
  /\ ejecutor' = [ejecutor EXCEPT !.fase = "payload"]
  /\ UNCHANGED <<vivo, publicado>>

EjPayload ==
  LET e == ejecutor IN
  /\ ejecutor.fase = "payload" /\ Recibe
  /\ publicado' = Append(publicado,
       Publicacion("HPUB", e.de, e.n, Origen(Head(canal)), e.cabecera))
  /\ ejecutor' = Libre
  /\ UNCHANGED vivo

-----------------------------------------------------------------------------
Ejecuta ==
  \/ EjPub \/ EjPanico \/ EjRechaza \/ EjOtro
  \/ EjHpub \/ EjCabecera \/ EjVacio \/ EjPayload

Oyente(c) == OyenteLee(c) \/ OyenteTermina(c)

Next ==
  \/ Ejecuta
  \/ \E c \in Clientes : Envia(c) \/ Cierra(c) \/ Oyente(c)

(* The executor and the listening threads are threads of the server; the   *)
(* clients owe nothing.                                                    *)
Spec ==
  /\ Init /\ [][Next]_vars
  /\ WF_vars(Ejecuta)
  /\ \A c \in Clientes : WF_vars(Oyente(c))

-----------------------------------------------------------------------------
(* Properties                                                              *)

(* Whatever the threads interleave in the channel, and whatever an HPUB    *)
(* takes out of it, every PUB that is published carries the payload that   *)
(* its own client sent with it (oyente_cliente.rs escuchar_mensaje_2).     *)
PubIntegra ==
  \A i \in 1..Len(publicado) :
    publicado[i].op = "PUB" => publicado[i].payload = Origen(publicado[i])

(* Every PUB of a client that stays, and that the executor has no reason   *)
(* to refuse, is published in the end, unless the executor is inside an    *)
(* HPUB, which may swallow it, or has panicked.  A refused one publishes   *)
(* nothing (command_executor.rs publish), but it neither stops those that  *)
(* come after it nor leaves its payload to be taken for theirs.            *)
TodoPubLlega ==
  \A c \in Clientes : \A n \in 1..MaxMensajes[c] :
    (\E i \in 1..Len(cable[c]) : cable[c][i] = Linea("PUB", c, n))
      ~> \/ \E i \in 1..Len(publicado) : Origen(publicado[i]) = [de |-> c, n |-> n]
         \/ cliente[c] = "cerrado" \/ ejecutor # Libre \/ ~vivo

-----------------------------------------------------------------------------
(* What is seen from outside.  A publication is pending while its first    *)
(* line is on the wire or in the channel, or the executor is inside it;    *)
(* one that is going to be refused is none.                                *)

Publicaciones == {"PUB", "HPUB"}

Pendientes(c) ==
  {cable[c][i].n : i \in {i \in 1..Len(cable[c]) : cable[c][i].tipo \in Publicaciones}}
  \cup {canal[i].n : i \in {i \in 1..Len(canal) :
                              canal[i].op \in Publicaciones /\ canal[i].de = c}}
  \cup (IF ejecutor # Libre /\ ejecutor.de = c THEN {ejecutor.n} ELSE {})

Promesa == INSTANCE Publicaciones WITH
  pendientes <- [c \in Clientes |-> Pendientes(c)],
  publicado  <- [i \in 1..Len(publicado) |-> Origen(publicado[i])]

(* The threads, the channel and the HPUB that eats elements of it keep the *)
(* promise of Publicaciones: whatever is lost on the way, the publications *)
(* of a client, PUB and HPUB alike, come out in the order he sent them and *)
(* none twice.                                                             *)
ImplementaPublicaciones == Promesa!Spec

(* The bytes counted never pass those announced while headers are taken,   *)
(* and are exactly those when the executor goes on to the payload.         *)
TypeOK ==
  /\ cliente \in [Clientes -> {"abierto", "cerrado"}]
  /\ \A c \in Clientes : enviados[c] \in 0..MaxMensajes[c]
  /\ oyente \in [Clientes -> {"lee", "fin"}]
  /\ vivo \in BOOLEAN
  /\ ejecutor # Libre =>
       /\ ejecutor.fase \in {"cabecera", "vacio", "payload"}
       /\ ejecutor.acum \in 0..BytesHeader
       /\ ejecutor.fase # "cabecera" => ejecutor.acum + 2 = BytesHeader
=============================================================================
