----------------------------- MODULE NatsClient -----------------------------
(***************************************************************************)
(* The client library (client.rs, suscriptor_handler.rs) under the program *)
(* that drives it (cliente/src/main.rs): the user's thread, the listening  *)
(* thread, and one thread per subscription that runs its callback.         *)
(*                                                                         *)
(* The client is in a mutex that the user's thread holds for a whole       *)
(* operation and each callback takes; the table of subscriptions has its   *)
(* own, which the listening thread holds while it deals with a message.    *)
(* The mutex of the socket is released at once, so a write is one action.  *)
(*                                                                         *)
(* The server is external: it carries out commands in order, writes to     *)
(* every row that matches a publication, one after another, and answers a  *)
(* refused command with -ERR (command_executor.rs).  The copies of one     *)
(* publication are alike, so that its rows are a set.  An +OK after the    *)
(* first only goes to a channel that nobody reads, and is left out.        *)
(***************************************************************************)
EXTENDS Subjects, SequencesExt, FiniteSets

CONSTANTS
  Patrones,        \* what the user subscribes to
  Consumidores,    \* the patterns he takes with create_and_consume
  Temas,           \* what others publish on
  ConHeaders,      \* those of them that are published with HPUB
  Limites,         \* the max_msgs of unsubscribe
  MaxSubs,         \* bound of the model: subscriptions
  MaxOperaciones,  \* bound of the model: operations of the user
  MaxPub           \* bound of the model: publications of others and PINGs

ASSUME NatsClientAssumption ==
  /\ Consumidores \subseteq Patrones /\ ConHeaders \subseteq Temas
  /\ Limites \subseteq Nat
  /\ {MaxSubs, MaxOperaciones, MaxPub} \subseteq Nat

Ids == 1..MaxSubs
Nada == [i \in Ids |-> << >>]
SinLimite == << >>

VARIABLES
  usuario,        \* where the user's thread is
  operaciones,    \* how many it has begun
  nats,           \* who holds the client: "libre", "usuario", "callback"
  sub_id,
  suscriptions,   \* the table: a sequence of [id, patron, max, consumer]
  candado,        \* who holds the table: "libre", "oyente", "envenenado"
  oyente,         \* where the listening thread is
  cola,           \* [Ids -> messages that wait for its thread: with headers?]
  abierta,        \* ids whose sender is still somewhere
  hilo,           \* [Ids -> "no" | "espera" | "atiende" | "responde" | "fin"]
  hacia,          \* commands on their way to the server
  desde,          \* what the server has written
  conexion,       \* "viva" or "rota"
  filas,          \* the server's rows: a set of [id, patron, max]
  publicadas,     \* how many publications of others and PINGs there were
  enviadas,       \* history until cruce: [Ids -> publications written to it]
  recibidas,      \* history until cruce: [Ids -> those sent to its thread]
  limite,         \* history: [Ids -> the last limit, and how many since]
  cruce           \* history: a command and a copy were under way at once,
                  \* or a row was lost because its ack could not be written,
                  \* or never was because its thread could not be made

delUsuario == <<usuario, operaciones, sub_id>>
delServidor == <<filas, publicadas, enviadas>>
hilos == <<cola, abierta, hilo, recibidas, limite>>
vars == <<delUsuario, nats, suscriptions, candado, oyente, hilos, hacia,
          desde, conexion, delServidor, cruce>>

En(fase, id) == [fase |-> fase, id |-> id]
Libre == [fase |-> "libre"]
Lee == [fase |-> "lee"]
Fin == [fase |-> "fin"]

Msg(tema, n) ==
  [tipo |-> IF tema \in ConHeaders THEN "HMSG" ELSE "MSG", tema |-> tema, n |-> n]
EsMensaje(x) == x.tipo \in {"MSG", "HMSG"}
Aviso(tipo) == [tipo |-> tipo]

(* new has read INFO, written CONNECT and spawned the listening thread.    *)
Init ==
  /\ usuario = [fase |-> "conecta"] /\ operaciones = 0
  /\ nats = "libre" /\ sub_id = 0
  /\ suscriptions = << >> /\ candado = "libre"
  /\ oyente = Lee
  /\ cola = Nada /\ abierta = {}
  /\ hilo = [i \in Ids |-> "no"]
  /\ hacia = <<Aviso("CONNECT")>> /\ desde = << >> /\ conexion = "viva"
  /\ filas = {} /\ publicadas = 0
  /\ enviadas = Nada /\ recibidas = Nada
  /\ limite = [i \in Ids |-> << >>]
  /\ cruce = FALSE

(* When main returns the process ends, with every thread of it.            *)
EnMarcha == usuario # Fin

HayMensajes == \E i \in 1..Len(desde) : EsMensaje(desde[i])

(* Writing to a broken connection may fail, or seem to succeed.  What the  *)
(* server does with a line once nobody listens is not followed.            *)
Escribe(cmds) ==
  hacia' = IF conexion = "viva" /\ oyente # Fin THEN hacia \o cmds ELSE hacia

(* What the server accepts without a change to the rows has no further     *)
(* part here.  The first line that it refuses waits for its -ERR; it ends  *)
(* the listening thread, so that later ones change nothing.                *)
Rechazable ==
  IF \/ \E i \in 1..Len(hacia) : hacia[i].tipo = "RECHAZADA"
     \/ \E i \in 1..Len(desde) : desde[i].tipo = "-ERR"
  THEN << >> ELSE <<Aviso("RECHAZADA")>>

EscribePub == UNCHANGED hacia \/ Escribe(Rechazable)

NoEscribe == conexion = "rota" /\ UNCHANGED hacia

-----------------------------------------------------------------------------
(* The server, and what may happen to the connection                       *)

Orden == Head(hacia)

(* A command that is accepted changes the rows; UNSUB is refused when the  *)
(* sid has no row, SUB when the user has no permission.                    *)
ServidorAcepta ==
  /\ hacia # << >>
  /\ hacia' = Tail(hacia)
  /\ \/ /\ Orden.tipo = "SUB"
        /\ filas' = filas \cup {[id |-> Orden.id, patron |-> Orden.patron,
                                 max |-> SinLimite]}
     \/ /\ Orden.tipo = "UNSUB"
        /\ \E f \in filas :
             /\ f.id = Orden.id
             /\ filas' = (filas \ {f})
                          \cup (IF Orden.max = SinLimite THEN {}
                                ELSE {[f EXCEPT !.max = Orden.max]})
     \/ Orden.tipo = "CONNECT" /\ UNCHANGED filas
  /\ desde' = IF Orden.tipo = "CONNECT" THEN Append(desde, Aviso("+OK")) ELSE desde
  /\ UNCHANGED <<delUsuario, nats, suscriptions, candado, oyente, hilos,
                 conexion, publicadas, enviadas, cruce>>

(* What the server writes after an -ERR is never read, and is left out.    *)
SinLector ==
  oyente = Fin \/ \E i \in 1..Len(desde) : desde[i].tipo = "-ERR"

ServidorRechaza ==
  /\ hacia # << >>
  /\ Orden.tipo = "UNSUB" => \A f \in filas : f.id # Orden.id
  /\ hacia' = Tail(hacia)
  /\ desde' = IF SinLector THEN desde ELSE Append(desde, Aviso("-ERR"))
  /\ UNCHANGED <<delUsuario, nats, suscriptions, candado, oyente, hilos,
                 conexion, delServidor, cruce>>

Habla == conexion = "viva" /\ ~SinLector /\ publicadas < MaxPub

Agotada(f) == f.max # SinLimite /\ f.max[1] = 0

(* A command has been written and is not yet carried out on both sides.    *)
OrdenEnCurso ==
  \/ usuario.fase \in {"anota", "desuscribe"}
  \/ \E i \in 1..Len(hacia) : hacia[i].tipo \in {"SUB", "UNSUB"}

Gastada(f) == IF f.max = SinLimite THEN f ELSE [f EXCEPT !.max = <<@[1] - 1>>]

(* One copy to each row that matches; what one exhausted row does to the   *)
(* server is in CommandExecutor.                                           *)
ServidorPublica(tema) ==
  LET n == publicadas + 1
      destinos == {f \in filas : Coincide(f.patron, tema)}
      ids == {f.id : f \in destinos}
  IN
  /\ Habla
  /\ destinos # {}
  /\ \A f \in destinos : ~Agotada(f)
  /\ publicadas' = n
  /\ cruce' = (cruce \/ OrdenEnCurso)
  /\ desde' = desde \o [i \in 1..Cardinality(destinos) |-> Msg(tema, n)]
  /\ filas' = (filas \ destinos)
               \cup {f \in {Gastada(g) : g \in destinos} : ~Agotada(f)}
  /\ enviadas' = [i \in Ids |-> IF cruce' THEN << >>
                                ELSE IF i \in ids THEN Append(enviadas[i], n)
                                ELSE enviadas[i]]
  /\ recibidas' = IF cruce' THEN Nada ELSE recibidas
  /\ UNCHANGED <<delUsuario, nats, suscriptions, candado, oyente, cola, abierta,
                 hilo, limite, hacia, conexion>>

ServidorPing ==
  /\ Habla
  /\ publicadas' = publicadas + 1
  /\ desde' = Append(desde, Aviso("PING"))
  /\ UNCHANGED <<delUsuario, nats, suscriptions, candado, oyente, hilos, hacia,
                 conexion, filas, enviadas, cruce>>

(* What was written before can still be read.                              *)
Rompe ==
  /\ conexion = "viva" /\ conexion' = "rota"
  /\ hacia' = << >>
  /\ UNCHANGED <<delUsuario, nats, suscriptions, candado, oyente, hilos, desde,
                 delServidor, cruce>>

-----------------------------------------------------------------------------
(* The user's thread                                                       *)

Empieza ==
  /\ usuario = Libre
  /\ nats = "libre"
  /\ operaciones < MaxOperaciones
  /\ operaciones' = operaciones + 1

UnaEscritura ==
  /\ Empieza
  /\ UNCHANGED <<usuario, sub_id, nats, suscriptions, candado, oyente, hilos,
                 desde, conexion, delServidor, cruce>>

(* publish and create_stream: one write, whose error main ignores.         *)
Publica == UnaEscritura /\ EscribePub

CreateStream == UnaEscritura /\ EscribePub

(* hpublish does not encrypt what it writes: the server cannot read it.    *)
HPublica == UnaEscritura /\ Escribe(Rechazable)

(* A copy is on its way while the user begins another command.             *)
Cruza ==
  /\ cruce' = (cruce \/ HayMensajes \/ oyente.fase = "une")
  /\ enviadas' = IF cruce' THEN Nada ELSE enviadas
  /\ recibidas' = IF cruce' THEN Nada ELSE recibidas

(* The SUB goes out before the row is in the table.                        *)
EscribeSub(patron, antes) ==
  LET id == sub_id + 1 IN
  /\ Empieza
  /\ sub_id < MaxSubs /\ sub_id' = id
  /\ Cruza
  /\ Escribe(antes \o <<[tipo |-> "SUB", id |-> id, patron |-> patron]>>)
  /\ nats' = "usuario"
  /\ usuario' = [fase |-> "anota", id |-> id, patron |-> patron]
  /\ UNCHANGED <<suscriptions, candado, oyente, cola, abierta, hilo, limite,
                 desde, conexion, filas, publicadas>>

NoEscribeSub(sigue) ==
  /\ Empieza
  /\ sub_id < MaxSubs /\ sub_id' = sub_id + 1
  /\ NoEscribe
  /\ usuario' = sigue
  /\ UNCHANGED <<nats, suscriptions, candado, oyente, hilos, desde, conexion,
                 delServidor, cruce>>

(* An error of subscribe ends main.                                        *)
Suscribe(patron) ==
  /\ patron \notin Consumidores
  /\ EscribeSub(patron, << >>) \/ NoEscribeSub(Fin)

(* create_and_consume writes one line more, and main ignores its errors.   *)
CreaConsumer(patron) ==
  /\ patron \in Consumidores
  /\ \/ \E antes \in {<< >>, Rechazable} : EscribeSub(patron, antes)
     \/ NoEscribeSub(Libre)

(* The consumer's line cannot be written: sub_id does not change.          *)
NoCreaConsumer ==
  /\ Consumidores # {}
  /\ UnaEscritura /\ NoEscribe

Anota ==
  LET id == usuario.id IN
  /\ usuario.fase = "anota"
  /\ candado = "libre"
  /\ suscriptions' = Append(suscriptions,
       [id |-> id, patron |-> usuario.patron, max |-> SinLimite,
        consumer |-> usuario.patron \in Consumidores])
  /\ abierta' = abierta \cup {id}
  /\ hilo' = [hilo EXCEPT ![id] = "espera"]
  /\ nats' = "libre" /\ usuario' = Libre
  /\ UNCHANGED <<operaciones, sub_id, candado, oyente, cola, recibidas, limite,
                 hacia, desde, conexion, delServidor, cruce>>

(* The SUB went out and there is no row: its thread could not be created,  *)
(* or the library refuses a pattern that the server takes, such as "a>".   *)
(* The server's row stays, for copies that have no row of their own.       *)
NoAnota ==
  /\ usuario.fase = "anota"
  /\ nats' = "libre"
  /\ usuario' = IF usuario.patron \in Consumidores THEN Libre ELSE Fin
  /\ cruce' = TRUE /\ enviadas' = Nada /\ recibidas' = Nada
  /\ UNCHANGED <<operaciones, sub_id, suscriptions, candado, oyente, cola, abierta,
                 hilo, limite, hacia, desde, conexion, filas, publicadas>>

Desuscribe(id, max) ==
  /\ Empieza
  /\ Cruza
  /\ \/ /\ Escribe(<<[tipo |-> "UNSUB", id |-> id, max |-> max]>>)
        /\ nats' = "usuario"
        /\ usuario' = [fase |-> "desuscribe", id |-> id, max |-> max]
     \/ NoEscribe /\ usuario' = Fin /\ UNCHANGED nats
  /\ UNCHANGED <<sub_id, suscriptions, candado, oyente, cola, abierta, hilo,
                 limite, desde, conexion, filas, publicadas>>

Indice(id) == SelectInSeq(suscriptions, LAMBDA s : s.id = id)

FijaLimite ==
  LET id == usuario.id IN
  /\ usuario.fase = "desuscribe" /\ usuario.max # SinLimite
  /\ candado = "libre" /\ Indice(id) # 0
  /\ suscriptions' = [suscriptions EXCEPT ![Indice(id)].max = usuario.max]
  /\ limite' = [limite EXCEPT ![id] = <<usuario.max[1], 0>>]
  /\ nats' = "libre" /\ usuario' = Libre
  /\ UNCHANGED <<operaciones, sub_id, candado, oyente, cola, abierta, hilo,
                 recibidas, hacia, desde, conexion, delServidor, cruce>>

QuitaFila_SinUnir ==
  LET id == usuario.id IN
  /\ usuario.fase = "desuscribe" /\ usuario.max = SinLimite
  /\ candado = "libre" /\ Indice(id) # 0
  /\ suscriptions' = RemoveAt(suscriptions, Indice(id))
  /\ abierta' = abierta \ {id}
  /\ nats' = "libre" /\ usuario' = Libre
  /\ UNCHANGED <<operaciones, sub_id, candado, oyente, cola, hilo,
                 recibidas, limite, hacia, desde, conexion, delServidor, cruce>>

QuitaFila_SinSoltar ==
  LET id == usuario.id IN
  /\ usuario.fase = "desuscribe" /\ usuario.max = SinLimite
  /\ candado = "libre" /\ Indice(id) # 0
  /\ suscriptions' = RemoveAt(suscriptions, Indice(id))
  /\ usuario' = En("une", id)
  /\ UNCHANGED <<operaciones, sub_id, nats, candado, oyente, cola, abierta, hilo,
                 recibidas, limite, hacia, desde, conexion, delServidor, cruce>>

(* The lock of the table is released before the join.                      *)
QuitaFila ==
  LET id == usuario.id IN
  /\ usuario.fase = "desuscribe" /\ usuario.max = SinLimite
  /\ candado = "libre" /\ Indice(id) # 0
  /\ suscriptions' = RemoveAt(suscriptions, Indice(id))
  /\ abierta' = abierta \ {id}
  /\ usuario' = En("une", id)
  /\ UNCHANGED <<operaciones, sub_id, nats, candado, oyente, cola, hilo,
                 recibidas, limite, hacia, desde, conexion, delServidor, cruce>>

Une ==
  /\ usuario.fase = "une" /\ hilo[usuario.id] = "fin"
  /\ nats' = "libre" /\ usuario' = Libre
  /\ UNCHANGED <<operaciones, sub_id, suscriptions, candado, oyente, hilos,
                 hacia, desde, conexion, delServidor, cruce>>

(* A sid that is not in the table, or a poisoned lock: main ends by ?, but *)
(* it ignores what create_and_consume returns.                             *)
Falla ==
  /\ \/ usuario.fase = "desuscribe" /\ candado = "libre" /\ Indice(usuario.id) = 0
     \/ usuario.fase \in {"anota", "desuscribe"} /\ candado = "envenenado"
  /\ nats' = "libre"
  /\ usuario' = IF usuario.fase = "anota" /\ usuario.patron \in Consumidores
                THEN Libre ELSE Fin
  /\ UNCHANGED <<operaciones, sub_id, suscriptions, candado, oyente,
                 hilos, hacia, desde, conexion, delServidor, cruce>>

(* new gives up when the listening thread ends without an +OK.             *)
NoConecta ==
  /\ usuario.fase = "conecta" /\ oyente = Fin
  /\ usuario' = Fin
  /\ UNCHANGED <<operaciones, sub_id, nats, suscriptions, candado, oyente,
                 hilos, hacia, desde, conexion, delServidor, cruce>>

-----------------------------------------------------------------------------
(* The listening thread                                                    *)

OyenteRecibe(tipo) ==
  /\ oyente = Lee
  /\ desde # << >> /\ Head(desde).tipo = tipo
  /\ desde' = Tail(desde)

(* new waits for the first of them only.                                   *)
OyenteOk ==
  /\ OyenteRecibe("+OK")
  /\ usuario' = IF usuario.fase = "conecta" THEN Libre ELSE usuario
  /\ UNCHANGED <<operaciones, sub_id, nats, suscriptions, candado, oyente,
                 hilos, hacia, conexion, delServidor, cruce>>

(* The PONG, whether it can be written or not, has no further part here.   *)
OyentePing ==
  /\ OyenteRecibe("PING")
  /\ UNCHANGED <<delUsuario, nats, suscriptions, candado, oyente, hilos, hacia,
                 conexion, delServidor, cruce>>

(* Any error reply ends the listening thread.                              *)
OyenteError ==
  /\ OyenteRecibe("-ERR")
  /\ oyente' = Fin /\ hacia' = << >>
  /\ UNCHANGED <<delUsuario, nats, suscriptions, candado, hilos, conexion,
                 delServidor, cruce>>

OyenteFinDeArchivo ==
  /\ oyente = Lee /\ desde = << >> /\ conexion = "rota"
  /\ oyente' = Fin
  /\ UNCHANGED <<delUsuario, nats, suscriptions, candado, hilos, hacia, desde,
                 conexion, delServidor, cruce>>

(* matches is the loop of subject_matches_token again.                     *)
EsPara(s, tema) == Coincide(s.patron, tema)

(* The row is chosen by subject, not by the sid in the message.            *)
Primera(tema) == SelectInSeq(suscriptions, LAMBDA s : EsPara(s, tema))

(* MSG: the line says how long the payload is, and it is read whole.       *)
LeeMsg == OyenteRecibe("MSG")

(* HMSG: headers and payload, each read whole.                             *)
LeeHmsg == OyenteRecibe("HMSG")

RecibeMensaje == (LeeMsg \/ LeeHmsg) /\ candado = "libre"

EnviaAlHilo(id, msg) ==
  /\ cola' = [cola EXCEPT ![id] = Append(@, msg.tipo = "HMSG")]
  /\ recibidas' = IF cruce THEN recibidas
                  ELSE [recibidas EXCEPT ![id] = Append(@, msg.n)]
  /\ limite' = [limite EXCEPT ![id] = IF @ = << >> THEN @ ELSE <<@[1], @[2] + 1>>]

SinDestino ==
  /\ RecibeMensaje
  /\ Primera(Head(desde).tema) = 0
  /\ UNCHANGED <<delUsuario, nats, suscriptions, candado, oyente, hilos, hacia,
                 conexion, delServidor, cruce>>

Reencola_EnSuLugar(i, s) == suscriptions' = [suscriptions EXCEPT ![i] = s]

(* The row goes to the end, so that the next copy finds the next one.      *)
Reencola(i, s) == suscriptions' = Append(RemoveAt(suscriptions, i), s)

Ultimo_Pasado(s) == s.max # SinLimite /\ s.max[1] = 0

Ultimo(s) == s.max # SinLimite /\ s.max[1] = 1

(* A message for a row that may get more.  The ack of a consumer goes out  *)
(* before its callback has seen the message.                               *)
Reparte ==
  LET i == Primera(Head(desde).tema)
      s == suscriptions[i]
      queda == IF s.max = SinLimite THEN s ELSE [s EXCEPT !.max = <<@[1] - 1>>]
  IN
  /\ RecibeMensaje /\ i # 0
  /\ ~Ultimo(s) /\ ~Agotada(s)
  /\ IF s.consumer THEN EscribePub ELSE UNCHANGED hacia
  /\ EnviaAlHilo(s.id, Head(desde))
  /\ Reencola(i, queda)
  /\ UNCHANGED <<delUsuario, nats, candado, oyente, abierta, hilo, conexion,
                 delServidor, cruce>>

(* The last one it asked for: the row is dropped and its thread joined,    *)
(* with the table locked.                                                  *)
ReparteUltimo ==
  LET i == Primera(Head(desde).tema)
      s == suscriptions[i]
  IN
  /\ RecibeMensaje /\ i # 0
  /\ Ultimo(s)
  /\ IF s.consumer THEN EscribePub ELSE UNCHANGED hacia
  /\ EnviaAlHilo(s.id, Head(desde))
  /\ suscriptions' = RemoveAt(suscriptions, i)
  /\ abierta' = abierta \ {s.id}
  /\ candado' = "oyente" /\ oyente' = En("une", s.id)
  /\ UNCHANGED <<delUsuario, nats, hilo, conexion, delServidor, cruce>>

OyenteUne ==
  /\ oyente.fase = "une" /\ hilo[oyente.id] = "fin"
  /\ oyente' = Lee /\ candado' = "libre"
  /\ UNCHANGED <<delUsuario, nats, suscriptions, hilos, hacia, desde,
                 conexion, delServidor, cruce>>

(* max_msgs - 1 below 0: a build with overflow checks panics with the      *)
(* table locked, one without goes on with a limit that is never reached.   *)
RepartePasado ==
  LET i == Primera(Head(desde).tema)
      s == suscriptions[i]
  IN
  /\ RecibeMensaje /\ i # 0
  /\ Agotada(s)
  /\ IF s.consumer THEN EscribePub ELSE UNCHANGED hacia
  /\ EnviaAlHilo(s.id, Head(desde))
  /\ \/ /\ oyente' = Fin /\ candado' = "envenenado"
        /\ suscriptions' = RemoveAt(suscriptions, i)
        /\ abierta' = abierta \ {s.id}
     \/ /\ Reencola(i, [s EXCEPT !.max = SinLimite])
        /\ UNCHANGED <<oyente, candado, abierta>>
  /\ UNCHANGED <<delUsuario, nats, hilo, conexion, delServidor, cruce>>

(* The ack cannot be written: the row, already out of the table, is lost   *)
(* with the message.                                                       *)
PierdeFila ==
  LET i == Primera(Head(desde).tema)
      s == suscriptions[i]
  IN
  /\ RecibeMensaje /\ i # 0
  /\ s.consumer /\ NoEscribe
  /\ suscriptions' = RemoveAt(suscriptions, i)
  /\ abierta' = abierta \ {s.id}
  /\ cruce' = TRUE /\ enviadas' = Nada /\ recibidas' = Nada
  /\ UNCHANGED <<delUsuario, nats, candado, oyente, cola, hilo, limite,
                 conexion, filas, publicadas>>

-----------------------------------------------------------------------------
(* The threads of the subscriptions: a callback takes the client, and      *)
(* answers, to what it takes for the reply subject, only if the message    *)
(* came with headers.                                                      *)

HiloToma(id) ==
  /\ hilo[id] = "espera" /\ cola[id] # << >>
  /\ cola' = [cola EXCEPT ![id] = Tail(@)]
  /\ hilo' = [hilo EXCEPT ![id] = IF Head(cola[id]) THEN "responde" ELSE "atiende"]
  /\ UNCHANGED <<delUsuario, nats, suscriptions, candado, oyente, abierta,
                 recibidas, limite, hacia, desde, conexion, delServidor, cruce>>

HiloAtiende(id) ==
  /\ hilo[id] \in {"atiende", "responde"}
  /\ nats = "libre"
  /\ IF hilo[id] = "responde" THEN EscribePub ELSE UNCHANGED hacia
  /\ hilo' = [hilo EXCEPT ![id] = "espera"]
  /\ UNCHANGED <<delUsuario, nats, suscriptions, candado, oyente, cola, abierta,
                 recibidas, limite, desde, conexion, delServidor, cruce>>

(* The sender is gone and nothing is left.                                 *)
HiloTermina(id) ==
  /\ hilo[id] = "espera" /\ cola[id] = << >> /\ id \notin abierta
  /\ hilo' = [hilo EXCEPT ![id] = "fin"]
  /\ UNCHANGED <<delUsuario, nats, suscriptions, candado, oyente, cola, abierta,
                 recibidas, limite, hacia, desde, conexion, delServidor, cruce>>

-----------------------------------------------------------------------------
Servidor ==
  \/ ServidorAcepta \/ ServidorRechaza \/ ServidorPing \/ Rompe
  \/ \E tema \in Temas : ServidorPublica(tema)

Pide ==
  \/ Publica \/ CreateStream \/ HPublica \/ NoCreaConsumer \/ NoAnota
  \/ \E patron \in Patrones : Suscribe(patron) \/ CreaConsumer(patron)
  \/ \E id \in 1..sub_id : \E max \in {SinLimite} \cup {<<n>> : n \in Limites} :
       Desuscribe(id, max)

Usuario == Anota \/ FijaLimite \/ QuitaFila \/ Une \/ Falla \/ NoConecta

Oyente ==
  \/ OyenteOk \/ OyentePing \/ OyenteError \/ OyenteFinDeArchivo
  \/ SinDestino \/ Reparte \/ ReparteUltimo \/ RepartePasado \/ PierdeFila
  \/ OyenteUne

Hilo(id) == HiloToma(id) \/ HiloAtiende(id) \/ HiloTermina(id)

Next ==
  EnMarcha /\ (Servidor \/ Pide \/ Usuario \/ Oyente \/ \E id \in Ids : Hilo(id))

(* The threads of the process go on while they can; the server, the        *)
(* connection and the user owe nothing.                                    *)
Spec ==
  /\ Init /\ [][Next]_vars
  /\ WF_vars(EnMarcha /\ Usuario) /\ WF_vars(EnMarcha /\ Oyente)
  /\ \A id \in Ids : WF_vars(EnMarcha /\ Hilo(id))

-----------------------------------------------------------------------------
(* Properties                                                              *)

(* A sender is open exactly while its row is in the table, or while the    *)
(* row is about to be written there; nobody has a thread without having    *)
(* asked for it.                                                           *)
TypeOK ==
  /\ usuario.fase \in {"conecta", "libre", "anota", "desuscribe", "une", "fin"}
  /\ oyente.fase \in {"lee", "une", "fin"}
  /\ candado \in {"libre", "oyente", "envenenado"}
  /\ nats \in {"libre", "usuario"}
  /\ abierta = {suscriptions[i].id : i \in 1..Len(suscriptions)}
  /\ IsInjective([i \in 1..Len(suscriptions) |-> suscriptions[i].id])
  /\ \A i \in Ids : hilo[i] = "no" => cola[i] = << >> /\ i \notin abierta

(* The listening thread picks a row by subject and not by sid, and yet     *)
(* each subscription gets each of its publications once and in order,      *)
(* with other subscriptions that match, limits and refused commands, as    *)
(* long as no command crosses a copy on the way and no row is lost.        *)
CopiasPropias ==
  cruce \/ \A id \in Ids :
    /\ IsPrefix(recibidas[id], enviadas[id])
    /\ (oyente # Fin /\ id \in abierta /\ ~HayMensajes
          /\ conexion = "viva")
         => recibidas[id] = enviadas[id]

(* After unsubscribe(id, n), crossing or not, the callback runs for n more *)
(* messages at the most.                                                   *)
LimiteLocal ==
  \A id \in Ids :
    (limite[id] # << >> /\ limite[id][1] > 0) => limite[id][2] <= limite[id][1]

(* When unsubscribe returns without a limit the callback does not run any  *)
(* more: what was received before has been dealt with.  A subscription     *)
(* that failed has no thread and nothing that waits for it.                *)
NadaTrasDesuscribir ==
  \A id \in 1..sub_id :
    (usuario = Libre /\ id \notin abierta /\ oyente = Lee /\ conexion = "viva")
      => hilo[id] \in {"fin", "no"} /\ cola[id] = << >>

Atiende(id) == hilo[id] \in {"atiende", "responde"} \/ cola[id] # << >>

(* The user waits for a callback that waits for the client he holds.       *)
CicloUsuario == usuario.fase = "une" /\ Atiende(usuario.id)

(* The listening thread waits, with the table, for a callback that waits   *)
(* for the client, held by the user, who waits for the table.              *)
CicloOyente ==
  oyente.fase = "une" /\ usuario.fase \in {"anota", "desuscribe"} /\ Atiende(oyente.id)

Ciclo == CicloUsuario \/ CicloOyente

(* The user is in an operation, a message has not been dealt with, or one  *)
(* can be read.                                                            *)
Pendiente ==
  \/ usuario.fase \in {"anota", "desuscribe", "une"}
  \/ \E id \in Ids : Atiende(id)
  \/ oyente = Lee /\ desde # << >>

(* Operations, callbacks and the listening thread, with its PINGs, get     *)
(* through what there is (the others send no more than the model's bound), *)
(* unless the program ends or the threads are in one of the two cycles.    *)
TodoTermina == Pendiente ~> (~Pendiente \/ Ciclo \/ usuario = Fin)
=============================================================================
