------------------------------ MODULE Conexion ------------------------------
(***************************************************************************)
(* The life of a connection in the server: the accept loop (server.rs), a  *)
(* thread that listens to the client (oyente_cliente.rs), a thread that    *)
(* pings it (ping.rs), the flag both share, and the executor that owns the *)
(* writing side of the socket while its stream is in clientes_map.         *)
(*                                                                         *)
(* The client is the environment: it may close at any time, stay silent    *)
(* for ever, or send lines that do not decrypt.                            *)
(***************************************************************************)
EXTENDS Naturals, Sequences, FiniteSets, SequencesExt

CONSTANTS
  Clientes,        \* connections that are attempted
  MAX_CONNECTIONS, \* max_connections
  MaxPubs          \* bound of the model: commands each client publishes

ASSUME ConexionAssumption ==
  /\ IsFiniteSet(Clientes)
  /\ MAX_CONNECTIONS \in Nat \ {0}
  /\ MaxPubs \in Nat

VARIABLES
  cliente,           \* "fuera", "espera" in the backlog, "abierto", "cerrado"
  pubs,              \* how many PUB the client has sent
  debe,              \* a PING reached the client and it has not answered
  entrada,           \* the lines on their way from the client
  salida,            \* history: what the server wrote, first time each
  acepta,            \* the accept loop: [fase, c]
  count_connections,
  oyente,            \* the listening thread
  ping,              \* the ping thread
  bandera,           \* listening_lock: both threads must stop
  pongs,             \* messages in the channel from oyente to ping
  canal,             \* the channel of the executor
  clientes_map,      \* connections whose stream the executor can write to
  permisos,          \* connections that logged in
  rechazados         \* history: connections turned away as over the limit

delCliente == <<cliente, pubs, debe, entrada>>
delPing == <<ping, bandera, pongs>>
vars == <<cliente, pubs, debe, entrada, salida, acepta, count_connections,
          oyente, ping, bandera, pongs, canal, clientes_map, permisos,
          rechazados>>

Init ==
  /\ cliente = [c \in Clientes |-> "fuera"]
  /\ pubs = [c \in Clientes |-> 0]
  /\ debe = [c \in Clientes |-> FALSE]
  /\ entrada = [c \in Clientes |-> << >>]
  /\ salida = [c \in Clientes |-> << >>]
  /\ acepta = [fase |-> "libre"]
  /\ count_connections = 0
  /\ oyente = [c \in Clientes |-> "no"]
  /\ ping = [c \in Clientes |-> "no"]
  /\ bandera = [c \in Clientes |-> FALSE]
  /\ pongs = [c \in Clientes |-> 0]
  /\ canal = << >>
  /\ clientes_map = {}
  /\ permisos = {}
  /\ rechazados = {}

Escrito(c) == ToSet(salida[c])

(* What is written twice is recorded once, except after the SHUTDOWN.      *)
Escribe(c, x) ==
  salida' = [salida EXCEPT ![c] =
    IF x \in ToSet(@) /\ "SHUTDOWN" \notin ToSet(@) THEN @ ELSE Append(@, x)]

(* An error of run() makes main return: every thread dies with it.         *)
EnMarcha == acepta.fase # "caido"

-----------------------------------------------------------------------------
(* The client (outside the repository: any program that speaks to the port)*)

Conecta(c) ==
  /\ cliente[c] = "fuera"
  /\ cliente' = [cliente EXCEPT ![c] = "espera"]
  /\ UNCHANGED <<pubs, debe, entrada, salida, acepta, count_connections,
                 oyente, delPing, canal, clientes_map, permisos, rechazados>>

Manda(c, linea) ==
  /\ cliente[c] = "abierto"
  /\ "INFO" \in Escrito(c)
  /\ entrada' = [entrada EXCEPT ![c] = Append(@, linea)]
  /\ UNCHANGED <<cliente, salida, acepta, count_connections, oyente, delPing,
                 canal, clientes_map, permisos, rechazados>>

(* It logs in once, first; then it publishes and may send a broken line.   *)
MandaConnect(c) ==
  /\ pubs[c] = 0 /\ "CONNECT" \notin ToSet(entrada[c])
  /\ pubs' = [pubs EXCEPT ![c] = 1]
  /\ UNCHANGED debe
  /\ Manda(c, "CONNECT")

MandaPub(c) ==
  /\ pubs[c] \in 1..MaxPubs
  /\ pubs' = [pubs EXCEPT ![c] = @ + 1]
  /\ UNCHANGED debe
  /\ \E linea \in {"PUB", "ILEGIBLE"} : Manda(c, linea)

MandaPong(c) ==
  /\ debe[c]
  /\ debe' = [debe EXCEPT ![c] = FALSE]
  /\ UNCHANGED pubs
  /\ Manda(c, "PONG")

Cierra(c) ==
  /\ cliente[c] \in {"espera", "abierto"}
  /\ cliente' = [cliente EXCEPT ![c] = "cerrado"]
  /\ UNCHANGED <<pubs, debe, entrada, salida, acepta, count_connections,
                 oyente, delPing, canal, clientes_map, permisos, rechazados>>

-----------------------------------------------------------------------------
(* The accept loop (server.rs run)                                         *)

SinServir(c) == cliente[c] = "espera" \/ (cliente[c] = "cerrado" /\ salida[c] = << >>)

Entrante(c) ==
  /\ acepta.fase = "libre"
  /\ SinServir(c) /\ oyente[c] = "no" /\ c \notin rechazados

(* The address of a connection its client already reset cannot be asked    *)
(* for, and the error leaves run.                                          *)
AceptaFalla(c) ==
  /\ Entrante(c) /\ cliente[c] = "cerrado"
  /\ acepta' = [fase |-> "caido"]
  /\ UNCHANGED <<delCliente, salida, count_connections, oyente, delPing,
                 canal, clientes_map, permisos, rechazados>>

(* Over the limit: write the error, drop the stream and go on.  Writing to *)
(* a connection its client already reset fails, and the error leaves run.  *)
Rechaza(c) ==
  /\ Entrante(c)
  /\ count_connections >= MAX_CONNECTIONS
  /\ \/ acepta' = acepta
     \/ cliente[c] = "cerrado" /\ acepta' = [fase |-> "caido"]
  /\ rechazados' = rechazados \cup {c}
  /\ cliente' = [cliente EXCEPT ![c] = "cerrado"]
  /\ UNCHANGED <<pubs, debe, entrada, salida, count_connections, oyente,
                 delPing, canal, clientes_map, permisos>>

(* Both threads of the connection start; nothing has been written yet.     *)
Lanza(c) ==
  /\ Entrante(c)
  /\ count_connections < MAX_CONNECTIONS
  /\ acepta' = [fase |-> "saluda", c |-> c]
  /\ oyente' = [oyente EXCEPT ![c] = "lee"]
  /\ ping' = [ping EXCEPT ![c] = "arranca"]
  /\ cliente' = [cliente EXCEPT ![c] = IF @ = "espera" THEN "abierto" ELSE @]
  /\ UNCHANGED <<pubs, debe, entrada, salida, count_connections, bandera,
                 pongs, canal, clientes_map, permisos, rechazados>>

(* info(): its error also leaves run.                                      *)
Saluda ==
  /\ acepta.fase = "saluda"
  /\ \/ /\ acepta' = [acepta EXCEPT !.fase = "inserta"]
        /\ Escribe(acepta.c, "INFO")
     \/ /\ cliente[acepta.c] = "cerrado"
        /\ acepta' = [fase |-> "caido"]
        /\ UNCHANGED salida
  /\ UNCHANGED <<delCliente, count_connections, oyente, delPing, canal,
                 clientes_map, permisos, rechazados>>

Inserta_SinContar ==
  /\ acepta.fase = "inserta"
  /\ clientes_map' = clientes_map \cup {acepta.c}
  /\ acepta' = [fase |-> "libre"]
  /\ UNCHANGED <<delCliente, salida, count_connections, oyente, delPing, canal,
                 permisos, rechazados>>

Inserta ==
  /\ acepta.fase = "inserta"
  /\ clientes_map' = clientes_map \cup {acepta.c}
  /\ count_connections' = count_connections + 1
  /\ acepta' = [fase |-> "libre"]
  /\ UNCHANGED <<delCliente, salida, oyente, delPing, canal, permisos,
                 rechazados>>

-----------------------------------------------------------------------------
(* The listening thread (oyente_cliente.rs)                                *)

Encola(op, c) == canal' = Append(canal, [op |-> op, c |-> c])

(* Ping takes the write lock of the flag while it announces the cut.       *)
BanderaLibre(c) == ping[c] # "corta"

OyenteLee(c) ==
  LET linea == Head(entrada[c]) IN
  /\ EnMarcha
  /\ oyente[c] = "lee" /\ entrada[c] # << >>
  /\ entrada' = [entrada EXCEPT ![c] = Tail(@)]
  /\ \/ /\ linea = "PONG" /\ ping[c] # "fin"
        /\ pongs' = [pongs EXCEPT ![c] = @ + 1]
        /\ UNCHANGED <<oyente, canal>>
     \/ /\ linea = "PONG" /\ ping[c] = "fin"   \* the receiver is gone
        /\ oyente' = [oyente EXCEPT ![c] = "sale"]
        /\ UNCHANGED <<pongs, canal>>
     \/ /\ linea \in {"CONNECT", "PUB"}
        /\ Encola(linea, c)
        /\ UNCHANGED <<oyente, pongs>>
     \/ /\ linea = "ILEGIBLE" /\ BanderaLibre(c) /\ bandera[c]
        /\ oyente' = [oyente EXCEPT ![c] = "sale"]
        /\ UNCHANGED <<pongs, canal>>
     \/ /\ linea = "ILEGIBLE" /\ BanderaLibre(c) /\ ~bandera[c]
        /\ Encola("-ERR", c)
        /\ UNCHANGED <<oyente, pongs>>
  /\ UNCHANGED <<cliente, pubs, debe, salida, acepta, count_connections, ping,
                 bandera, clientes_map, permisos, rechazados>>

OyenteVeElFin_SinBreak(c) ==
  /\ EnMarcha
  /\ oyente[c] = "lee" /\ entrada[c] = << >> /\ cliente[c] = "cerrado"
  /\ BanderaLibre(c) /\ ~bandera[c]
  /\ oyente' = [oyente EXCEPT ![c] = "corta"]
  /\ UNCHANGED <<delCliente, salida, acepta, count_connections, delPing, canal,
                 clientes_map, permisos, rechazados>>

(* End of file: look at the flag, and release it before taking it to write.*)
OyenteVeElFin(c) ==
  /\ EnMarcha
  /\ oyente[c] = "lee" /\ entrada[c] = << >> /\ cliente[c] = "cerrado"
  /\ BanderaLibre(c)
  /\ oyente' = [oyente EXCEPT ![c] = IF bandera[c] THEN "sale" ELSE "corta"]
  /\ UNCHANGED <<delCliente, salida, acepta, count_connections, delPing, canal,
                 clientes_map, permisos, rechazados>>

(* The flag is not looked at again: Ping may have cut in between.          *)
OyenteCorta(c) ==
  /\ EnMarcha
  /\ oyente[c] = "corta" /\ BanderaLibre(c)
  /\ bandera' = [bandera EXCEPT ![c] = TRUE]
  /\ Encola("SHUTDOWN", c)
  /\ oyente' = [oyente EXCEPT ![c] = "sale"]
  /\ UNCHANGED <<delCliente, salida, acepta, count_connections, ping, pongs,
                 clientes_map, permisos, rechazados>>

Quitar_Olvida(c) == clientes_map

(* quitar_cliente                                                          *)
QuitarCliente(c) == clientes_map \ {c}

OyenteTermina(c) ==
  /\ EnMarcha
  /\ oyente[c] = "sale"
  /\ clientes_map' = QuitarCliente(c)
  /\ oyente' = [oyente EXCEPT ![c] = "fin"]
  /\ UNCHANGED <<delCliente, salida, acepta, count_connections, delPing, canal,
                 permisos, rechazados>>

-----------------------------------------------------------------------------
(* The ping thread (ping.rs).  Its first five seconds of sleep are taken   *)
(* to outlast the three statements of the accept loop that follow.         *)

Atendida(c) ==
  IF acepta.fase \in {"saluda", "inserta"} THEN acepta.c = c ELSE FALSE

PingMira(c) ==
  /\ EnMarcha
  /\ ping[c] \in {"arranca", "duerme"}
  /\ ~(ping[c] = "arranca" /\ Atendida(c))
  /\ BanderaLibre(c)
  /\ \/ /\ bandera[c]
        /\ ping' = [ping EXCEPT ![c] = "fin"]
        /\ UNCHANGED canal
     \/ /\ ~bandera[c]
        /\ ping' = [ping EXCEPT ![c] = "espera"]
        /\ Encola("SEND_PING", c)
  /\ UNCHANGED <<delCliente, salida, acepta, count_connections, oyente,
                 bandera, pongs, clientes_map, permisos, rechazados>>

PingRecibe_NoConsume(c) ==
  /\ EnMarcha
  /\ ping[c] = "espera" /\ pongs[c] > 0
  /\ ping' = [ping EXCEPT ![c] = "duerme"]
  /\ UNCHANGED <<delCliente, salida, acepta, count_connections, oyente, pongs,
                 bandera, canal, clientes_map, permisos, rechazados>>

PingRecibe(c) ==
  /\ EnMarcha
  /\ ping[c] = "espera" /\ pongs[c] > 0
  /\ pongs' = [pongs EXCEPT ![c] = @ - 1]
  /\ ping' = [ping EXCEPT ![c] = "duerme"]
  /\ UNCHANGED <<delCliente, salida, acepta, count_connections, oyente,
                 bandera, canal, clientes_map, permisos, rechazados>>

(* recv_timeout gives up, by time or because the listening thread ended.   *)
PingSeCansa(c) ==
  /\ EnMarcha
  /\ ping[c] = "espera" /\ pongs[c] = 0
  /\ \/ /\ bandera[c]
        /\ ping' = [ping EXCEPT ![c] = "fin"]
        /\ UNCHANGED canal
     \/ /\ ~bandera[c]
        /\ ping' = [ping EXCEPT ![c] = "corta"]
        /\ Encola("STALE", c)
  /\ UNCHANGED <<delCliente, salida, acepta, count_connections, oyente,
                 bandera, pongs, clientes_map, permisos, rechazados>>

PingCorta(c) ==
  /\ EnMarcha
  /\ ping[c] = "corta"
  /\ Encola("SHUTDOWN", c)
  /\ bandera' = [bandera EXCEPT ![c] = TRUE]
  /\ ping' = [ping EXCEPT ![c] = "fin"]
  /\ UNCHANGED <<delCliente, salida, acepta, count_connections, oyente, pongs,
                 clientes_map, permisos, rechazados>>

-----------------------------------------------------------------------------
(* The executor (command_executor.rs ejecutar_comando), as far as the life *)
(* of the connection goes.                                                 *)

EscribeSiEsta(c, x) ==
  IF c \in clientes_map THEN Escribe(c, x) ELSE UNCHANGED salida

EjConnect(c) ==
  /\ permisos' = IF c \in clientes_map THEN permisos \cup {c} ELSE permisos
  /\ EscribeSiEsta(c, "+OK")
  /\ UNCHANGED <<debe, clientes_map>>

(* The answer to the publisher, who may have lost his stream meanwhile.    *)
EjPub(c) ==
  /\ EscribeSiEsta(c, IF c \in permisos THEN "+OK" ELSE "-ERR")
  /\ UNCHANGED <<debe, clientes_map, permisos>>

EjPing(c) ==
  /\ debe' = [debe EXCEPT ![c] = @ \/ c \in clientes_map]
  /\ EscribeSiEsta(c, "PING")
  /\ UNCHANGED <<clientes_map, permisos>>

EjError(c, texto) ==
  /\ EscribeSiEsta(c, texto)
  /\ UNCHANGED <<debe, clientes_map, permisos>>

EjShutdown_DejaStream(c) ==
  /\ EscribeSiEsta(c, "SHUTDOWN")
  /\ UNCHANGED <<debe, clientes_map, permisos>>

EjShutdown(c) ==
  /\ EscribeSiEsta(c, "SHUTDOWN")
  /\ clientes_map' = clientes_map \ {c}
  /\ UNCHANGED <<debe, permisos>>

Ejecuta ==
  LET m == Head(canal) IN
  /\ EnMarcha
  /\ canal # << >>
  /\ canal' = Tail(canal)
  /\ \/ m.op = "CONNECT" /\ EjConnect(m.c)
     \/ m.op = "PUB" /\ EjPub(m.c)
     \/ m.op = "SEND_PING" /\ EjPing(m.c)
     \/ m.op \in {"-ERR", "STALE"} /\ EjError(m.c, m.op)
     \/ m.op = "SHUTDOWN" /\ EjShutdown(m.c)
  /\ UNCHANGED <<cliente, pubs, entrada, acepta, count_connections, oyente,
                 delPing, rechazados>>

-----------------------------------------------------------------------------
Oyente(c) ==
  OyenteLee(c) \/ OyenteVeElFin(c) \/ OyenteCorta(c) \/ OyenteTermina(c)

Ping(c) == PingMira(c) \/ PingRecibe(c) \/ PingSeCansa(c) \/ PingCorta(c)

Acepta ==
  \/ Saluda \/ Inserta
  \/ \E c \in Clientes : AceptaFalla(c) \/ Rechaza(c) \/ Lanza(c)

Cliente(c) ==
  Conecta(c) \/ MandaConnect(c) \/ MandaPub(c) \/ MandaPong(c) \/ Cierra(c)

Next ==
  \/ Acepta
  \/ Ejecuta
  \/ \E c \in Clientes : Cliente(c) \/ Oyente(c) \/ Ping(c)

(* Every thread of the server is scheduled, and a timeout or the end of a  *)
(* sleep comes; a client owes nothing.                                     *)
Equidad ==
  /\ WF_vars(Acepta)
  /\ WF_vars(Ejecuta)
  /\ \A c \in Clientes : WF_vars(Oyente(c)) /\ WF_vars(Ping(c))

Spec == Init /\ [][Next]_vars /\ Equidad

-----------------------------------------------------------------------------
(* Properties                                                              *)

Lineas == {"CONNECT", "PUB", "ILEGIBLE", "PONG"}
Operaciones == {"CONNECT", "PUB", "SEND_PING", "-ERR", "STALE", "SHUTDOWN"}

TypeOK ==
  /\ cliente \in [Clientes -> {"fuera", "espera", "abierto", "cerrado"}]
  /\ pubs \in [Clientes -> 0..(MaxPubs + 1)]
  /\ debe \in [Clientes -> BOOLEAN]
  /\ entrada \in [Clientes -> Seq(Lineas)]
  /\ acepta \in [fase : {"libre", "caido"}]
                \cup [fase : {"saluda", "inserta"}, c : Clientes]
  /\ count_connections \in 0..MAX_CONNECTIONS
  /\ oyente \in [Clientes -> {"no", "lee", "corta", "sale", "fin"}]
  /\ ping \in [Clientes -> {"no", "arranca", "espera", "duerme", "corta", "fin"}]
  /\ bandera \in [Clientes -> BOOLEAN]
  /\ pongs \in [Clientes -> 0..1]
  /\ canal \in Seq([op : Operaciones, c : Clientes])
  /\ clientes_map \subseteq Clientes
  /\ permisos \subseteq Clientes

Antes(c, x, y) ==
  \A j \in 1..Len(salida[c]) :
    salida[c][j] = y => \E i \in 1..(j - 1) : salida[c][i] = x

(* What a client sees when it is cut: it was greeted and pinged before it  *)
(* is told that it is stale, it is told so before the SHUTDOWN unless it   *)
(* closed first, and nothing is written after the SHUTDOWN - although the  *)
(* lines come from three threads through one channel.                      *)
OrdenDelCorte ==
  \A c \in Clientes :
    /\ Antes(c, "INFO", "PING")
    /\ Antes(c, "PING", "STALE")
    /\ cliente[c] # "cerrado" => Antes(c, "STALE", "SHUTDOWN")
    /\ "SHUTDOWN" \in Escrito(c) => Last(salida[c]) = "SHUTDOWN"

(* The limit holds for the connections that have threads, whatever state   *)
(* the loop and the closing connections are in.                            *)
CupoRespetado ==
  /\ Cardinality({c \in Clientes : oyente[c] # "no"}) <= MAX_CONNECTIONS
  /\ clientes_map \subseteq {c \in Clientes : oyente[c] # "no"}

(* When the client closes, both threads of its connection end.             *)
HilosTerminan ==
  \A c \in Clientes :
    (cliente[c] = "cerrado" /\ oyente[c] # "no")
      ~> (~EnMarcha \/ (oyente[c] = "fin" /\ ping[c] = "fin"))

(* A stream that is in the map when its client has closed and its listener *)
(* still runs is removed, by SHUTDOWN or by quitar_cliente.                *)
StreamSeQuita ==
  \A c \in Clientes :
    (cliente[c] = "cerrado" /\ c \in clientes_map /\ oyente[c] # "fin")
      ~> (~EnMarcha \/ c \notin clientes_map)

(* command_executor.rs:88: CONNECT connects the client or refuses it; the  *)
(* client library waits for that answer.                                   *)
ConnectSeResponde ==
  \A c \in Clientes :
    (pubs[c] > 0) ~> (~EnMarcha \/ cliente[c] = "cerrado" \/ "+OK" \in Escrito(c))
=============================================================================
