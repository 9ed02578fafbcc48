# Verification of the NATS server and its clients

TLA+ specifications of this repository: a NATS-like server (publish/subscribe
with JetStream), a client library, a system that monitors incidents, a central
of cameras, and drones. They are checked with TLC on small instances and, where
stated, proved with TLAPS for every value of their constants. Definitions keep
the names of the source.

Paths are those of `PROJECT.json`: the first `src/` is the root of the sources,
so the server is under `src/src/servidor/`.

## The system

```
 client library --TCP--> listening thread --\                    /--> sockets
 (one listening thread)  (oyente_cliente.rs) >--mpsc--> executor --> JetStream --> csv files
                         ping thread -------/     (command_executor.rs)   |  ^
                         (ping.rs)                                        v  | acks
                         accept loop (server.rs)                  consumer threads

 monitoring system, camera central, drones: programs on top of the client library
```

| Component | State | Operations | What is hard |
|---|---|---|---|
| Subjects (`commons/subject.rs`, `validate_subject`) | none | match a subject against a pattern; validate | the end of both sequences, the two wildcards |
| Command executor (`command_executor.rs`, `suscription.rs`, `user_permissions.rs`) | permissions, subscriptions, streams, the shared map of sockets | CONNECT, SUB, UNSUB, PUB, HPUB, PING, SHUTDOWN, create stream/consumer, ack | tables that outlive connections, counts that reach 0, errors half way |
| Connection (`server.rs`, `oyente_cliente.rs`, `ping.rs`) | map of sockets, count of connections, a flag and two channels per connection | accept, greet, insert, listen, ping, cut, remove | four threads per connection, started before the connection is in the map |
| Command channel (`oyente_cliente.rs`, `hpublish`) | one queue for all clients | join PUB with its payload, enqueue, collect HPUB | lines of several clients interleave while HPUB takes more than one |
| JetStream (`jet_stream/`) | messages, consumers, per-consumer thread, three csv files | store, add consumer, send, ack, resend, give up, load | acks race timeouts, the process stops while files are written |
| Camera central (`camara/`) | cameras, state and count of each, incidents seen | incident begins / ends, add / remove a camera | counts kept by increments, in overlapping incidents |
| Monitoring system (`sistema_monitoreo/`) | incidents, drones at each, a counter of ids, the client, each behind a mutex | new incident (user, detector), note a drone, resolve, close after a time, remove | callbacks that take the mutexes in different orders, steps that leave something undone |
| Client library (`cliente/`) | table of subscriptions, a thread and a channel for each | subscribe, unsubscribe, publish, consume; listening thread: hand over, ack, PONG | rows found by subject and not by sid, joins under a mutex, errors that end the listener |
| Frames (`icwt_crypto/`, `read_until_crlf`, `escuchar_mensaje`) | bytes on the wire | encrypt line by line, find the lines again | ciphertext may hold any CR and LF |
| Detection (`camara.rs`, `detector_incidentes/`, `azure_vision_client/`) | a thread and a channel per camera, images in folders | look at an image, announce, stop | threads joined under two mutexes, started twice |
| Windows (`ui/`) | the central's window: its own list of cameras | buttons | lists that follow only what went well |
| Others | logger, bootstrap | | no state that the rest depends on |

How they interact: a listening thread only sends on the channel and shares the
flag with its ping thread; the executor is one thread and owns every table
except `clientes_map`, a mutex shared with the accept loop (inserts) and with
the listening threads (remove on the way out). A consumer of JetStream is a
thread that talks to the executor through the same channel, as connection 0.
The programs hold their client in a mutex: a callback of the library runs in the
thread of its subscription and takes that mutex to publish. The central
publishes the state of each camera through a stream of JetStream, and the
monitoring system keeps its own table of cameras from it.
The drone program is not in the repository.

What makes each component correct:

* Subjects: the loop computes the matching relation; a permission on a pattern
  covers everything that the pattern lets through.
* Executor: nobody receives what he may not subscribe to; limits hold; a new
  connection inherits nothing; a command touches only its own rows; the thread
  survives.
* Connection: the limit holds; the end is told in order; threads and sockets go
  away; CONNECT is answered.
* Channel: a message keeps its payload and its place; what arrives is published.
  Seen from outside it is `Publicaciones`: messages are lost or come out in the
  order of their client, once.
* Client library: a subscription gets its own messages, in order, no more than
  its limit and none after it is gone; operations, callbacks and the listener end.
* Frames: what is read is what was written, and each reader is always at the
  beginning of a frame.
* JetStream: nothing stored is skipped; files and memory agree; a consumer that
  does not ack holds nothing back; an ack is for its own message.
* Cameras: whoever has an incident records; the counts are those of the
  neighbours; everything rests when all is over. One thread looks at each camera
  that rests and none at one that records; what is detected is announced once;
  the central, its window and the monitoring system agree on the cameras.
* Monitoring: what the server is told of an incident is in order; an incident
  that leaves the list is announced; every callback and every button ends.

## Modules

Each module says at its head what it is about. `PROJECT.json` ("map") gives the
lines of the source that each definition stands for.

**Subjects** - `Coincide`, the reference definition of `subject_matches_token`,
and `SubjectValido`. A subject is a sequence of tokens.

**SubjectMatch** (extends Subjects) - the loop of `subject_matches_token`, one
action per way through its body, over every pattern and subject of bounded
length. `Coincide` is its abstract specification: `ResultadoCorrecto`.

**CommandExecutor** (extends Subjects) - the tables of the executor, one action
per command. A command locks `clientes_map` at most once and nobody else
touches the other tables, so it is one action; `Aceptar` and `Quitar` are the
steps of the other threads on the shared map. The rows of `suscriptions` are a
set with their place in the Vec. The connections whose write fails (`fallan`)
are chosen in each publication. Rows carry history (`usuario`, `limite`,
`entregados`) that no guard reads. A command of any connection accepted so far
may come at any time, also after its SHUTDOWN, because the listening thread may
still be sending; which of those orders really occur is Conexion's matter. The
panic of `Some(0) - 1` is `PublicaYCae`: rows before it were served, the loop
ends and the mutex stays poisoned, so that nothing moves after it.

**Conexion** - the life of each connection: the client (environment), the
accept loop in its three steps (`Lanza`, `Saluda`, `Inserta`), the listening
and ping threads, their flag and channel, and the executor's part in it. An
error that leaves `run` makes `main` return, and then nothing else moves
(`EnMarcha`). `salida` records what the client was written, once each, except
after the SHUTDOWN. The first sleep of the ping thread, five seconds, is taken to
outlast the statements of the accept loop that follow it (`Atendida`).

**Publicaciones** - what the server promises its clients about what they
publish, with no thread in it: a number sent, pending, and then published or
lost.

**Canal** (implements Publicaciones) - lines of several clients through their
listening threads into one channel; PUB is enqueued with its payload, HPUB is
not, and the executor inside `hpublish` takes headers, an element to throw away
and a payload from whatever comes. Lengths matter only in sums (`Largo`). Once
the bytes taken pass those announced they never match again; `acum` stays at
the first value beyond. A client may send a `PUBmal` or `HPUBmal`, which
`publish` and `hpublish` refuse: its fields are wrong, or it may not publish
there; which is CommandExecutor's matter. The payload of a refused PUB goes
with it, the lines of a refused HPUB stay in the channel. `EjPanico` is a lower
case `pub`, which arrives without its payload, and an HPUB with a total below
its header bytes. The refinement mapping (`Promesa`) counts as pending a
publication whose first line is on the wire or in the channel, or that the
executor is inside of; the history of publications maps to who sent each and
which of his messages it was.

**JetStream** - one stream, its consumers with their threads, queues and acks,
the csv files (`disco`) and restarts: `Reinicia` between two operations,
`ReiniciaEscribiendo` in the middle of writing a file, which `update_csv_file`
truncates first and which may be left without rows, with some of them, or with
a row that ends early (`Cortados`). A stream is one row of text, cut at its
commas: what comes back of a payload is its text up to the first comma with the
words one blank apart (`Queda`), and each piece after a comma that begins with
a number comes back as a message with that id (`Piezas`); both are constants.
`alterado` is set when a load brings ids that memory did not have. `copias` are
the copies the client has received and not acked; the client library acks each
of them, in order, at any time or never.

`CreateConsumer` and `EjAck` are the commands of the executor; building a
consumer writes its row (`Construido`) before `AddConsumer` looks whether it exists.

**NatsClient** (extends Subjects) - the program of `cliente/src/main.rs` on top
of the library. `nats` says who holds the client, which the user's thread keeps
for a whole operation and a callback takes to publish; `candado` who holds the
table of subscriptions. An operation is a write and what it does in the table,
one action each, because the listening thread may come between. The listening
thread finds the row by subject (`Primera`), hands over, acks if it is a
consumer's, counts and puts the row at the end; a return by `?` in between
drops it (`PierdeFila`). The SUB is written before the handler is made, so the
server may have a row that the client has not (`NoAnota`). The server is
external: it carries out commands in order, as CommandExecutor does, and its
answers that nobody reads are left out; the copies of one publication are
alike, so its rows are a set. `cruce` is set when a command and a copy are
under way at once, a row is lost or never made; from then on nothing is said
about whose copy is whose.

**Tramas** - the bytes of an encrypted text, `read_until_crlf`,
`decrypt_with_crlf` as the loop it is, and the two readers: the server, which
takes one line as the payload of a PUB, and the library, which takes the bytes
that the line of the message announces. That number is the publisher's, and the
server passes on any: each message announces the right one, another one, or
none. AES is any one to one function from texts to blocks, chosen in `Init`, so
every place where a CR or an LF may fall is tried.

**Deteccion** - the detection threads of the cameras, the channel that stops each,
the two mutexes under which `set_estado_grabar` joins one (the list, held from the
beginning to the end of a message or a removal, and the client, `espera`), the
thread that publishes what was detected, the window of the central, and the
table of cameras of the monitoring system, which takes each message once or
twice. Which cameras a message touches is free here; Camaras says which.

**Camaras** - cameras, their neighbours (constants) and incidents. Each message
brings a position, the set of cameras in its range, chosen freely: the monitoring
system cancels an incident at the position of a drone. `AvisosDe`
sums the calls that tell one camera of an incident, so that a message of an
incident is one action, as it runs under the lock of the central.

**Monitoreo** - the callbacks of the drones and of the detector, the window's
`nuevo_incidente` and `eliminar_incidente`, and the threads that close an
incident after its time. `candado` says who holds each mutex that somebody
waits for while holding another: the client, the table of drones per incident
(`hash`) and the counter of ids. The list of incidents is taken last and
released at once, so what is done under it is one action; every other step
between two mutexes is an action of its own. `publicado` is what got out before
the connection broke (`Rompe`); a write after that may still succeed, as TCP
does. `drones` stays locked during the drones' callback, which makes only the
window's reading wait. Poisoned mutexes do not occur, no path panics under one.

**MC\*** - constants for TLC. **\*_proofs** - theorems.

Deteccion composes three programs (central, window, monitoring system). The
other modules are checked separately: each states what it takes from the others
(the previous paragraphs), with the interface chosen so that it allows more
than the neighbour does: CommandExecutor allows every order of commands and map
changes that Conexion produces, JetStream every order of acks, Monitoreo every
order of messages, NatsClient a server that may refuse, stop or break at any
moment.

## Runs

Deadlock is not checked in any of them: clients may stop talking, and every run
bounds the inputs, so the system may rest.

| Run | Bounds | Shows |
|---|---|---|
| SubjectMatch | patterns and subjects of 0 to 3 tokens over a, b, `*`, `>` | the loop returns the reference result (`ResultadoCorrecto`); `PermisoCubre` |
| CommandExecutor | 2 connections (`MaxId` 3), users with the permissions of `in_memory_repository.rs`, 2 patterns, 2 subjects, 1 sid, 2 rows, 1 stream | `IdsYaUsados`, `EntregaPermitida`, `LimiteRespetado`, `ConexionNuevaLimpia`, `SoloElDuenoToca` |
| Conexion | 2 clients for 1 place, a CONNECT and 2 lines each | `OrdenDelCorte`, `CupoRespetado`, `HilosTerminan`, `StreamSeQuita` |
| Canal | 2 clients with 2 and 1 messages, of 6 kinds and of 3, one header | `PubIntegra`, `TodoPubLlega`, `ImplementaPublicaciones` (refinement) |
| JetStream | 2 consumers, 2 messages, the first of which may be "a" or "a,3 a", `Limite` 2, one restart | `NadaSeSaltea`, `ReinicioFiel`, `NadieBloquea` |
| NatsClient | 2 subscriptions over 2 patterns, one of them a consumer's, limits 0 and 2, 3 operations, 2 publications or PINGs of others | `CopiasPropias`, `LimiteLocal`, `NadaTrasDesuscribir`, `TodoTermina` |
| Tramas | 2 messages of 1 or 2 lines, 2 texts and the empty one, 7 blocks of 3 bytes, the right number, 3, 6 or none | `LlegaIgual`, `EnFase` |
| Deteccion | 2 cameras, 1 image, 3 threads, 2 messages or removals | `SinDobleDeteccion`, `EstadoAnunciado`, `TodoSigue` |
| Camaras | 4 cameras in a row, 3 incidents, each message from any of 3 positions that reach one or two cameras | `GrabaSuIncidente`, `CuentaExacta`, `GrabaLoJusto` |
| Monitoreo | 2 drones, 2 incidents, 4 messages of drones | `OrdenPublicado`, `CanceladoEsDePaso`, `SoloUnCiclo`, `SalidaSeAvisa` |
| Conexion_connect, Monitoreo_bloqueo | as above or smaller | disagreements, next section |

Why these bounds are enough for what they ask: two connections are what a row
or a permission needs to be inherited, touched or collide, with the same sid on
both; two places of the Vec give a row before and one after the exhausted one.
One place for two clients is where the limit bites, and two lines per client
after CONNECT let a line precede and follow the cut. One message more than one
per client makes order meaningful, and `Largo` makes a foreign line fit a
header exactly (OTRO) or not (the rest). `Limite` 2 instead of 5 keeps both
outcomes of a timeout; two messages let an ack meet the wrong one, and the first
may come back from its row as two. The wrong numbers of Tramas are a block, two
blocks and none, shorter and longer than the payloads. In Camaras
a row of four has cameras with one and with two neighbours, and incidents that
overlap at one camera, on neighbours, and on the same pair, and that are cancelled
where they began, beside it, or out of its range. In Monitoreo two
drones are what an incident takes, the third message resolves it and the fourth
meets it active, closing or removed; the second incident may be the detector's
while the first is the user's. In NatsClient both patterns match one subject and
one the other, so that rows change places; limit 0 is the edge and limit 2 the
one that a consumer reaches; three operations subscribe, limit and unsubscribe.
The blocks of Tramas have a CR, an LF or both at either end, in the middle and
doubled; with two frames a block meets the CRLF of the one before. In Deteccion
three threads are one per camera and the one that a second rest adds; of two
messages one starts what the other ends.

Fairness. Weak fairness of the steps of each thread of the server: they block
only on channels, sockets and the mutex, whose holders always release them, and
a timeout or a sleep always ends. Clients owe nothing: they may close, stay
silent or never ack. In NatsClient and Deteccion the threads of the program go
on when they can; the other publishers, who adds cameras, messages and the break
of the connection owe nothing, and an HTTP call ends, as its client has a time
limit. SubjectMatch, Tramas and Camaras have only safety properties.
In Monitoreo each thread goes on when its mutex is free, and a sleep ends;
messages, buttons and the break of the connection owe nothing.

`TodoPubLlega` exempts a client that closed (the rest of its line may be lost)
and the executor inside an HPUB or panicked, which are real limits of the code,
described below; it says nothing of a PUB that is refused, beyond that it does
not harm those that follow. `NadaSeSaltea`, the ids in `TypeOK` and the
messages of `ReinicioFiel` hold until a load brings other ids than it was given
(`alterado`): a number after a comma of some text, or a row of messages cut
short. They are false of the code after that, below. `ReinicioFiel` is about
the files between two commands, the text up to its first comma and not about
the subjects. `CuentaExacta` and `GrabaLoJusto` hold until a camera is added
beside one that has an incident, or a cancel reaches a camera that does not
have it (`alterada`): both leave counts wrong for good. They hold when a cancel
misses a camera that has the incident, because "has" is what the camera keeps;
it goes on recording. `GrabaSuIncidente` needs no such condition.
`StreamSeQuita` is about streams that are in the map before the listener ends,
not about the one inserted after. `CupoRespetado` says that the limit is never
passed, not that places come free. `LimiteLocal` exempts the limit 0.
`SoloUnCiclo` and `SalidaSeAvisa` exempt the cycle that Monitoreo_bloqueo
shows, which is the only one. `SalidaSeAvisa` is about incidents that the user
created; those of the detector can be lost, below. `TodoTermina` exempts two
cycles of joins by name (`Ciclo`) and the program's end; `CopiasPropias` what
follows `cruce`; `LlegaIgual` asks that no ciphertext holds a CRLF, which AES
does not promise, and `EnFase` asks it only of the lines of messages; both hold
until the line of a message with a wrong number is read (`HastaAquiVeraz`);
`SinDobleDeteccion` exempts a camera set to rest while it rested (`repetida`),
and `EstadoAnunciado` is about an unbroken connection.

Each property has a mutant, an operator beside the original
(`Descuenta_SiNoUltimo`, `Encola_AlFrente`...) that changes it as a plausible bug
would and breaks the property: the properties do depend on the code.

## Disagreements between the code and what it says

Shown by runs:

* **Conexion_connect** - INFO is written before the stream is in the map; a
  CONNECT executed in between is never answered.
* **Monitoreo_bloqueo** - the callback of the drones has `hash` (336) and waits
  for the client (337), the callback of the detector has the client (482) and
  waits for `hash` (489). Neither ever goes on; the window stops at its next
  button, at the counter or the client.

Seen in the models, with no run of their own:

* a row with `Some(0)` is subtracted from by the next publication it matches and
  the executor panics (`suscription.rs:37`, `PublicaYCae`), though its loop is
  said to end only from the terminal (`server.rs:79`). `UNSUB sid 0` leaves such a
  row at once; so does a publication whose publisher lost its stream, because
  `?` at `command_executor.rs:563` returns before the exhausted rows are removed.
  An HPUB with a total below its header bytes and a stream without subjects
  (`js.rs:159`) end the executor too;
* headers and payload of an HPUB may be lines of another client (`EjCabecera`,
  `EjPayload`), though `hpublish` is said to send the message that its client
  gave (`command_executor.rs:685`);
* a refused HPUB takes only its first line out of the channel: its headers and
  payload are read as commands (`EjRechaza`);
* a payload with a comma does not survive a restart: the text after the comma is
  lost, runs of blanks become one, and a number after a comma becomes a message
  with that id (`js.rs:161`, `243-256`). Once that message counts as acknowledged
  the thread skips those with lower ids (`consumer.rs:80`), so a stored message is
  never sent; a message row cut short lets the ids restart below the acks on
  the disk, with the same effect (why `NadaSeSaltea` needs `alterado`);
* the second ack of a resent message counts as that of the next one
  (`RecibeAck`), though `ack` is said to tell that the message with that id was
  received (`js.rs:136`);
* in the library: `unsubscribe` joins a callback that may want the client its
  caller holds (`CicloUsuario`), and the listening thread, which holds the
  table, one that may want the client of who waits for the table
  (`CicloOyente`); a message goes to the first row that matches its subject,
  not to that of its sid, so a SUB or UNSUB that crosses a copy shifts the
  copies of other rows; a subscription is lost when its ack cannot be written;
  a SUB whose handler fails, for a pattern such as `a>` that the server takes
  and the library refuses (`suscriptor_handler.rs:46-60`), leaves a row in the
  server; a limit of 0 subtracts below 0 in the listening thread and poisons
  the table; any `-ERR` ends the listening thread; `hpublish` writes its text
  unencrypted (`client.rs:735`), so the server takes it for a line that does
  not decrypt;
* nobody checks the number of bytes of a PUB: the server passes it on
  (`command_executor.rs:364-370`, `543-549`), and for a payload with a CRLF the
  library announces the length of the whole (`client.rs:685`) of which one line is
  relayed. The client that gets it reads too little or too much and is out of
  frame from then on (why Tramas needs `HastaAquiVeraz`);
* a ciphertext with a CRLF in it is cut in two by both readers; `last_byte` is
  not reset after a line (`crypto.rs:104`), so a later line of a payload that
  begins with an LF is taken for the end of an empty one;
* a camera set to rest while it rests gets a second detection thread and the
  first is never joined, so an image may be announced twice; an image is removed
  also when the service failed; `es_incidente` is said to want more than 3
  tags and wants one (`detector_incidentes/src/lib.rs:25`); when the connection
  is broken a removed camera stays in the window and an added one never gets
  there; a monitoring system that starts late ignores the cameras that already
  record (`sistema_monitoreo.rs:66`);
* a client that closes before `server.rs:191` leaves its stream in the map for
  ever; `count_connections` is never decremented (`server.rs:157` decrements a
  copy), so 15 connections fill the server for life; an error of one connection
  in `peer_addr`, the refusal or `info` ends `run` and the process;
* the flag that is to close both threads of a connection is not read while the
  listening thread waits for a line; a client cut for being stale keeps its
  permissions and goes on publishing;
* `hpublish` does not store in the streams; the element it discards as an empty
  line is never one, because empty lines are not enqueued; a lower case `pub`
  reaches the executor without payload and panics;
* a camera created during an incident was not counted for it but counts down
  when it ends, so its count is off by one for good and it may record for ever;
  an incident that drones close is cancelled at the position of the drone
  (`sistema_monitoreo.rs:136-143`, `392-398`), and `process_incidents` looks for
  cameras in range of that (`central_de_camaras.rs:71-83`): cameras out of its range
  keep the incident and record for ever, and others discount one they never had
  (why `CuentaExacta` and `GrabaLoJusto` need `alterada`);
* an incident of the detector removed by the user between its insertions in the
  list and in `hash` (486, 490) leaves `eliminar_incidente` by the error at 607:
  it is gone from the list and nobody is told, so cameras go on recording;
* `resolviendo` does not ask whether the incident is active already: each
  message after the second drone publishes it active again and leaves another
  thread, which cancels it again; `hash` entries are removed only by the user;
* `contador` of a consumer is never reset, so after five sends in its life
  nothing is sent twice; creating a consumer that exists zeroes its row in the
  file; a restart while a file is being rewritten loses the stream; only the
  first subject of a stream is saved.

## Proofs

Each theorem is about every value of the constants under the assumptions that
its module states, and `Spec` is the specification that TLC runs: fairness is in
it and unused.

| Module | Theorems |
|---|---|
| CommandExecutor_proofs, also for SubjectMatch | `ResultadoCorrectoSiempre`: the loop of SubjectMatch returns the reference result, for any tokens and lengths. `PermisoTransitivo`, `PermisoCubreSiempre`: a permission without `*` accepts whatever a pattern it accepts matches. Of the executor, `TypeOKSiempre`, `IdsYaUsadosSiempre`, `EntregaPermitidaSiempre`, `LimiteRespetadoSiempre`, and the action properties `ConexionNuevaLimpiaSiempre`, `SoloElDuenoTocaSiempre` |
| Conexion_proofs | `TypeOKSiempre`, `CupoRespetadoSiempre`, `OrdenDelCorteSiempre` |
| Canal_proofs | `TypeOKSiempre`, `PubIntegraSiempre`, `ImplementaSiempre` (Canal implements Publicaciones), `PublicacionesEnOrden` (Publicaciones promises the publications of each client in the order he sent them and none twice), `OrdenEnElCanal` (so Canal keeps that promise) |
| JetStream_proofs | `IdsSeguidosSiempre` (the part of `TypeOK` about ids), `NadaSeSalteaSiempre`, `ReinicioFielSiempre` |
| Deteccion_proofs | `SinDobleDeteccionSiempre`, `EstadoAnunciadoSiempre` |
| Camaras_proofs | `TypeOKSiempre`, `GrabaSuIncidenteSiempre`, `CuentaExactaSiempre`, `GrabaLoJustoSiempre` |
| Monitoreo_proofs | `TypeOKSiempre`, `OrdenPublicadoSiempre`, `CanceladoEsDePasoSiempre` |
| NatsClient_proofs | `TypeOKSiempre`, `LimiteLocalSiempre`, `NadaTrasDesuscribirSiempre`, `CopiasPropiasSiempre` |

Hardly any of the properties is inductive. What each needs besides, which is
also why it holds:

**SubjectMatch** - `InvBucle` says that all the tokens before `i` match and
that none of them was `>`; when the loop returns it decides `Coincide`.

**CommandExecutor** - a delivery is allowed because its row was
(`FilasPermitidas`: the user of a row may subscribe to its pattern) and the
pattern of the row matches (`PermisoTransitivo`). `ConexionNuevaLimpia` holds
because the id that enters is the counter, and `IdsYaUsados` says that tables
only hold ids below it. `SoloElDuenoToca`, though two connections may use the
same sid: a command filters the rows by connection and sid, and a publication
turns each row into one of the same owner. `ExecutorAssumption` is about types;
`PermisosSinComodin` is satisfied by the users of `in_memory_repository.rs`, and
without it a permission on `*` would let a subscription to `>` through.

**Conexion** - `CupoRespetado`: the counter is that of the connections with
threads, less the one that is being accepted (`Contados`), so the comparison
with the limit, made before, is exact. `OrdenDelCorte`: a ping and its answer
are one token that goes round (`UnaVuelta`: in the channel, owed, on its way
back or in the hands of the ping thread), so there is no second ping before the
first was answered; and in the channel a SHUTDOWN follows what tells the client
that it is stale, and that follows its ping, or these were written already
(`Cortes`).

**Publicaciones** and **Canal** - every number published is below all those of
its client that are still pending, so taking the least pending one and losing
any keeps the order. In Canal the numbers of a client grow from the executor,
along the channel, and then along his wire (`Orden`), which makes what is
published the least of the pending ones. `PubIntegra` is from the wire on: the
line that begins a PUB is followed by its payload unless the connection broke
between the two (`Completo`), so what is enqueued carries its own
(`PayloadPropio`). Every action is shown to be `Envia`, `Publica`, a loss, or a
stutter.

**JetStream** - `NadaSeSaltea` for each consumer (`SinHuecos`): what is below the
ack of its thread, below the one on the disk, or below a copy that the client may
still ack was sent, and the rest waits in its queue. The second conjunct is what a
restart gives back, the third what the next ack makes true. It needs queues in
the order of the ids with what the thread holds before them (`EnCola`).
`ReinicioFiel` needs what the three files hold of the memory (`Archivos`), which
leaves out a row written before anybody looked whether the consumer exists.
All of it is about the time before `alterado`; that texts change in their row
(`Queda`) is harmless to it, because what is left of a text is left as it is by
the next restart (`JetStreamAssumption`).

**Deteccion** - `SinDobleDeteccion`: a thread that has not ended is the one its
camera knows of, unless that camera was removed or set to rest twice
(`Sueltos`), and a camera that records knows of none but the one being waited
for (`Propios`). So a camera that gets a thread has no other (`Solos`), and an
image that is detected was in the hands of the only thread of its folder, which
had not looked at it before: until it is removed it was not detected, or that
thread is about to remove it (`Imagen`). `EstadoAnunciado`: the last message
under way about a camera says the state that was published last (`Dicho`: that
it records is published after the wait for its thread), one that says that it
records comes when the table knows the camera already, as such messages are
ignored otherwise, and after one that says that it was removed there is no
other (`EnCamino`). With nothing under way, the table is what was published
last. A message that comes twice changes nothing, because the second comes
before any other.

**Camaras** - a camera has only incidents that the central saw begin
(`TienenLoVisto`), so one that begins is new to it; until `alterada`, its count is
the number of pairs of a neighbour and an incident that it has, wherever the
messages came from. When an incident begins or ends the calls that
one camera gets are as many as the pairs that enter or leave that set, and the
call to itself, which the code discounts; a count goes down only by pairs that
were in it, so it gets to nothing by passing by 0, which is when a camera rests.
The theorem is for any finite set of cameras and any neighbourhood that is
symmetric and reflexive, as the distance that the code compares makes it.
`GrabaSuIncidente` needs none of this: a camera rests only when it is left with
no incident.

**Monitoreo** - `OrdenPublicado` is about four kinds of threads that write to one
connection. Who holds each mutex is told by where the threads are (`Duenios`);
nothing was said of an id still to be given, but by the detector's callback, which
counts it last (`Frescos`); an incident in the list was announced unless the
connection broke, and one said to be cancelled has left the list and no drone is
about to say that it is active (`Anuncios`). That a thread finds its incident
as it left it when it goes on between two mutexes is `EnSuSitio`.

**NatsClient** - the ids of the table are the open senders and no two rows
share one (`EnTabla`); a thread begins with its row and ends after it
(`PorHilo`). `LimiteLocal`: what a row may still get and what its callback was
sent since make its limit (`PorLimite`), whatever place in the table it is
moved to; a row whose limit is exhausted on arrival was given the limit 0,
which `LimiteLocal` exempts. `NadaTrasDesuscribir`: an id without a row is
about to be noted, is being joined by the user's thread or by the listening
thread, has ended, or never had a thread, unless the listening thread or the
connection ended first (`SinFila`). The server and what it writes are arbitrary
in it: the proof uses nothing of the order of messages.

`CopiasPropias` needs the order, and the server. Its invariant (`Copias`) says
nothing once a command has crossed a copy (`cruce`); until then (`Bien`):

* what a subscription got is the beginning of what the server wrote to it
  (`Historias`), so each is owed the rest;
* there are as many copies of a publication on the way as subscriptions that
  are owed it (`Cuentas`), copies travel in the order of the publications
  (`EnOrden`), nothing is owed to a row that is gone nor beyond a limit
  (`SinDeuda`), and a row that matches the copy at the head, but is not owed it,
  has had its own (`Caminos`, `EnCamino`) and so stands behind all that wait
  for theirs (`Turnos`, the reason why a row goes to the end of the table after
  each message). Hence the first row that matches the head is owed it, as its
  next one (`CabezaDebida`), whatever the sid in the message says;
* no command for a row is under way while a copy is (`Calma`);
* to know who matches a publication, the table of the client, as it will be
  after the operation in course, and the rows of the server, as they will be
  after the commands on the way, must be the same rows with the same patterns
  (`Acuerdo`, with `Servida` for the rows that stay and `Olvidada` for the
  others). Limits differ by the copies on the way (`Cuadra`): the server counts
  when it writes, the client when it receives, so that the server may have
  dropped a row that the client still keeps.

Both ends count copies in sets, so that `Cuentas` is about cardinalities: one
publication adds one copy and one debtor for each row (`Destinatarios`), and one
delivery takes one of each.

Model-checked only:

* `LlegaIgual` and `EnFase` of Tramas: what a loop does to a whole text is
  induction over data, out of the prover's reach;
* all the liveness properties: they are about fairness and ENABLED, which the
  prover does not handle.

## Not modelled

* the text of the protocol, logs, AES itself, the HTTP call, the
  tags and the drawing of windows: no control of theirs changes the state
  modelled here. A line that does not decrypt is an input of Conexion;
* the table of drones, which is filled in and shown and decides nothing, and the
  application and program of the drones;
* in the executor, the text of replies; in Canal, an HPUB without headers or
  payload;
* in Deteccion, a file that cannot be removed and a monitoring system that
  starts again; in NatsClient, read errors other than the end of the file,
  after which the listener tries again (`client.rs:451`) and which here end it;
  in Tramas, frames cut by the end of the connection, and liveness (each reader
  is a loop over what is there);
* in JetStream, several streams that share the csv files, names with commas, a row
  cut inside a number or a text, and the overflow of an id read from a file
  (`js.rs:299`);
* steps that are one here and two in the code, with nothing in between that
  another thread could tell: the look at the flag and the PING that follows
  (`ping.rs:54`), the look at the flag and the -ERR (`oyente_cliente.rs:76`,
  `110`), a timeout and the look at the flag (`ping.rs:72-79`).

## Plan

1. Several streams in one file, and names with commas.
2. Publicaciones with its deliveries: what a subscriber receives, implemented by
   the executor and, beyond it, by NatsClient.
3. Tramas with its frames as data that a step consumes, so that `LlegaIgual` can
   be proved frame by frame.
