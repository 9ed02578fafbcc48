--------------------------- MODULE CommandExecutor ---------------------------
(***************************************************************************)
(* The command executor of the server: one thread that takes the commands  *)
(* of every client from a channel and executes them one at a time over its *)
(* tables.  Only clientes_map is shared, behind a mutex that every command *)
(* locks at most once, with the accept loop (which inserts) and with the   *)
(* threads that listen to the clients (which remove on the way out); so a  *)
(* command is one action, placed at the instant it holds the lock.         *)
(*                                                                         *)
(* What a client may send is not restricted here: commands of a connection *)
(* are still in the channel, or still being read, before its stream is     *)
(* inserted and after it was removed.  The order of those events is the    *)
(* subject of module Conexion, the channel itself of module Canal.         *)
(***************************************************************************)
EXTENDS Subjects, Integers

CONSTANTS
  Usuarios,       \* users of the repository
  PuedeSuscribir, \* [Usuarios -> SUBSET patterns]: User.subscribe
  PuedePublicar,  \* [Usuarios -> SUBSET patterns]: User.publish
  Patrones,       \* the subjects clients subscribe to
  Asuntos,        \* the subjects clients publish on
  Sids,           \* subscription ids; every client library counts from 1
  Topes,          \* the values of UNSUB <sid> <max_msgs>
  Flujos,         \* [stream name -> pattern]: the streams clients create
  MaxId,          \* bound of the model: connections ever accepted
  MaxOrden,       \* bound of the model: place of a row in the Vec
  MaxGuardados    \* bound of the model: messages stored in a stream

Ninguno == -1     \* Option::None of max_msgs

ASSUME ExecutorAssumption ==
  /\ PuedeSuscribir \in [Usuarios -> SUBSET Seq(STRING)]
  /\ PuedePublicar \in [Usuarios -> SUBSET Seq(STRING)]
  /\ Patrones \subseteq Seq(STRING)
  /\ Asuntos \subseteq Seq(STRING)
  /\ Topes \subseteq Nat
  /\ MaxId \in Nat /\ MaxOrden \in Nat /\ MaxGuardados \in Nat

(* The users of in_memory_repository.rs never use "*" in a permission.     *)
ASSUME PermisosSinComodin ==
  \A u \in Usuarios : \A p \in PuedeSuscribir[u] : SinComodin(p)

VARIABLES
  connection_id_counter, \* the id the next connection gets
  clientes_map,          \* ids whose stream is in the shared map
  permissions,           \* [ids that logged in -> user]; never shrinks
  suscriptions,          \* the Vec, as a set of rows with their order
  js_streams,            \* [created streams -> messages stored]
  vivo,                  \* FALSE once the executor thread has panicked
  ultimo                 \* history: the last operation and its deliveries

vars == <<connection_id_counter, clientes_map, permissions, suscriptions,
          js_streams, vivo, ultimo>>

tablas == <<connection_id_counter, clientes_map, permissions, suscriptions,
            js_streams, vivo>>

-----------------------------------------------------------------------------
(* A row of suscriptions.  usuario, limite and entregados are history: the *)
(* permissions SUB was checked against, the last max_msgs asked for, and   *)
(* the messages written since.                                             *)
Fila(orden, conn, sid, subject, usuario) ==
  [orden |-> orden, conn |-> conn, sid |-> sid, subject |-> subject,
   max |-> Ninguno, usuario |-> usuario, limite |-> 0, entregados |-> 0]

Hecho(op, conn, entregas) == [op |-> op, conn |-> conn, entregas |-> entregas]

(* Connections an oyente thread exists for: the last one accepted may not  *)
(* be in the map yet.                                                      *)
Ids == 1..connection_id_counter

Init ==
  /\ connection_id_counter = 1
  /\ clientes_map = {}
  /\ permissions = << >>
  /\ suscriptions = {}
  /\ js_streams = << >>
  /\ vivo = TRUE
  /\ ultimo = Hecho("otra", 0, {})

(* Nothing was published; conn is 0 when no command was executed.          *)
Registra(conn) == ultimo' = Hecho("otra", conn, {})

-----------------------------------------------------------------------------
(* Connections come and go beside the executor.                            *)

SiguienteId_Reusa(c) ==
  IF c > 1 /\ c - 1 \notin clientes_map THEN c - 1 ELSE c + 1

SiguienteId(c) == c + 1

(* The accept loop inserts the stream of the connection it has served.     *)
Aceptar ==
  /\ vivo
  /\ connection_id_counter < MaxId
  /\ clientes_map' = clientes_map \cup {connection_id_counter}
  /\ connection_id_counter' = SiguienteId(connection_id_counter)
  /\ Registra(0)
  /\ UNCHANGED <<permissions, suscriptions, js_streams, vivo>>

(* quitar_cliente: the listening thread ended.                             *)
Quitar(c) ==
  /\ vivo
  /\ c \in clientes_map
  /\ clientes_map' = clientes_map \ {c}
  /\ Registra(0)
  /\ UNCHANGED <<connection_id_counter, permissions, suscriptions,
                 js_streams, vivo>>

-----------------------------------------------------------------------------
(* CONNECT                                                                 *)

(* With the stream in the map and good credentials: grant the permissions. *)
Connect(c, u) ==
  /\ vivo
  /\ c \in clientes_map
  /\ permissions' = [x \in DOMAIN permissions \cup {c} |->
                       IF x = c THEN u ELSE permissions[x]]
  /\ Registra(c)
  /\ UNCHANGED <<connection_id_counter, clientes_map, suscriptions,
                 js_streams, vivo>>

(* Every command that ends in an error reply, or in an Err the executor    *)
(* only logs, leaves the tables as they were: bad credentials, no stream   *)
(* for the connection, malformed operands, an invalid subject, a violated  *)
(* permission, an unknown sid or stream.                                   *)
Rechazar(c) ==
  /\ vivo
  /\ Registra(c)
  /\ UNCHANGED tablas

(* PING and SEND_PING only write to the client.                            *)

-----------------------------------------------------------------------------
(* SUB and UNSUB                                                           *)

CanSubscribe(u, subject) == \E p \in PuedeSuscribir[u] : Coincide(p, subject)
CanPublish(u, subject) == \E p \in PuedePublicar[u] : Coincide(p, subject)

PermiteSub_SinRegla(c, subject) == c \in DOMAIN permissions

PermiteSub(c, subject) ==
  c \in DOMAIN permissions /\ CanSubscribe(permissions[c], subject)

PermitePub(c, subject) ==
  c \in DOMAIN permissions /\ CanPublish(permissions[c], subject)

(* push appends: a new row goes after every row of the table.              *)
EsOrdenNuevo(n) == n \in Nat \ {0} /\ \A s \in suscriptions : s.orden < n

(* The row is pushed before the stream is looked up, so a connection whose *)
(* stream is gone still leaves a row behind.                               *)
Sub(c, subject, sid) ==
  /\ vivo
  /\ SubjectValido(subject)
  /\ PermiteSub(c, subject)
  /\ \E n \in 1..MaxOrden :
       /\ EsOrdenNuevo(n)
       /\ \A m \in 1..(n - 1) : ~EsOrdenNuevo(m)
       /\ suscriptions' =
            suscriptions \cup {Fila(n, c, sid, subject, permissions[c])}
  /\ Registra(c)
  /\ UNCHANGED <<connection_id_counter, clientes_map, permissions,
                 js_streams, vivo>>

(* The first row of the connection with that sid.                          *)
EsLaFila_DeCualquiera(s, c, sid) ==
  /\ s \in suscriptions
  /\ s.sid = sid
  /\ \A t \in suscriptions : t.sid = sid => s.orden <= t.orden

EsLaFila(s, c, sid) ==
  /\ s \in suscriptions
  /\ s.conn = c /\ s.sid = sid
  /\ \A t \in suscriptions : t.conn = c /\ t.sid = sid => s.orden <= t.orden

UnsubYa(c, sid) ==
  /\ vivo
  /\ \E s \in suscriptions :
       /\ EsLaFila(s, c, sid)
       /\ suscriptions' = suscriptions \ {s}
  /\ Registra(c)
  /\ UNCHANGED <<connection_id_counter, clientes_map, permissions,
                 js_streams, vivo>>

UnsubTras(c, sid, n) ==
  /\ vivo
  /\ \E s \in suscriptions :
       /\ EsLaFila(s, c, sid)
       /\ suscriptions' = (suscriptions \ {s}) \cup
            {[s EXCEPT !.max = n, !.limite = n, !.entregados = 0]}
  /\ Registra(c)
  /\ UNCHANGED <<connection_id_counter, clientes_map, permissions,
                 js_streams, vivo>>

-----------------------------------------------------------------------------
(* PUB and HPUB                                                            *)

(* The rows a publication is written to: those whose stream is in the map. *)
Destinos(asunto) ==
  {s \in suscriptions : s.conn \in clientes_map /\ Coincide(s.subject, asunto)}

Descuenta_SinMirarNinguno(s, fallan) ==
  [s EXCEPT !.max = @ - 1,
            !.entregados = IF s.conn \in fallan THEN @ ELSE @ + 1]

Descuenta_SiNoUltimo(s, fallan) ==
  IF s.max = Ninguno THEN s
  ELSE [s EXCEPT !.max = IF @ > 1 THEN @ - 1 ELSE @,
                 !.entregados = IF s.conn \in fallan THEN @ ELSE @ + 1]

(* decrease_remaining_msgs on one row, whether or not the write succeeds.  *)
Descuenta(s, fallan) ==
  IF s.max = Ninguno THEN s
  ELSE [s EXCEPT !.max = @ - 1,
                 !.entregados = IF s.conn \in fallan THEN @ ELSE @ + 1]

Reparte(ds, fallan) ==
  (suscriptions \ ds) \cup {Descuenta(s, fallan) : s \in ds}

Entregas(ds, asunto, fallan) ==
  {[conn |-> s.conn, sid |-> s.sid, usuario |-> s.usuario, asunto |-> asunto] :
     s \in {d \in ds : d.conn \notin fallan}}

(* store_msg on every stream that matches.                                 *)
Guarda(asunto) ==
  /\ \A f \in DOMAIN js_streams :
       Coincide(Flujos[f], asunto) => js_streams[f] < MaxGuardados
  /\ js_streams' = [f \in DOMAIN js_streams |->
       IF Coincide(Flujos[f], asunto) THEN js_streams[f] + 1 ELSE js_streams[f]]

(* remove_subs_without_remaining_msgs                                      *)
SinMensajes(S) == {s \in S : s.max # 0}

(* write_publish_msg when no row underflows.  fallan: the connections      *)
(* whose socket refuses the write.  A publisher that is not a consumer     *)
(* must get its +OK, or the exhausted rows stay in the table.              *)
Publica(op, c, asunto, esConsumer, fallan) ==
  LET ds == Destinos(asunto)
      filas == Reparte(ds, fallan)
  IN /\ \A s \in ds : s.max # 0
     /\ Guarda(asunto)
     /\ suscriptions' = IF esConsumer \/ c \in clientes_map \ fallan
                          THEN SinMensajes(filas) ELSE filas
     /\ ultimo' = Hecho(op, c, Entregas(ds, asunto, fallan))
     /\ UNCHANGED <<connection_id_counter, clientes_map, permissions, vivo>>

(* write_publish_msg when a row has no message left: 0 - 1 panics while    *)
(* the map is locked, after the rows before it were served.                *)
PublicaYCae(op, c, asunto, fallan) ==
  LET ds == Destinos(asunto)
      agotadas == {s \in ds : s.max = 0}
      antes == {s \in ds : \A a \in agotadas : s.orden < a.orden}
  IN /\ agotadas # {}
     /\ Guarda(asunto)
     /\ suscriptions' = Reparte(antes, fallan)
     /\ vivo' = FALSE
     /\ ultimo' = Hecho(op, c, Entregas(antes, asunto, fallan))
     /\ UNCHANGED <<connection_id_counter, clientes_map, permissions>>

Pub(c, asunto, fallan) ==
  /\ vivo
  /\ PermitePub(c, asunto)
  /\ \/ Publica("PUB", c, asunto, FALSE, fallan)
     \/ PublicaYCae("PUB", c, asunto, fallan)

(* A push consumer publishes through the same channel with id 0, which     *)
(* needs no permission and gets no reply.                                  *)
PubConsumer(asunto, fallan) ==
  /\ vivo
  /\ \/ Publica("PUB", 0, asunto, TRUE, fallan)
     \/ PublicaYCae("PUB", 0, asunto, fallan)

(* hpublish writes to the same rows; it stores nothing and does not        *)
(* answer.  How it collects its lines from the channel: module Canal.      *)
Hpub(c, asunto, fallan) ==
  LET ds == Destinos(asunto)
      agotadas == {s \in ds : s.max = 0}
      antes == {s \in ds : \A a \in agotadas : s.orden < a.orden}
      filas == Reparte(antes, fallan)
  IN /\ vivo
     /\ PermitePub(c, asunto)
     /\ suscriptions' = IF agotadas = {} THEN SinMensajes(filas) ELSE filas
     /\ vivo' = (agotadas = {})
     /\ ultimo' = Hecho("HPUB", c, Entregas(antes, asunto, fallan))
     /\ UNCHANGED <<connection_id_counter, clientes_map, permissions,
                    js_streams>>

-----------------------------------------------------------------------------
(* SHUTDOWN and streams                                                    *)

Shutdown(c) ==
  /\ vivo
  /\ clientes_map' = clientes_map \ {c}
  /\ suscriptions' = {s \in suscriptions : s.conn # c}
  /\ Registra(c)
  /\ UNCHANGED <<connection_id_counter, permissions, js_streams, vivo>>

(* create_stream: a name that exists is left alone.                        *)
CreateStream(c, f) ==
  /\ vivo
  /\ js_streams' = [x \in DOMAIN js_streams \cup {f} |->
                      IF x \in DOMAIN js_streams THEN js_streams[x] ELSE 0]
  /\ Registra(c)
  /\ UNCHANGED <<connection_id_counter, clientes_map, permissions,
                 suscriptions, vivo>>

-----------------------------------------------------------------------------
Comando(c) ==
  \/ \E u \in Usuarios : Connect(c, u)
  \/ Rechazar(c)
  \/ \E subject \in Patrones, sid \in Sids : Sub(c, subject, sid)
  \/ \E sid \in Sids : UnsubYa(c, sid)
  \/ \E sid \in Sids, n \in Topes : UnsubTras(c, sid, n)
  \/ \E a \in Asuntos, fallan \in SUBSET clientes_map : Pub(c, a, fallan)
  \/ \E a \in Asuntos, fallan \in SUBSET clientes_map : Hpub(c, a, fallan)
  \/ Shutdown(c)
  \/ \E f \in DOMAIN Flujos : CreateStream(c, f)

Next ==
  \/ Aceptar
  \/ \E c \in clientes_map : Quitar(c)
  \/ \E c \in Ids : Comando(c)
  \/ \E a \in Asuntos, fallan \in SUBSET clientes_map : PubConsumer(a, fallan)

Spec == Init /\ [][Next]_vars

-----------------------------------------------------------------------------
(* Properties                                                              *)

TipoFila ==
  [orden : Nat \ {0}, conn : Nat \ {0}, sid : Sids, subject : Patrones,
   max : Nat \cup {Ninguno}, usuario : Usuarios, limite : Nat,
   entregados : Nat]

TipoEntrega ==
  [conn : Nat \ {0}, sid : Sids, usuario : Usuarios, asunto : Asuntos]

TypeOK ==
  /\ connection_id_counter \in Nat \ {0}
  /\ clientes_map \subseteq Nat \ {0}
  /\ DOMAIN permissions \subseteq Nat \ {0}
  /\ permissions \in [DOMAIN permissions -> Usuarios]
  /\ suscriptions \subseteq TipoFila
  /\ DOMAIN js_streams \subseteq DOMAIN Flujos
  /\ js_streams \in [DOMAIN js_streams -> Nat]
  /\ vivo \in BOOLEAN
  /\ ultimo.entregas \subseteq TipoEntrega

(* Ids only grow: the tables never mention a connection not yet inserted.  *)
(* (server.rs run, connection_id_counter; command_executor.rs connect,sub) *)
IdsYaUsados ==
  /\ \A c \in clientes_map \cup DOMAIN permissions : c < connection_id_counter
  /\ \A s \in suscriptions : s.conn < connection_id_counter

(* A connection that enters the map inherits nothing: no permission and no *)
(* subscription of an earlier one waits under its id, although permissions *)
(* are never removed and SUB may leave rows without a stream behind.       *)
ConexionNuevaLimpia ==
  [][\A c \in clientes_map' \ clientes_map :
       /\ c \notin DOMAIN permissions
       /\ \A s \in suscriptions : s.conn # c]_vars

(* Every message written by PUB or HPUB to a connection is on a subject    *)
(* that the user it had logged in as when it subscribed may receive, even  *)
(* when the subscription is a pattern (check_permissions only looks at the *)
(* pattern, once, in SUB).                                                 *)
EntregaPermitida ==
  \A d \in ultimo.entregas : CanSubscribe(d.usuario, d.asunto)

(* After UNSUB sid n a subscription gets at most n more messages, whatever *)
(* the other clients do and whichever writes fail.                         *)
LimiteRespetado ==
  \A s \in suscriptions :
    s.max # Ninguno => s.max >= 0 /\ s.entregados + s.max <= s.limite

(* sids are chosen by each client and collide: a command of one connection *)
(* never removes or alters a subscription of another, except to count a    *)
(* message it wrote to it.                                                 *)
SoloElDuenoToca ==
  [][\A s \in suscriptions : s.conn # ultimo'.conn =>
       \/ s \in suscriptions'
       \/ /\ ultimo'.op \in {"PUB", "HPUB"}
          /\ \/ s.max \in {0, 1}
             \/ \E t \in suscriptions' :
                  /\ t.orden = s.orden /\ t.conn = s.conn /\ t.sid = s.sid
                  /\ t.subject = s.subject /\ t.max = s.max - 1]_vars
=============================================================================
