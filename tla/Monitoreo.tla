------------------------------ MODULE Monitoreo ------------------------------
(***************************************************************************)
(* The monitoring system (sistema_monitoreo.rs): the callback of the       *)
(* drones, the callback of the detector of incidents, the user's window    *)
(* and the threads that close an incident after its time, over three       *)
(* tables and the client, each behind a mutex of its own.                  *)
(*                                                                         *)
(* A mutex is a variable only where somebody waits for another one while   *)
(* holding it: the client, the drones of each incident (hash) and the      *)
(* counter.  The list of incidents is always taken last and released at    *)
(* once, so what is done under it is one action.  The tables of drones and *)
(* of cameras, which are only filled in by a callback and shown, are left  *)
(* out: a message of a drone matters here when it is at an incident.       *)
(***************************************************************************)
EXTENDS Naturals, Sequences, SequencesExt

CONSTANTS
  Drones,         \* ids of drones
  MaxIncidentes,  \* bound of the model: incidents ever created
  MaxMensajes     \* bound of the model: messages of drones at an incident

ASSUME MonitoreoAssumption ==
  MaxIncidentes \in Nat \ {0} /\ MaxMensajes \in Nat

Ids == 0..(MaxIncidentes - 1)
Candados == {"id_count", "cliente", "hash"}

VARIABLES
  lista,        \* [Ids -> the estado of the incident in lista_de_incidentes,
                \*  "nunca" before it is inserted, "quitado" afterwards]
  hash,         \* incidentes_drones: [ids in the table -> its drones]
  id_count,
  candado,      \* [Candados -> the thread that holds it, or "libre"]
  dron,         \* the thread of the drones' callback: where it is
  ia,           \* the thread of the detector's callback
  ui,           \* the thread of the window
  resolutores,  \* [Ids -> threads that wait to close it]
  cierra,       \* the one of them that holds the client
  conexion,     \* "viva" or "rota": whether what is published gets out
  publicado,    \* history: what got out, in order
  deLaIA,       \* history: incidents inserted by the detector's callback
  mensajes      \* counts the messages of drones at an incident

tablas == <<lista, hash, id_count>>
hilos == <<dron, ia, ui, resolutores, cierra>>
vars == <<tablas, candado, hilos, conexion, publicado, deLaIA, mensajes>>

Espera == [fase |-> "espera"]
En(fase, id) == [fase |-> fase, id |-> id]

Init ==
  /\ lista = [id \in Ids |-> "nunca"]
  /\ hash = << >>
  /\ id_count = 0
  /\ candado = [x \in Candados |-> "libre"]
  /\ dron = Espera /\ ia = Espera /\ ui = Espera /\ cierra = Espera
  /\ resolutores = [id \in Ids |-> 0]
  /\ conexion = "viva"
  /\ publicado = << >>
  /\ deLaIA = {}
  /\ mensajes = 0

Toma(x, hilo) ==
  candado[x] = "libre" /\ candado' = [candado EXCEPT ![x] = hilo]

Suelta(xs) ==
  candado' = [x \in Candados |-> IF x \in xs THEN "libre" ELSE candado[x]]

(* Takes it and releases it in the same step.                              *)
Usa(x) == candado[x] = "libre" /\ UNCHANGED candado

EnLista(id) == lista[id] \in {"pendiente", "activo", "cancelado"}

ConEntrada(id) ==
  [x \in DOMAIN hash \cup {id} |-> IF x = id THEN << >> ELSE hash[x]]

SinEntrada(id) == [x \in DOMAIN hash \ {id} |-> hash[x]]

(* Writing to a socket may succeed after the other end has gone.           *)
Escribe(id, estado) ==
  publicado' = IF conexion = "viva"
               THEN Append(publicado, [id |-> id, estado |-> estado])
               ELSE publicado

NoPuede == conexion = "rota" /\ UNCHANGED publicado

(* The connection with the server breaks.                                  *)
Rompe ==
  /\ conexion = "viva" /\ conexion' = "rota"
  /\ UNCHANGED <<tablas, candado, hilos, publicado, deLaIA, mensajes>>

-----------------------------------------------------------------------------
(* The callback of the drones                                              *)

(* A message in state "resolviendo"; the incident may not exist.           *)
DronLlega(d, id) ==
  /\ dron = Espera
  /\ mensajes < MaxMensajes
  /\ mensajes' = mensajes + 1
  /\ dron' = [fase |-> "quiereHash", id |-> id, d |-> d]
  /\ UNCHANGED <<tablas, candado, ia, ui, resolutores, cierra, conexion,
                 publicado, deLaIA>>

DronTomaHash ==
  /\ dron.fase = "quiereHash"
  /\ Toma("hash", "dron")
  /\ dron' = [dron EXCEPT !.fase = "quiereCliente"]
  /\ UNCHANGED <<tablas, ia, ui, resolutores, cierra, conexion, publicado,
                 deLaIA, mensajes>>

Anota_Repite(vec, d) == Append(vec, d)

Anota(vec, d) == IF d \in ToSet(vec) THEN vec ELSE Append(vec, d)

Abierto_SinLista(id) == id \in DOMAIN hash

(* resolviendo: two drones are noted; a message after that resolves.       *)
Abierto(id) == lista[id] \in {"pendiente", "activo"} /\ id \in DOMAIN hash

DronAnota ==
  LET id == dron.id IN
  /\ dron.fase = "quiereCliente"
  /\ candado["cliente"] = "libre"
  /\ ~(Abierto(id) /\ Len(hash[id]) >= 2)
  /\ hash' = IF Abierto(id)
             THEN [hash EXCEPT ![id] = Anota(@, dron.d)] ELSE hash
  /\ Suelta({"hash"})
  /\ dron' = Espera
  /\ UNCHANGED <<lista, id_count, ia, ui, resolutores, cierra,
                 conexion, publicado, deLaIA, mensajes>>

DronResuelve ==
  LET id == dron.id IN
  /\ dron.fase = "quiereCliente"
  /\ Abierto(id) /\ Len(hash[id]) >= 2
  /\ Toma("cliente", "dron")
  /\ lista' = [lista EXCEPT ![id] = "cancelado"]
  /\ dron' = [dron EXCEPT !.fase = "publica"]
  /\ UNCHANGED <<hash, id_count, ia, ui, resolutores, cierra,
                 conexion, publicado, deLaIA, mensajes>>

(* Whether it gets out or not.                                             *)
DronPublica ==
  /\ dron.fase = "publica"
  /\ Escribe(dron.id, "activo")
  /\ Suelta({"cliente"})
  /\ dron' = [dron EXCEPT !.fase = "activa"]
  /\ UNCHANGED <<tablas, ia, ui, resolutores, cierra, conexion, deLaIA,
                 mensajes>>

DronActiva_SinActivar ==
  LET id == dron.id IN
  /\ dron.fase = "activa"
  /\ resolutores' = IF EnLista(id) THEN [resolutores EXCEPT ![id] = @ + 1]
                    ELSE resolutores
  /\ Suelta({"hash"})
  /\ dron' = Espera
  /\ UNCHANGED <<tablas, ia, ui, cierra, conexion, publicado, deLaIA,
                 mensajes>>

(* A thread is left to close the incident, if it is still in the list.     *)
DronActiva ==
  LET id == dron.id IN
  /\ dron.fase = "activa"
  /\ IF EnLista(id)
     THEN /\ lista' = [lista EXCEPT ![id] = "activo"]
          /\ resolutores' = [resolutores EXCEPT ![id] = @ + 1]
     ELSE UNCHANGED <<lista, resolutores>>
  /\ Suelta({"hash"})
  /\ dron' = Espera
  /\ UNCHANGED <<hash, id_count, ia, ui, cierra, conexion, publicado,
                 deLaIA, mensajes>>

-----------------------------------------------------------------------------
(* The threads that close an incident                                      *)

ResolutorToma(id) ==
  /\ resolutores[id] > 0
  /\ Toma("cliente", "resolutor")
  /\ resolutores' = [resolutores EXCEPT ![id] = @ - 1]
  /\ cierra' = En("quita", id)
  /\ UNCHANGED <<tablas, dron, ia, ui, conexion, publicado, deLaIA, mensajes>>

Quitado(id) ==
  lista' = IF EnLista(id) THEN [lista EXCEPT ![id] = "quitado"] ELSE lista

ResolutorQuita ==
  /\ cierra.fase = "quita"
  /\ Quitado(cierra.id)
  /\ cierra' = En("publica", cierra.id)
  /\ UNCHANGED <<hash, id_count, candado, dron, ia, ui, resolutores,
                 conexion, publicado, deLaIA, mensajes>>

ResolutorPublica ==
  /\ cierra.fase = "publica"
  /\ Escribe(cierra.id, "cancelado")
  /\ Suelta({"cliente"})
  /\ cierra' = Espera
  /\ UNCHANGED <<tablas, dron, ia, ui, resolutores, conexion, deLaIA,
                 mensajes>>

-----------------------------------------------------------------------------
(* The callback of the detector of incidents                               *)

IARecibe ==
  /\ ia = Espera
  /\ id_count < MaxIncidentes
  /\ Toma("id_count", "ia")
  /\ ia' = En("publica", id_count)
  /\ UNCHANGED <<tablas, dron, ui, resolutores, cierra, conexion, publicado,
                 deLaIA, mensajes>>

IAPublica ==
  /\ ia.fase = "publica"
  /\ Escribe(ia.id, "pendiente")
  /\ Toma("cliente", "ia")
  /\ ia' = En("inserta", ia.id)
  /\ UNCHANGED <<tablas, dron, ui, resolutores, cierra, conexion, deLaIA,
                 mensajes>>

(* Its id will be that of the next incident.                               *)
IANoPublica ==
  /\ ia.fase = "publica"
  /\ candado["cliente"] = "libre"
  /\ NoPuede
  /\ Suelta({"id_count"})
  /\ ia' = Espera
  /\ UNCHANGED <<tablas, dron, ui, resolutores, cierra, conexion, deLaIA,
                 mensajes>>

IAInserta ==
  /\ ia.fase = "inserta"
  /\ lista' = [lista EXCEPT ![ia.id] = "pendiente"]
  /\ deLaIA' = deLaIA \cup {ia.id}
  /\ ia' = En("anota", ia.id)
  /\ UNCHANGED <<hash, id_count, candado, dron, ui, resolutores,
                 cierra, conexion, publicado, mensajes>>

IAAnota ==
  /\ ia.fase = "anota"
  /\ candado["hash"] = "libre"
  /\ hash' = ConEntrada(ia.id)
  /\ id_count' = id_count + 1
  /\ Suelta({"cliente", "id_count"})
  /\ ia' = Espera
  /\ UNCHANGED <<lista, dron, ui, resolutores, cierra, conexion,
                 publicado, deLaIA, mensajes>>

-----------------------------------------------------------------------------
(* The user: nuevo_incidente and eliminar_incidente                        *)

UINuevo ==
  /\ ui = Espera
  /\ id_count < MaxIncidentes
  /\ Usa("id_count")
  /\ id_count' = id_count + 1
  /\ ui' = En("publica", id_count)
  /\ UNCHANGED <<lista, hash, dron, ia, resolutores, cierra, conexion,
                 publicado, deLaIA, mensajes>>

UIPublica_SinSoltar ==
  /\ ui.fase = "publica"
  /\ Toma("cliente", "ui")
  /\ Escribe(ui.id, "pendiente")
  /\ ui' = En("inserta", ui.id)
  /\ UNCHANGED <<tablas, dron, ia, resolutores, cierra, conexion, deLaIA,
                 mensajes>>

UIPublica ==
  /\ ui.fase = "publica"
  /\ Usa("cliente")
  /\ \/ Escribe(ui.id, "pendiente") /\ ui' = En("inserta", ui.id)
     \/ NoPuede /\ ui' = Espera
  /\ UNCHANGED <<tablas, dron, ia, resolutores, cierra, conexion, deLaIA,
                 mensajes>>

UIInserta ==
  /\ ui.fase = "inserta"
  /\ lista' = [lista EXCEPT ![ui.id] = "pendiente"]
  /\ ui' = En("anota", ui.id)
  /\ UNCHANGED <<hash, id_count, candado, dron, ia, resolutores,
                 cierra, conexion, publicado, deLaIA, mensajes>>

UIAnota_Olvida ==
  /\ ui.fase = "anota"
  /\ Usa("hash")
  /\ ui' = Espera
  /\ UNCHANGED <<tablas, dron, ia, resolutores, cierra, conexion, publicado,
                 deLaIA, mensajes>>

UIAnota ==
  /\ ui.fase = "anota"
  /\ Usa("hash")
  /\ hash' = ConEntrada(ui.id)
  /\ ui' = Espera
  /\ UNCHANGED <<lista, id_count, dron, ia, resolutores, cierra,
                 conexion, publicado, deLaIA, mensajes>>

(* An incident that is no longer in the list is an error and no more.      *)
UIElimina(id) ==
  /\ ui = Espera /\ EnLista(id)
  /\ Quitado(id)
  /\ ui' = En("quita", id)
  /\ UNCHANGED <<hash, id_count, candado, dron, ia, resolutores,
                 cierra, conexion, publicado, deLaIA, mensajes>>

(* Without an entry in hash it returns an error, and publishes nothing.    *)
UIQuita ==
  /\ ui.fase = "quita"
  /\ Usa("hash")
  /\ hash' = SinEntrada(ui.id)
  /\ ui' = IF ui.id \in DOMAIN hash THEN En("cancela", ui.id) ELSE Espera
  /\ UNCHANGED <<lista, id_count, dron, ia, resolutores, cierra,
                 conexion, publicado, deLaIA, mensajes>>

UICancela ==
  /\ ui.fase = "cancela"
  /\ Usa("cliente")
  /\ Escribe(ui.id, "cancelado")
  /\ ui' = Espera
  /\ UNCHANGED <<tablas, dron, ia, resolutores, cierra, conexion, deLaIA,
                 mensajes>>

-----------------------------------------------------------------------------
Dron == DronTomaHash \/ DronAnota \/ DronResuelve \/ DronPublica \/ DronActiva
Resolutor ==
  (\E id \in Ids : ResolutorToma(id)) \/ ResolutorQuita \/ ResolutorPublica
IA == IAPublica \/ IANoPublica \/ IAInserta \/ IAAnota
UI == UIPublica \/ UIInserta \/ UIAnota \/ UIQuita \/ UICancela

Entrada ==
  \/ \E d \in Drones, id \in Ids : DronLlega(d, id)
  \/ IARecibe
  \/ UINuevo \/ \E id \in Ids : UIElimina(id)
  \/ Rompe

Next == Entrada \/ Dron \/ Resolutor \/ IA \/ UI

(* A thread that can go on goes on, a sleep ends; what comes from outside  *)
(* need not come.                                                          *)
Spec ==
  /\ Init /\ [][Next]_vars
  /\ WF_vars(Dron) /\ WF_vars(Resolutor) /\ WF_vars(IA) /\ WF_vars(UI)

-----------------------------------------------------------------------------
(* Properties                                                              *)

Fases == {"espera", "quiereHash", "quiereCliente", "publica", "activa",
          "quita", "inserta", "anota", "cancela"}

(* In hash no incident has more than two drones, nor one twice, though     *)
(* messages repeat.                                                        *)
TypeOK ==
  /\ lista \in [Ids -> {"nunca", "pendiente", "activo", "cancelado", "quitado"}]
  /\ DOMAIN hash \subseteq Ids
  /\ \A id \in DOMAIN hash :
       Len(hash[id]) <= 2 /\ ToSet(hash[id]) \subseteq Drones
         /\ IsInjective(hash[id])
  /\ id_count \in 0..MaxIncidentes
  /\ candado \in [Candados -> {"libre", "dron", "ia", "resolutor"}]
  /\ {dron.fase, ia.fase, ui.fase, cierra.fase} \subseteq Fases
  /\ resolutores \in [Ids -> 0..MaxMensajes]

(* What the server is told of an incident, by four threads, makes sense:   *)
(* it begins once and first, and after it is cancelled it is never active  *)
(* again (central_de_camaras.rs acts on these messages in order).          *)
OrdenPublicado ==
  \A j \in 1..Len(publicado) :
    LET antes == {publicado[i].estado :
                    i \in {k \in 1..(j - 1) : publicado[k].id = publicado[j].id}}
    IN /\ publicado[j].estado = "pendiente" <=> antes = {}
       /\ publicado[j].estado = "activo" => "cancelado" \notin antes

(* resolviendo marks an incident as cancelled to say that it is about to   *)
(* be active: no incident stays in the list like that, where the window    *)
(* hides it (ui/sismon/src/main.rs actualizar_incidencias).                *)
CanceladoEsDePaso ==
  \A id \in Ids :
    lista[id] = "cancelado" => dron.fase \in {"publica", "activa"} /\ dron.id = id

(* The one cycle of locks: the drones' callback has hash and waits for the *)
(* client, the detector's has the client and waits for hash.               *)
Ciclo == dron.fase = "quiereCliente" /\ ia.fase = "anota"

(* Every callback and every operation of the user ends, except in that     *)
(* cycle; there is no other deadlock.                                      *)
SoloUnCiclo ==
  /\ (dron.fase # "espera") ~> (dron.fase = "espera" \/ Ciclo)
  /\ (ia.fase # "espera") ~> (ia.fase = "espera" \/ Ciclo)
  /\ (ui.fase # "espera") ~> (ui.fase = "espera" \/ Ciclo)

Avisado(id) ==
  \E i \in 1..Len(publicado) : publicado[i] = [id |-> id, estado |-> "cancelado"]

(* An incident that the user created and that left the list, by the user   *)
(* or by its time, is announced as cancelled, unless the connection breaks *)
(* or the threads are in the cycle.  Cameras record until it is.           *)
SalidaSeAvisa ==
  \A id \in Ids :
    (lista[id] = "quitado" /\ id \notin deLaIA)
      ~> (Avisado(id) \/ conexion = "rota" \/ Ciclo)

(* sistema_monitoreo.rs:163: it is responsible for monitoring the drones,  *)
(* so every message of a drone is dealt with.                              *)
DronesSeMonitorean == (dron.fase # "espera") ~> (dron.fase = "espera")
=============================================================================
