----------------------------- MODULE Deteccion -----------------------------
(***************************************************************************)
(* The threads of the camera central (camara.rs, central_de_camaras.rs): a *)
(* resting camera has a thread that looks at the images of its folder, one *)
(* at a time, and sends what it detects to the thread that publishes it.   *)
(* A camera that is to record stops its thread and waits for it, with the  *)
(* list of cameras and the client locked.                                  *)
(*                                                                         *)
(* Which cameras a message about an incident sets to record or to rest is  *)
(* in Camaras; here any set.  The images and what the vision service       *)
(* answers are external; an answer may be an error, but always comes, for  *)
(* a call has a time limit.                                                *)
(*                                                                         *)
(* What the central publishes of its cameras goes, by a JetStream consumer *)
(* that keeps the order and may send twice, to the monitoring system,      *)
(* which builds its own table from it (sistema_monitoreo.rs).              *)
(***************************************************************************)
EXTENDS Naturals, Sequences, FiniteSets, Functions

CONSTANTS
  Camaras,
  Imagenes,    \* each is left in the folder of one camera, once
  MaxHilos,    \* bound of the model: detection threads
  MaxTareas    \* bound of the model: messages and removals

Nadie == 0

ASSUME DeteccionAssumption ==
  Nadie \notin Camaras /\ {MaxHilos, MaxTareas} \subseteq Nat

Hilos == 1..MaxHilos

VARIABLES
  estado,     \* [camera -> "no" | "ahorro" | "grabando" | "fuera"]
  propio,     \* [camera -> its thread, or Nadie]: handler
  camara,     \* [threads -> their camera]: what was spawned, in order
  canal,      \* [threads -> "abierto" | "avisado" | "cerrado"]: tx
  pc,         \* [threads -> "mira" | "analiza" | "borra" | "fin"]
  mirada,     \* [threads -> the image in hand]
  carpeta,    \* [camera -> images in its folder]
  puestas,    \* the images there have been
  tarea,      \* what is being done with the list of cameras locked
  tareas,     \* how many of them there were
  nueva,      \* the camera that the window is adding
  ventana,    \* the cameras that the window shows
  conexion,   \* "viva" or "rota"
  detectadas, \* sent to the thread that publishes
  avisos,     \* history: [images -> times that one was published]
  avisadas,   \* states of cameras on their way to the monitoring system
  tabla,      \* [camera -> its state in the table of that system, or "no"]
  repetida    \* history: cameras that were set to rest while they rested

hilos == <<camara, canal, pc, mirada>>
imagenes == <<carpeta, puestas, detectadas, avisos>>
delCentral == <<tarea, tareas, nueva, ventana, conexion, avisadas>>
vars == <<estado, propio, hilos, imagenes, delCentral, tabla, repetida>>

Tarea(tipo, resto, c) ==
  [tipo |-> tipo, resto |-> resto, c |-> c, espera |-> FALSE]
Libre == Tarea("libre", {}, Nadie)

Init ==
  /\ estado = [c \in Camaras |-> "no"] /\ propio = [c \in Camaras |-> Nadie]
  /\ camara = << >> /\ canal = << >> /\ pc = << >> /\ mirada = << >>
  /\ carpeta = [c \in Camaras |-> {}] /\ puestas = {}
  /\ tarea = Libre /\ tareas = 0
  /\ nueva = Nadie /\ ventana = {}
  /\ conexion = "viva"
  /\ detectadas = << >> /\ avisos = [i \in Imagenes |-> 0]
  /\ avisadas = << >> /\ tabla = [c \in Camaras |-> "no"]
  /\ repetida = {}

(* The client is held from set_estado_grabar to the publication.           *)
ClienteLibre == ~tarea.espera

Publica(c, e) ==
  avisadas' = IF conexion = "viva"
              THEN Append(avisadas, [de |-> c, estado |-> e]) ELSE avisadas

-----------------------------------------------------------------------------
(* A detection thread                                                      *)

(* buscar_posibles_incidentes, called for camera c: a new channel and a    *)
(* new thread with the other end.                                          *)
Lanza(c, canales) ==
  /\ Len(pc) < MaxHilos
  /\ camara' = Append(camara, c)
  /\ canal' = Append(canales, "abierto")
  /\ pc' = Append(pc, "mira") /\ mirada' = Append(mirada, Nadie)
  /\ propio' = [propio EXCEPT ![c] = Len(pc) + 1]

Sigue(h, paso) == pc' = [pc EXCEPT ![h] = paso]

(* Told to stop, or left without the other end.                            *)
Para(h) ==
  /\ pc[h] = "mira" /\ canal[h] # "abierto"
  /\ Sigue(h, "fin")
  /\ UNCHANGED <<estado, propio, camara, canal, mirada, imagenes, delCentral,
                 repetida, tabla>>

(* One image is taken, and read whole.                                     *)
Mira(h) ==
  /\ pc[h] = "mira" /\ canal[h] = "abierto"
  /\ \E i \in carpeta[camara[h]] : mirada' = [mirada EXCEPT ![h] = i]
  /\ Sigue(h, "analiza")
  /\ UNCHANGED <<estado, propio, camara, canal, imagenes, delCentral, repetida,
                 tabla>>

(* What the service may answer: how many of the tags are known as those of *)
(* an incident, or an error.                                               *)
AnalyzeImage == {"error", "ninguno", "alguno"}

(* One tag is enough; an error counts as no incident.                      *)
EsIncidente(respuesta) == respuesta = "alguno"

Detecta(h) ==
  \E respuesta \in AnalyzeImage :
    detectadas' = IF EsIncidente(respuesta)
                  THEN Append(detectadas, mirada[h]) ELSE detectadas

Analiza_ConElCliente(h) ==
  /\ pc[h] = "analiza" /\ ClienteLibre
  /\ Detecta(h) /\ Sigue(h, "borra")
  /\ UNCHANGED <<estado, propio, camara, canal, mirada, carpeta, puestas,
                 avisos, delCentral, repetida, tabla>>

(* An incident is only sent to another thread, so no lock is needed.       *)
Analiza(h) ==
  /\ pc[h] = "analiza"
  /\ Detecta(h) /\ Sigue(h, "borra")
  /\ UNCHANGED <<estado, propio, camara, canal, mirada, carpeta, puestas,
                 avisos, delCentral, repetida, tabla>>

(* The image is removed in every case (that the file system refuses to is  *)
(* not modelled).                                                          *)
Borra(h) ==
  /\ pc[h] = "borra"
  /\ carpeta' = [carpeta EXCEPT ![camara[h]] = @ \ {mirada[h]}]
  /\ mirada' = [mirada EXCEPT ![h] = Nadie]
  /\ Sigue(h, "mira")
  /\ UNCHANGED <<estado, propio, camara, canal, puestas, detectadas, avisos,
                 delCentral, repetida, tabla>>

(* The thread that publishes what was detected; errors are ignored.        *)
Avisa ==
  /\ detectadas # << >> /\ ClienteLibre
  /\ detectadas' = Tail(detectadas)
  /\ avisos' = IF conexion = "viva"
               THEN [avisos EXCEPT ![Head(detectadas)] = @ + 1] ELSE avisos
  /\ UNCHANGED <<estado, propio, hilos, carpeta, puestas, delCentral, repetida,
                 tabla>>

-----------------------------------------------------------------------------
(* A message about an incident, or the window removing a camera: each      *)
(* locks the list from beginning to end.                                   *)

Existen == {c \in Camaras : estado[c] \in {"ahorro", "grabando"}}

Toma(t) ==
  /\ tarea = Libre /\ tareas < MaxTareas
  /\ tarea' = t /\ tareas' = tareas + 1
  /\ UNCHANGED <<estado, propio, hilos, imagenes, nueva, ventana, conexion,
                 avisadas, repetida, tabla>>

Recibe(tipo, cs) ==
  /\ cs \subseteq Existen /\ cs # {}
  /\ Toma(Tarea(tipo, cs, Nadie))

(* The neighbours that rest because of the removal are cs.                 *)
Elimina(c, cs) ==
  /\ c \in Existen \cap ventana /\ nueva = Nadie
  /\ cs \subseteq Existen
  /\ Toma(Tarea("elimina", cs, c))

Hecha(c) == [tarea EXCEPT !.resto = @ \ {c}, !.espera = FALSE]

YaGraba(c) ==
  /\ tarea.tipo = "pendiente" /\ ~tarea.espera
  /\ c \in tarea.resto /\ estado[c] = "grabando"
  /\ tarea' = Hecha(c)
  /\ UNCHANGED <<estado, propio, hilos, imagenes, tareas, nueva, ventana,
                 conexion, avisadas, repetida, tabla>>

(* set_estado_grabar, up to the join.                                      *)
Graba(c) ==
  /\ tarea.tipo = "pendiente" /\ ~tarea.espera
  /\ c \in tarea.resto /\ estado[c] = "ahorro"
  /\ estado' = [estado EXCEPT ![c] = "grabando"]
  /\ canal' = [canal EXCEPT ![propio[c]] = "avisado"]
  /\ tarea' = [tarea EXCEPT !.espera = TRUE, !.c = c]
  /\ UNCHANGED <<propio, camara, pc, mirada, imagenes, tareas, nueva, ventana,
                 conexion, avisadas, repetida, tabla>>

Une_SinEsperar ==
  /\ tarea.espera
  /\ propio' = [propio EXCEPT ![tarea.c] = Nadie]
  /\ Publica(tarea.c, "grabando")
  /\ tarea' = Hecha(tarea.c)
  /\ UNCHANGED <<estado, hilos, imagenes, tareas, nueva, ventana, conexion,
                 repetida, tabla>>

(* The thread has ended: the rest of set_estado_grabar, and what follows.  *)
Une ==
  /\ tarea.espera /\ pc[propio[tarea.c]] = "fin"
  /\ propio' = [propio EXCEPT ![tarea.c] = Nadie]
  /\ Publica(tarea.c, "grabando")
  /\ tarea' = Hecha(tarea.c)
  /\ UNCHANGED <<estado, hilos, imagenes, tareas, nueva, ventana, conexion,
                 repetida, tabla>>

(* set_estado_ahorro_de_energia, whatever the state was.  A thread that is *)
(* still there is not joined: its channel and its handle are dropped.      *)
Descansa(c) ==
  /\ tarea.tipo \in {"cancelado", "elimina"}
  /\ c \in tarea.resto
  /\ estado' = [estado EXCEPT ![c] = "ahorro"]
  /\ Lanza(c, IF propio[c] = Nadie THEN canal
              ELSE [canal EXCEPT ![propio[c]] = "cerrado"])
  /\ Publica(c, "ahorro")
  /\ repetida' = IF estado[c] = "ahorro" THEN repetida \cup {c} ELSE repetida
  /\ tarea' = Hecha(c)
  /\ UNCHANGED <<imagenes, tareas, nueva, ventana, conexion, tabla>>

Termina ==
  /\ tarea.tipo \in {"pendiente", "cancelado"}
  /\ tarea.resto = {} /\ ~tarea.espera
  /\ tarea' = Libre
  /\ UNCHANGED <<estado, propio, hilos, imagenes, tareas, nueva, ventana,
                 conexion, avisadas, repetida, tabla>>

(* What the window does when the central returned no error.                *)
Muestra(c) == ventana \cup {c}

Oculta(c) == ventana \ {c}

(* The camera is dropped, and its channel with it; if this cannot be       *)
(* published the window goes on showing it.                                *)
Quita ==
  /\ tarea.tipo = "elimina" /\ tarea.resto = {}
  /\ estado' = [estado EXCEPT ![tarea.c] = "fuera"]
  /\ propio' = [propio EXCEPT ![tarea.c] = Nadie]
  /\ canal' = IF propio[tarea.c] = Nadie THEN canal
              ELSE [canal EXCEPT ![propio[tarea.c]] = "cerrado"]
  /\ Publica(tarea.c, "eliminado")
  /\ ventana' = IF conexion = "viva" THEN Oculta(tarea.c) ELSE ventana
  /\ tarea' = Libre
  /\ UNCHANGED <<camara, pc, mirada, imagenes, tareas, nueva, conexion,
                 repetida, tabla>>

(* nueva_camara: the thread runs before the camera is in the list.         *)
Crea(c) ==
  /\ nueva = Nadie /\ estado[c] = "no" /\ propio[c] = Nadie
  /\ tarea.tipo # "elimina"      \* the window is not at work in one
  /\ Lanza(c, canal)
  /\ nueva' = c
  /\ UNCHANGED <<estado, imagenes, tarea, tareas, ventana, conexion, avisadas,
                 repetida, tabla>>

(* If this cannot be published the window does not show it.                *)
Inserta ==
  /\ nueva # Nadie /\ tarea = Libre
  /\ estado' = [estado EXCEPT ![nueva] = "ahorro"]
  /\ Publica(nueva, "ahorro")
  /\ ventana' = IF conexion = "viva" THEN Muestra(nueva) ELSE ventana
  /\ nueva' = Nadie
  /\ UNCHANGED <<propio, hilos, imagenes, tarea, tareas, conexion, repetida,
                 tabla>>

-----------------------------------------------------------------------------
(* The monitoring system                                                   *)

Ahorro_SoloConocidas(c) ==
  IF tabla[c] = "no" THEN tabla ELSE [tabla EXCEPT ![c] = "ahorro"]

(* A camera that rests is added if it is not known; one that records is    *)
(* not.                                                                    *)
Ahorro(c) == [tabla EXCEPT ![c] = "ahorro"]

Grabando(c) ==
  IF tabla[c] = "no" THEN tabla ELSE [tabla EXCEPT ![c] = "grabando"]

Eliminado(c) == [tabla EXCEPT ![c] = "no"]

(* The message may come once more.                                         *)
MonitorRecibe ==
  LET c == Head(avisadas).de  e == Head(avisadas).estado IN
  /\ avisadas # << >>
  /\ tabla' = CASE e = "ahorro" -> Ahorro(c)
                [] e = "grabando" -> Grabando(c)
                [] e = "eliminado" -> Eliminado(c)
  /\ avisadas' = Tail(avisadas) \/ UNCHANGED avisadas
  /\ UNCHANGED <<estado, propio, hilos, imagenes, tarea, tareas, nueva, ventana,
                 conexion, repetida>>

-----------------------------------------------------------------------------
(* What was on its way is lost; the table is not followed any further.     *)
Rompe ==
  /\ conexion = "viva" /\ conexion' = "rota"
  /\ avisadas' = << >> /\ tabla' = [c \in Camaras |-> "no"]
  /\ UNCHANGED <<estado, propio, hilos, imagenes, tarea, tareas, nueva, ventana,
                 repetida>>

Deja(i, c) ==
  /\ i \notin puestas
  /\ puestas' = puestas \cup {i}
  /\ carpeta' = [carpeta EXCEPT ![c] = @ \cup {i}]
  /\ UNCHANGED <<estado, propio, hilos, detectadas, avisos, delCentral,
                 repetida, tabla>>

Hilo(h) ==
  h \in 1..Len(pc) /\ (Para(h) \/ Mira(h) \/ Analiza(h) \/ Borra(h))

Central ==
  \/ Une \/ Termina \/ Quita \/ Inserta
  \/ \E c \in Camaras : YaGraba(c) \/ Graba(c) \/ Descansa(c)

Next ==
  \/ \E h \in Hilos : Hilo(h)
  \/ Avisa \/ Central \/ MonitorRecibe \/ Rompe
  \/ \E tipo \in {"pendiente", "cancelado"} :
       \E cs \in SUBSET Camaras : Recibe(tipo, cs)
  \/ \E c \in Camaras :
       Crea(c) \/ \E cs \in SUBSET (Camaras \ {c}) : Elimina(c, cs)
  \/ \E i \in Imagenes, c \in Camaras : Deja(i, c)

(* Every thread of the process goes on while it can.                       *)
Spec ==
  /\ Init /\ [][Next]_vars
  /\ \A h \in Hilos : WF_vars(Hilo(h))
  /\ WF_vars(Avisa) /\ WF_vars(Central)

-----------------------------------------------------------------------------
(* Properties                                                              *)

Trabaja(h) == h \in 1..Len(pc) /\ pc[h] # "fin"

(* A camera that records does not look at images: once its thread has been *)
(* waited for none is left, unless it was set to rest twice, which leaves  *)
(* a thread nobody waits for.  And no image is announced twice, unless two *)
(* threads of such a camera had it.                                        *)
SinDobleDeteccion ==
  /\ \A h \in Hilos :
       (Trabaja(h) /\ estado[camara[h]] = "grabando") =>
         \/ tarea.espera /\ tarea.c = camara[h]
         \/ camara[h] \in repetida
  /\ repetida = {} => \A i \in Imagenes : avisos[i] <= 1

(* When nobody is at work with the list and nothing is on its way, the     *)
(* table of the monitoring system and the window of the central show the   *)
(* cameras that there are, the table with their states, after every order  *)
(* of messages, additions and removals, as long as what was published      *)
(* could be written: the states of a camera are published in the order it  *)
(* had them, and one of a camera removed does not bring it back.           *)
EstadoAnunciado ==
  (tarea = Libre /\ conexion = "viva" /\ avisadas = << >>) =>
    /\ \A c \in Camaras : tabla[c] = IF c \in Existen THEN estado[c] ELSE "no"
    /\ ventana = Existen

(* The wait for a detection thread, with both locks held, ends (unless the *)
(* model is out of threads); an image is looked at while its camera rests; *)
(* what is detected is published.                                          *)
TodoSigue ==
  /\ tarea # Libre ~> (tarea = Libre \/ Len(pc) = MaxHilos)
  /\ \A i \in Imagenes, c \in Camaras :
       i \in carpeta[c] ~> (i \notin carpeta[c] \/ estado[c] # "ahorro")
  /\ detectadas # << >> ~> detectadas = << >>
=============================================================================
