-------------------------- MODULE Deteccion_proofs --------------------------
(***************************************************************************)
(* The detection threads, for any cameras, images and bounds: a camera     *)
(* that records is not looked at and no image is announced twice, while    *)
(* no camera is set to rest twice; and what is on its way to the           *)
(* monitoring system is enough to put its table right.                     *)
(***************************************************************************)
EXTENDS Deteccion, SequenceTheorems, TLAPS

(* The values of the variables.                                            *)
Estados == {"no", "ahorro", "grabando", "fuera"}
Dichos == {"ahorro", "grabando", "eliminado"}
Canales == {"abierto", "avisado", "cerrado"}
Pasos == {"mira", "analiza", "borra", "fin"}
Tareas == [tipo : {"libre", "pendiente", "cancelado", "elimina"},
           resto : SUBSET Camaras, c : Camaras \cup {Nadie}, espera : BOOLEAN]

TipoHilos ==
  /\ camara \in Seq(Camaras) /\ canal \in Seq(Canales)
  /\ pc \in Seq(Pasos) /\ mirada \in Seq(Imagenes \cup {Nadie})
  /\ Len(camara) = Len(pc) /\ Len(canal) = Len(pc) /\ Len(mirada) = Len(pc)
  /\ \A h \in 1..Len(pc) : pc[h] \in {"analiza", "borra"} => mirada[h] \in Imagenes

Tipado ==
  /\ estado \in [Camaras -> Estados]
  /\ propio \in [Camaras -> Nat]
  /\ TipoHilos
  /\ carpeta \in [Camaras -> SUBSET Imagenes] /\ puestas \subseteq Imagenes
  /\ tarea \in Tareas
  /\ nueva \in Camaras \cup {Nadie} /\ ventana \subseteq Camaras
  /\ conexion \in {"viva", "rota"}
  /\ detectadas \in Seq(Imagenes) /\ avisos \in [Imagenes -> Nat]
  /\ avisadas \in Seq([de : Camaras, estado : Dichos])
  /\ tabla \in [Camaras -> {"no", "ahorro", "grabando"}]
  /\ repetida \subseteq Camaras

(* What the message, or the window, is doing to the list.                  *)
EnTarea ==
  /\ tarea.tipo = "libre" => tarea = Libre
  /\ tarea.resto \subseteq Existen
  /\ tarea.tipo = "elimina" => tarea.c \in Existen \ tarea.resto
  /\ tarea.espera => /\ tarea.tipo = "pendiente" /\ tarea.c \in Camaras
                     /\ estado[tarea.c] = "grabando" /\ propio[tarea.c] # Nadie
  /\ nueva # Nadie => estado[nueva] = "no" /\ propio[nueva] # Nadie

(* Whose each thread is.                                                   *)
Propios ==
  \A c \in Camaras :
    /\ propio[c] # Nadie => propio[c] \in 1..Len(pc) /\ camara[propio[c]] = c
    /\ estado[c] = "ahorro" => propio[c] # Nadie
    /\ (estado[c] = "grabando" /\ propio[c] # Nadie) => tarea.espera /\ tarea.c = c

(* A thread that works belongs to its camera, unless it was left behind or *)
(* its camera was removed.                                                 *)
Sueltos ==
  \A h \in 1..Len(pc) :
    \/ pc[h] = "fin" \/ camara[h] \in repetida \/ estado[camara[h]] = "fuera"
    \/ propio[camara[h]] = h

Solos ==
  \A h, k \in 1..Len(pc) :
    (pc[h] # "fin" /\ pc[k] # "fin" /\ camara[h] = camara[k]) => h = k

Tiene(h, i) == pc[h] \in {"analiza", "borra"} /\ mirada[h] = i
Vista(i, c) == \E h \in 1..Len(pc) : camara[h] = c /\ pc[h] = "borra" /\ mirada[h] = i
Sin(i) == avisos[i] = 0 /\ \A k \in 1..Len(detectadas) : detectadas[k] # i

(* Where an image may be; it is announced after it was looked at.          *)
Imagen(i) ==
  /\ i \notin puestas => Sin(i) /\ \A c \in Camaras : i \notin carpeta[c]
  /\ \A c, d \in Camaras : i \in carpeta[c] /\ i \in carpeta[d] => c = d
  /\ \A h \in 1..Len(pc) : Tiene(h, i) => i \in carpeta[camara[h]]
  /\ \A c \in Camaras : i \in carpeta[c] => Vista(i, c) \/ Sin(i)
  /\ (\E k \in 1..Len(detectadas) : detectadas[k] = i) => avisos[i] = 0
  /\ \A j, k \in 1..Len(detectadas) : detectadas[j] = i /\ detectadas[k] = i => j = k
  /\ avisos[i] <= 1

Unicas == Solos /\ \A i \in Imagenes : Imagen(i)

(* The state of a camera that was published last.                          *)
Dicho(c) ==
  IF tarea.espera /\ tarea.c = c THEN "ahorro"
  ELSE IF c \in Existen THEN estado[c] ELSE "no"
Queda(e) == IF e = "eliminado" THEN "no" ELSE e

Ultima(k) == \A j \in (k + 1)..Len(avisadas) : avisadas[j].de # avisadas[k].de

(* What is on the way to the monitoring system, in order: message k, which *)
(* is about c.                                                             *)
Orden(k, c) ==
  /\ avisadas[k].estado = "eliminado" => Ultima(k) /\ estado[c] = "fuera"
  /\ avisadas[k].estado = "grabando" =>
       tabla[c] # "no" \/ \E j \in 1..(k - 1) : avisadas[j].de = c
  /\ Ultima(k) => Dicho(c) = Queda(avisadas[k].estado)

EnCamino ==
  /\ \A k \in 1..Len(avisadas), c \in Camaras : avisadas[k].de = c => Orden(k, c)
  /\ \A c \in Camaras :
       (\A k \in 1..Len(avisadas) : avisadas[k].de # c) => tabla[c] = Dicho(c)

Anunciado == conexion = "viva" => ventana = Existen /\ EnCamino

Inv ==
  /\ Tipado
  /\ EnTarea
  /\ Propios
  /\ Sueltos
  /\ repetida = {} => Unicas
  /\ Anunciado

Control == EnTarea /\ Propios /\ Sueltos

-----------------------------------------------------------------------------
(* What steps do to sequences and to the record of the task.               *)

(* A new thread.                                                           *)
LEMMA LanzaHilo ==
  ASSUME Tipado, NEW c \in Camaras, NEW canales \in Seq(Canales),
         Len(canales) = Len(pc), Lanza(c, canales)
  PROVE  /\ camara' \in Seq(Camaras) /\ canal' \in Seq(Canales)
         /\ pc' \in Seq(Pasos) /\ mirada' \in Seq(Imagenes \cup {Nadie})
         /\ Len(pc) \in Nat /\ Len(pc') = Len(pc) + 1
         /\ Len(camara') = Len(pc') /\ Len(canal') = Len(pc') /\ Len(mirada') = Len(pc')
         /\ \A h \in 1..Len(pc) :
              camara'[h] = camara[h] /\ pc'[h] = pc[h] /\ mirada'[h] = mirada[h]
         /\ camara'[Len(pc) + 1] = c /\ pc'[Len(pc) + 1] = "mira"
         /\ propio' = [propio EXCEPT ![c] = Len(pc) + 1]
<1>1. /\ camara \in Seq(Camaras) /\ pc \in Seq(Pasos) /\ mirada \in Seq(Imagenes \cup {Nadie})
      /\ Len(camara) = Len(pc) /\ Len(mirada) = Len(pc)
  BY DEF Tipado, TipoHilos
<1>2. Len(pc) \in Nat
  BY <1>1, LenProperties
<1>3. /\ camara' = Append(camara, c) /\ canal' = Append(canales, "abierto")
      /\ pc' = Append(pc, "mira") /\ mirada' = Append(mirada, Nadie)
      /\ propio' = [propio EXCEPT ![c] = Len(pc) + 1]
  BY DEF Lanza
<1>4. /\ camara' \in Seq(Camaras) /\ Len(camara') = Len(pc) + 1
      /\ camara'[Len(pc) + 1] = c
      /\ \A h \in 1..Len(pc) : camara'[h] = camara[h]
  BY <1>1, <1>3, AppendProperties
<1>5. canal' \in Seq(Canales) /\ Len(canal') = Len(pc) + 1
  <2>1. "abierto" \in Canales
    BY DEF Canales
  <2>2. QED
    BY <2>1, <1>3, AppendProperties
<1>6. /\ pc' \in Seq(Pasos) /\ Len(pc') = Len(pc) + 1
      /\ pc'[Len(pc) + 1] = "mira"
      /\ \A h \in 1..Len(pc) : pc'[h] = pc[h]
  <2>1. "mira" \in Pasos
    BY DEF Pasos
  <2>2. QED
    BY <2>1, <1>1, <1>3, AppendProperties
<1>7. /\ mirada' \in Seq(Imagenes \cup {Nadie}) /\ Len(mirada') = Len(pc) + 1
      /\ \A h \in 1..Len(pc) : mirada'[h] = mirada[h]
  BY <1>1, <1>3, AppendProperties
<1>8. QED
  BY <1>2, <1>3, <1>4, <1>5, <1>6, <1>7

(* A step of a thread.                                                     *)
LEMMA SigueHilo ==
  ASSUME Tipado, NEW h \in 1..Len(pc), NEW paso \in Pasos, Sigue(h, paso),
         \/ mirada' = mirada
         \/ \E i \in Imagenes \cup {Nadie} : mirada' = [mirada EXCEPT ![h] = i]
  PROVE  /\ pc' \in Seq(Pasos) /\ mirada' \in Seq(Imagenes \cup {Nadie})
         /\ Len(pc') = Len(pc) /\ Len(mirada') = Len(pc) /\ Len(pc) \in Nat
         /\ pc'[h] = paso
         /\ \A k \in 1..Len(pc) : k # h => pc'[k] = pc[k] /\ mirada'[k] = mirada[k]
<1>1. /\ pc \in Seq(Pasos) /\ mirada \in Seq(Imagenes \cup {Nadie}) /\ Len(mirada) = Len(pc)
  BY DEF Tipado, TipoHilos
<1>2. /\ pc' \in Seq(Pasos) /\ Len(pc') = Len(pc) /\ pc'[h] = paso
      /\ \A k \in 1..Len(pc) : k # h => pc'[k] = pc[k]
  BY <1>1, ExceptSeq DEF Sigue
<1>3. /\ mirada' \in Seq(Imagenes \cup {Nadie}) /\ Len(mirada') = Len(pc)
      /\ \A k \in 1..Len(pc) : k # h => mirada'[k] = mirada[k]
  <2>1. CASE mirada' = mirada
    BY <2>1, <1>1
  <2>2. ASSUME NEW i \in Imagenes \cup {Nadie}, mirada' = [mirada EXCEPT ![h] = i]
        PROVE  /\ mirada' \in Seq(Imagenes \cup {Nadie}) /\ Len(mirada') = Len(pc)
              /\ \A k \in 1..Len(pc) : k # h => mirada'[k] = mirada[k]
    BY <2>2, <1>1, ExceptSeq
  <2>3. QED
    BY <2>1, <2>2
<1>4. Len(pc) \in Nat
  BY <1>1, LenProperties
<1>5. QED
  BY <1>2, <1>3, <1>4

(* What is done with a task.                                               *)
LEMMA TareaHecha ==
  ASSUME tarea \in Tareas, NEW c
  PROVE  /\ Hecha(c) \in Tareas /\ Hecha(c).tipo = tarea.tipo
         /\ Hecha(c).resto = tarea.resto \ {c} /\ Hecha(c).c = tarea.c
         /\ Hecha(c).espera = FALSE
  BY DEF Tareas, Hecha

LEMMA TareaNueva ==
  ASSUME NEW tipo \in {"libre", "pendiente", "cancelado", "elimina"},
         NEW resto \in SUBSET Camaras, NEW c \in Camaras \cup {Nadie}
  PROVE  /\ Tarea(tipo, resto, c) \in Tareas /\ Tarea(tipo, resto, c).tipo = tipo
         /\ Tarea(tipo, resto, c).resto = resto /\ Tarea(tipo, resto, c).c = c
         /\ Tarea(tipo, resto, c).espera = FALSE
  BY DEF Tareas, Tarea

(* What is published of a camera goes to the end, while it can be written. *)
LEMMA PublicaAlFinal ==
  ASSUME Tipado, NEW c \in Camaras, NEW e \in Dichos, Publica(c, e)
  PROVE  /\ avisadas' \in Seq([de : Camaras, estado : Dichos])
         /\ Len(avisadas) \in Nat
         /\ conexion = "viva" =>
              /\ Len(avisadas') = Len(avisadas) + 1
              /\ \A k \in 1..Len(avisadas) : avisadas'[k] = avisadas[k]
              /\ avisadas'[Len(avisadas) + 1].de = c
              /\ avisadas'[Len(avisadas) + 1].estado = e
<1> DEFINE m == [de |-> c, estado |-> e]
<1>1. avisadas \in Seq([de : Camaras, estado : Dichos])
  BY DEF Tipado
<1>2. m \in [de : Camaras, estado : Dichos] /\ m.de = c /\ m.estado = e
  OBVIOUS
<1>3. avisadas' = IF conexion = "viva" THEN Append(avisadas, m) ELSE avisadas
  BY DEF Publica
<1> HIDE DEF m
<1>4. Len(avisadas) \in Nat
  BY <1>1, LenProperties
<1>5. CASE conexion = "viva"
  BY <1>1, <1>2, <1>3, <1>4, <1>5, AppendProperties
<1>6. CASE conexion # "viva"
  BY <1>1, <1>3, <1>4, <1>6
<1>7. QED
  BY <1>5, <1>6

-----------------------------------------------------------------------------
(* Types.                                                                  *)

LEMMA InitTipado == Init => Tipado
<1>1. SUFFICES ASSUME Init
               PROVE  Tipado
  OBVIOUS
<1>2. TipoHilos
  BY <1>1 DEF Init, TipoHilos
<1>3. tarea \in Tareas
  BY <1>1, TareaNueva DEF Init, Libre
<1>4. detectadas \in Seq(Imagenes) /\ avisadas \in Seq([de : Camaras, estado : Dichos])
  BY <1>1 DEF Init
<1>5. estado \in [Camaras -> Estados] /\ propio \in [Camaras -> Nat]
  BY <1>1 DEF Init, Estados, Nadie
<1>6. /\ carpeta \in [Camaras -> SUBSET Imagenes] /\ avisos \in [Imagenes -> Nat]
      /\ tabla \in [Camaras -> {"no", "ahorro", "grabando"}]
  BY <1>1 DEF Init
<1>7. QED
  BY <1>1, <1>2, <1>3, <1>4, <1>5, <1>6 DEF Init, Tipado

(* A thread of its camera, or the channel of one, changes.                 *)
LEMMA HiloTipado ==
  ASSUME Tipado, NEW h \in Hilos, Hilo(h)
  PROVE  Tipado'
<1>1. h \in 1..Len(pc) /\ (Para(h) \/ Mira(h) \/ Analiza(h) \/ Borra(h))
  BY DEF Hilo
<1>2. /\ camara[h] \in Camaras
      /\ UNCHANGED <<estado, propio, camara, canal, tarea, nueva, ventana, conexion,
                     puestas, avisos, avisadas, tabla, repetida>>
  BY <1>1, ElementOfSeq
     DEF Tipado, TipoHilos, Para, Mira, Analiza, Borra, imagenes, delCentral
<1>3. Len(pc') = Len(pc) /\ TipoHilos'
  <2>1. ASSUME NEW paso \in Pasos, Sigue(h, paso), NEW m \in Imagenes \cup {Nadie},
               mirada' = mirada \/ mirada' = [mirada EXCEPT ![h] = m],
               paso \in {"analiza", "borra"} => mirada'[h] \in Imagenes
        PROVE  Len(pc') = Len(pc) /\ TipoHilos'
    <3>1. /\ pc' \in Seq(Pasos) /\ mirada' \in Seq(Imagenes \cup {Nadie})
          /\ Len(pc') = Len(pc) /\ Len(mirada') = Len(pc) /\ Len(pc) \in Nat
          /\ pc'[h] = paso
          /\ \A k \in 1..Len(pc) : k # h => pc'[k] = pc[k] /\ mirada'[k] = mirada[k]
      BY <1>1, <2>1, SigueHilo
    <3>2. QED
      BY <3>1, <2>1, <1>2 DEF Tipado, TipoHilos
  <2>2. CASE Para(h)
    BY <2>1, <2>2 DEF Para, Pasos
  <2>3. CASE Mira(h)
    <3>1. PICK i \in carpeta[camara[h]] : mirada' = [mirada EXCEPT ![h] = i]
      BY <2>3 DEF Mira
    <3>2. i \in Imagenes
      BY <1>2, <3>1 DEF Tipado
    <3>3. mirada'[h] = i
      BY <1>1, <3>1, <3>2, ExceptSeq DEF Tipado, TipoHilos
    <3>4. QED
      BY <2>1, <2>3, <3>1, <3>2, <3>3 DEF Mira, Pasos
  <2>4. CASE Analiza(h)
    <3>1. mirada[h] \in Imagenes
      BY <1>1, <2>4 DEF Analiza, Tipado, TipoHilos
    <3>2. QED
      BY <2>1, <2>4, <3>1 DEF Analiza, Pasos
  <2>5. CASE Borra(h)
    BY <2>1, <2>5 DEF Borra, Pasos
  <2>6. QED
    BY <1>1, <2>2, <2>3, <2>4, <2>5
<1>4. carpeta' \in [Camaras -> SUBSET Imagenes]
  BY <1>1, <1>2 DEF Para, Mira, Analiza, Borra, Tipado, imagenes
<1>5. detectadas' \in Seq(Imagenes)
  <2>1. CASE Analiza(h)
    <3>1. mirada[h] \in Imagenes
      BY <1>1, <2>1 DEF Analiza, Tipado, TipoHilos
    <3>2. detectadas' = detectadas \/ detectadas' = Append(detectadas, mirada[h])
      BY <2>1 DEF Analiza, Detecta
    <3>3. detectadas \in Seq(Imagenes)
      BY DEF Tipado
    <3>4. QED
      BY <3>1, <3>2, <3>3, AppendProperties
  <2>2. CASE ~Analiza(h)
    BY <1>1, <2>2 DEF Para, Mira, Borra, Tipado, imagenes
  <2>3. QED
    BY <2>1, <2>2
<1>6. QED
  BY <1>2, <1>3, <1>4, <1>5 DEF Tipado

LEMMA AvisaTipado == Tipado /\ Avisa => Tipado'
<1>1. SUFFICES ASSUME Tipado, Avisa
               PROVE  Tipado'
  OBVIOUS
<1>2. /\ detectadas \in Seq(Imagenes) /\ detectadas # << >> /\ detectadas' = Tail(detectadas)
      /\ avisos \in [Imagenes -> Nat]
  BY <1>1 DEF Tipado, Avisa
<1>3. detectadas' \in Seq(Imagenes) /\ Head(detectadas) \in Imagenes
  BY <1>2, HeadTailProperties
<1>4. avisos' \in [Imagenes -> Nat]
  BY <1>1, <1>2, <1>3 DEF Avisa
<1>5. TipoHilos'
  BY <1>1 DEF Tipado, TipoHilos, Avisa, hilos
<1>6. QED
  BY <1>1, <1>3, <1>4, <1>5 DEF Tipado, Avisa, hilos, delCentral

(* The central.                                                            *)
LEMMA GrabaTipado ==
  ASSUME Tipado, Propios, NEW c \in Camaras, Graba(c)
  PROVE  Tipado'
<1>1. propio[c] \in 1..Len(pc)
  BY DEF Propios, Graba
<1>2. canal' \in Seq(Canales) /\ Len(canal') = Len(canal)
  BY <1>1, ExceptSeq DEF Graba, Tipado, TipoHilos, Canales
<1>3. TipoHilos'
  BY <1>2 DEF Graba, Tipado, TipoHilos
<1>4. estado' \in [Camaras -> Estados] /\ tarea' \in Tareas
  BY DEF Graba, Tipado, Estados, Tareas
<1>5. QED
  BY <1>3, <1>4 DEF Graba, Tipado, imagenes

LEMMA UneTipado ==
  ASSUME Tipado, EnTarea, Une
  PROVE  Tipado'
<1>1. tarea.c \in Camaras /\ tarea \in Tareas
  BY DEF EnTarea, Une, Tipado
<1>2. tarea' \in Tareas
  BY <1>1, TareaHecha DEF Une
<1>3. avisadas' \in Seq([de : Camaras, estado : Dichos])
  BY <1>1, PublicaAlFinal DEF Une, Dichos
<1>4. TipoHilos'
  BY DEF Tipado, TipoHilos, Une, hilos
<1>5. propio' \in [Camaras -> Nat]
  BY <1>1 DEF Tipado, Une, Nadie
<1>6. QED
  BY <1>2, <1>3, <1>4, <1>5 DEF Tipado, Une, imagenes

(* The channels when a camera gets another thread.                         *)
LEMMA DescansaCanales ==
  ASSUME Tipado, Propios, NEW c \in Camaras
  PROVE  LET cs == IF propio[c] = Nadie THEN canal
                   ELSE [canal EXCEPT ![propio[c]] = "cerrado"]
         IN cs \in Seq(Canales) /\ Len(cs) = Len(pc)
<1>1. propio[c] # Nadie => propio[c] \in 1..Len(pc)
  BY DEF Propios
<1>2. canal \in Seq(Canales) /\ Len(canal) = Len(pc) /\ "cerrado" \in Canales
  BY DEF Tipado, TipoHilos, Canales
<1>3. QED
  BY <1>1, <1>2, ExceptSeq

LEMMA LanzaTipado ==
  ASSUME Tipado, NEW c \in Camaras, NEW canales \in Seq(Canales),
         Len(canales) = Len(pc), Lanza(c, canales)
  PROVE  TipoHilos' /\ propio' \in [Camaras -> Nat]
<1>1. /\ camara' \in Seq(Camaras) /\ canal' \in Seq(Canales)
      /\ pc' \in Seq(Pasos) /\ mirada' \in Seq(Imagenes \cup {Nadie})
      /\ Len(pc) \in Nat /\ Len(pc') = Len(pc) + 1
      /\ Len(camara') = Len(pc') /\ Len(canal') = Len(pc') /\ Len(mirada') = Len(pc')
      /\ \A h \in 1..Len(pc) : pc'[h] = pc[h] /\ mirada'[h] = mirada[h]
      /\ pc'[Len(pc) + 1] = "mira"
      /\ propio' = [propio EXCEPT ![c] = Len(pc) + 1]
  BY LanzaHilo
<1>2. \A h \in 1..Len(pc') : h \in 1..Len(pc) \/ h = Len(pc) + 1
  BY <1>1
<1>3. \A h \in 1..Len(pc') : pc'[h] \in {"analiza", "borra"} => mirada'[h] \in Imagenes
  BY <1>1, <1>2 DEF Tipado, TipoHilos
<1>4. TipoHilos'
  BY <1>1, <1>3 DEF TipoHilos
<1>5. propio \in [Camaras -> Nat] /\ Len(pc) + 1 \in Nat
  BY <1>1 DEF Tipado
<1>6. QED
  BY <1>1, <1>4, <1>5

LEMMA DescansaTipado ==
  ASSUME Tipado, Propios, NEW c \in Camaras, Descansa(c)
  PROVE  Tipado'
<1>1. PICK cs : cs = IF propio[c] = Nadie THEN canal
                     ELSE [canal EXCEPT ![propio[c]] = "cerrado"]
  OBVIOUS
<1>2. cs \in Seq(Canales) /\ Len(cs) = Len(pc)
  BY <1>1, DescansaCanales
<1>3. Lanza(c, cs) /\ Publica(c, "ahorro")
  BY <1>1 DEF Descansa
<1>4. TipoHilos' /\ propio' \in [Camaras -> Nat]
  BY <1>2, <1>3, LanzaTipado
<1>5. avisadas' \in Seq([de : Camaras, estado : Dichos])
  BY <1>3, PublicaAlFinal DEF Dichos
<1>6. tarea' \in Tareas
  BY TareaHecha DEF Descansa, Tipado
<1>7. estado' \in [Camaras -> Estados] /\ repetida' \subseteq Camaras
  BY DEF Descansa, Tipado, Estados
<1>8. QED
  BY <1>4, <1>5, <1>6, <1>7 DEF Tipado, Descansa, imagenes

LEMMA QuitaTipado ==
  ASSUME Tipado, EnTarea, Propios, Quita
  PROVE  Tipado'
<1>1. tarea.c \in Camaras
  BY DEF EnTarea, Quita, Existen
<1>2. canal' \in Seq(Canales) /\ Len(canal') = Len(pc)
  BY <1>1, DescansaCanales DEF Quita
<1>3. TipoHilos'
  BY <1>2 DEF Quita, Tipado, TipoHilos
<1>4. avisadas' \in Seq([de : Camaras, estado : Dichos])
  BY <1>1, PublicaAlFinal DEF Quita, Dichos
<1>5. tarea' \in Tareas
  BY TareaNueva DEF Quita, Libre
<1>6. /\ estado' \in [Camaras -> Estados] /\ propio' \in [Camaras -> Nat]
      /\ ventana' \subseteq Camaras
  BY <1>1 DEF Quita, Tipado, Estados, Oculta, Nadie
<1>7. QED
  BY <1>3, <1>4, <1>5, <1>6 DEF Tipado, Quita, imagenes

LEMMA CreaTipado ==
  ASSUME Tipado, NEW c \in Camaras, Crea(c)
  PROVE  Tipado'
<1>1. canal \in Seq(Canales) /\ Len(canal) = Len(pc) /\ Lanza(c, canal)
  BY DEF Tipado, TipoHilos, Crea
<1>2. TipoHilos' /\ propio' \in [Camaras -> Nat]
  BY <1>1, LanzaTipado
<1>3. QED
  BY <1>2 DEF Tipado, Crea, imagenes

LEMMA InsertaTipado ==
  ASSUME Tipado, Inserta
  PROVE  Tipado'
<1>1. nueva \in Camaras
  BY DEF Tipado, Inserta
<1>2. avisadas' \in Seq([de : Camaras, estado : Dichos])
  BY <1>1, PublicaAlFinal DEF Inserta, Dichos
<1>3. TipoHilos'
  BY DEF Tipado, TipoHilos, Inserta, hilos
<1>4. estado' \in [Camaras -> Estados] /\ ventana' \subseteq Camaras
  BY <1>1 DEF Tipado, Inserta, Estados, Muestra
<1>5. QED
  BY <1>2, <1>3, <1>4 DEF Tipado, Inserta, imagenes

(* The monitoring system.                                                  *)
LEMMA MonitorTipado ==
  ASSUME Tipado, MonitorRecibe
  PROVE  Tipado'
<1>1. avisadas # << >> /\ avisadas \in Seq([de : Camaras, estado : Dichos])
  BY DEF Tipado, MonitorRecibe
<1>2. /\ Head(avisadas) \in [de : Camaras, estado : Dichos]
      /\ Tail(avisadas) \in Seq([de : Camaras, estado : Dichos])
  BY <1>1, HeadTailProperties
<1>3. avisadas' \in Seq([de : Camaras, estado : Dichos])
  BY <1>1, <1>2 DEF MonitorRecibe
<1>4. tabla' \in [Camaras -> {"no", "ahorro", "grabando"}]
  BY <1>2 DEF MonitorRecibe, Tipado, Ahorro, Grabando, Eliminado, Dichos
<1>5. TipoHilos'
  BY DEF Tipado, TipoHilos, MonitorRecibe, hilos
<1>6. QED
  BY <1>3, <1>4, <1>5 DEF Tipado, MonitorRecibe, imagenes

LEMMA SigueTipado == Tipado /\ EnTarea /\ Propios /\ [Next]_vars => Tipado'
<1>1. SUFFICES ASSUME Tipado, EnTarea, Propios, [Next]_vars
               PROVE  Tipado'
  OBVIOUS
<1>2. ASSUME NEW t \in Tareas, Toma(t)
      PROVE  Tipado'
  <2>1. TipoHilos'
    BY <1>1, <1>2 DEF Tipado, TipoHilos, Toma, hilos
  <2>2. QED
    BY <2>1, <1>1, <1>2 DEF Tipado, Toma, imagenes
<1>3. ASSUME NEW tipo \in {"pendiente", "cancelado"}, NEW cs \in SUBSET Camaras,
             Recibe(tipo, cs)
      PROVE  Tipado'
  <2>1. Tarea(tipo, cs, Nadie) \in Tareas
    BY TareaNueva
  <2>2. QED
    BY <2>1, <1>2, <1>3 DEF Recibe
<1>4. ASSUME NEW c \in Camaras, NEW cs \in SUBSET (Camaras \ {c}), Elimina(c, cs)
      PROVE  Tipado'
  <2>1. Tarea("elimina", cs, c) \in Tareas
    BY TareaNueva
  <2>2. QED
    BY <2>1, <1>2, <1>4 DEF Elimina
<1>5. ASSUME NEW c \in Camaras, YaGraba(c)
      PROVE  Tipado'
  <2>1. TipoHilos'
    BY <1>1, <1>5 DEF Tipado, TipoHilos, YaGraba, hilos
  <2>2. tarea' \in Tareas
    BY <1>1, <1>5, TareaHecha DEF Tipado, YaGraba
  <2>3. QED
    BY <2>1, <2>2, <1>1, <1>5 DEF Tipado, YaGraba, imagenes
<1>6. CASE Termina
  <2>1. TipoHilos'
    BY <1>1, <1>6 DEF Tipado, TipoHilos, Termina, hilos
  <2>2. tarea' \in Tareas
    BY <1>6, TareaNueva DEF Termina, Libre
  <2>3. QED
    BY <2>1, <2>2, <1>1, <1>6 DEF Tipado, Termina, imagenes
<1>7. CASE Rompe
  <2>1. TipoHilos'
    BY <1>1, <1>7 DEF Tipado, TipoHilos, Rompe, hilos
  <2>2. avisadas' \in Seq([de : Camaras, estado : Dichos])
    BY <1>7 DEF Rompe
  <2>3. QED
    BY <2>1, <2>2, <1>1, <1>7 DEF Tipado, Rompe, imagenes
<1>8. ASSUME NEW i \in Imagenes, NEW c \in Camaras, Deja(i, c)
      PROVE  Tipado'
  <2>1. TipoHilos'
    BY <1>1, <1>8 DEF Tipado, TipoHilos, Deja, hilos
  <2>2. QED
    BY <2>1, <1>1, <1>8 DEF Tipado, Deja, delCentral
<1>9. CASE UNCHANGED vars
  <2>1. TipoHilos'
    BY <1>1, <1>9 DEF Tipado, TipoHilos, vars, hilos
  <2>2. QED
    BY <2>1, <1>1, <1>9 DEF Tipado, vars, imagenes, delCentral
<1>10. QED
  BY <1>1, <1>3, <1>4, <1>5, <1>6, <1>7, <1>8, <1>9, HiloTipado, AvisaTipado,
     GrabaTipado, UneTipado, DescansaTipado, QuitaTipado, CreaTipado, InsertaTipado,
     MonitorTipado DEF Next, Central

-----------------------------------------------------------------------------
(* The task, and the threads of each camera.                               *)

LEMMA InitControl == Init => Control
<1>1. SUFFICES ASSUME Init
               PROVE  Control
  OBVIOUS
<1>2. EnTarea
  BY <1>1 DEF Init, EnTarea, Libre, Tarea
<1>3. Propios /\ Sueltos
  BY <1>1, DeteccionAssumption DEF Init, Propios, Sueltos, Nadie
<1>4. QED
  BY <1>2, <1>3 DEF Control

(* No thread comes or goes back to work.                                   *)
LEMMA HilosQuietos ==
  ASSUME Control, UNCHANGED <<estado, propio, camara, tarea, nueva, repetida>>,
         Len(pc') = Len(pc),
         \A h \in 1..Len(pc) : pc'[h] # "fin" => pc[h] # "fin"
  PROVE  Control'
<1>1. EnTarea'
  BY DEF Control, EnTarea, Existen
<1>2. Propios' /\ Sueltos'
  BY DEF Control, Propios, Sueltos
<1>3. QED
  BY <1>1, <1>2 DEF Control

LEMMA HiloControl ==
  ASSUME Tipado, Control, NEW h \in Hilos, Hilo(h)
  PROVE  Control'
<1>1. h \in 1..Len(pc) /\ (Para(h) \/ Mira(h) \/ Analiza(h) \/ Borra(h))
  BY DEF Hilo
<1>2. UNCHANGED <<estado, propio, camara, tarea, nueva, repetida>>
  BY <1>1 DEF Para, Mira, Analiza, Borra, delCentral
<1>3. pc[h] # "fin" /\ \E paso \in Pasos : Sigue(h, paso)
  BY <1>1 DEF Para, Mira, Analiza, Borra, Pasos
<1>4. Len(pc') = Len(pc) /\ \A k \in 1..Len(pc) : k # h => pc'[k] = pc[k]
  <2>1. pc \in Seq(Pasos)
    BY DEF Tipado, TipoHilos
  <2>2. PICK paso \in Pasos : pc' = [pc EXCEPT ![h] = paso]
    BY <1>3 DEF Sigue
  <2>3. QED
    BY <2>1, <2>2, <1>1, ExceptSeq
<1>5. QED
  BY <1>2, <1>3, <1>4, HilosQuietos

(* What changes is the task, and it waited for nobody.                     *)
LEMMA TareaControl ==
  ASSUME Control, UNCHANGED <<estado, propio, hilos, nueva, repetida>>,
         ~tarea.espera, EnTarea'
  PROVE  Control'
<1>1. Propios' /\ Sueltos'
  BY DEF Control, Propios, Sueltos, hilos
<1>2. QED
  BY <1>1 DEF Control

LEMMA TomaControl ==
  ASSUME Tipado, Control, NEW tipo \in {"pendiente", "cancelado", "elimina"},
         NEW cs \in SUBSET Existen, NEW c \in Camaras \cup {Nadie},
         tipo = "elimina" => c \in Existen \ cs, Toma(Tarea(tipo, cs, c))
  PROVE  Control'
<1>1. /\ UNCHANGED <<estado, propio, hilos, nueva, repetida>> /\ tarea = Libre
      /\ tarea' = Tarea(tipo, cs, c)
  BY DEF Toma
<1>2. cs \subseteq Camaras
  BY DEF Existen
<1>3. tarea'.tipo = tipo /\ tarea'.resto = cs /\ tarea'.c = c /\ tarea'.espera = FALSE
  <2>1. /\ Tarea(tipo, cs, c).tipo = tipo /\ Tarea(tipo, cs, c).resto = cs
        /\ Tarea(tipo, cs, c).c = c /\ Tarea(tipo, cs, c).espera = FALSE
    BY DEF Tarea
  <2>2. QED
    BY <1>1, <2>1
<1>4. ~tarea.espera
  BY <1>1 DEF Libre, Tarea
<1>5. EnTarea'
  BY <1>1, <1>3 DEF Control, EnTarea, Existen
<1>6. QED
  BY <1>1, <1>4, <1>5, TareaControl

LEMMA YaGrabaControl ==
  ASSUME Tipado, Control, NEW c \in Camaras, YaGraba(c)
  PROVE  Control'
<1>1. /\ UNCHANGED <<estado, propio, hilos, nueva, repetida>> /\ ~tarea.espera
      /\ tarea' = Hecha(c) /\ tarea.tipo = "pendiente"
  BY DEF YaGraba
<1>2. tarea'.tipo = tarea.tipo /\ tarea'.resto = tarea.resto \ {c} /\ tarea'.espera = FALSE
  BY <1>1, TareaHecha DEF Tipado
<1>3. EnTarea'
  BY <1>1, <1>2 DEF Control, EnTarea, Existen
<1>4. QED
  BY <1>1, <1>3, TareaControl

LEMMA TerminaControl ==
  ASSUME Tipado, Control, Termina
  PROVE  Control'
<1>1. /\ UNCHANGED <<estado, propio, hilos, nueva, repetida>> /\ ~tarea.espera
      /\ tarea' = Libre
  BY DEF Termina
<1>2. EnTarea'
  BY <1>1 DEF Control, EnTarea, Existen, Libre, Tarea
<1>3. QED
  BY <1>1, <1>2, TareaControl

LEMMA GrabaControl ==
  ASSUME Tipado, Control, NEW c \in Camaras, Graba(c)
  PROVE  Control'
<1>1. /\ tarea.tipo = "pendiente" /\ ~tarea.espera /\ estado[c] = "ahorro"
      /\ estado' = [estado EXCEPT ![c] = "grabando"]
      /\ tarea' = [tarea EXCEPT !.espera = TRUE, !.c = c]
      /\ UNCHANGED <<propio, camara, pc, nueva, repetida>>
  BY DEF Graba
<1>2. /\ tarea'.tipo = "pendiente" /\ tarea'.resto = tarea.resto
      /\ tarea'.espera = TRUE /\ tarea'.c = c
  BY <1>1 DEF Tipado, Tareas
<1>3. \A d \in Camaras : estado'[d] = IF d = c THEN "grabando" ELSE estado[d]
  BY <1>1 DEF Tipado
<1>4. EnTarea'
  <2>1. Existen' = Existen
    BY <1>1, <1>3 DEF Existen
  <2>2. propio[c] # Nadie
    BY <1>1 DEF Control, Propios
  <2>3. nueva # Nadie => nueva # c /\ nueva \in Camaras
    BY <1>1 DEF Control, EnTarea, Tipado
  <2>4. QED
    BY <1>1, <1>2, <1>3, <2>1, <2>2, <2>3 DEF Control, EnTarea
<1>5. Propios'
  BY <1>1, <1>2, <1>3 DEF Control, Propios
<1>6. Sueltos'
  BY <1>1, <1>3, ElementOfSeq DEF Control, Sueltos, Tipado, TipoHilos
<1>7. QED
  BY <1>4, <1>5, <1>6 DEF Control

LEMMA UneControl ==
  ASSUME Tipado, Control, Une
  PROVE  Control'
<1>1. PICK c : c = tarea.c
  OBVIOUS
<1>2. /\ c \in Camaras /\ estado[c] = "grabando" /\ tarea.espera
      /\ propio[c] \in 1..Len(pc) /\ pc[propio[c]] = "fin" /\ camara[propio[c]] = c
      /\ propio' = [propio EXCEPT ![c] = Nadie] /\ tarea' = Hecha(c)
      /\ UNCHANGED <<estado, hilos, nueva, repetida>>
      /\ tarea.tipo = "pendiente"
  BY <1>1 DEF Une, Control, EnTarea, Propios
<1>3. tarea'.tipo = tarea.tipo /\ tarea'.resto = tarea.resto \ {c} /\ tarea'.espera = FALSE
  BY <1>2, TareaHecha DEF Tipado
<1>4. \A d \in Camaras : propio'[d] = IF d = c THEN Nadie ELSE propio[d]
  BY <1>2 DEF Tipado
<1>5. EnTarea'
  <2>1. nueva # Nadie => nueva # c /\ nueva \in Camaras
    BY <1>2 DEF Control, EnTarea, Tipado
  <2>2. QED
    BY <1>2, <1>3, <1>4, <2>1 DEF Control, EnTarea, Existen
<1>6. Propios'
  BY <1>1, <1>2, <1>3, <1>4 DEF Control, Propios, hilos
<1>7. Sueltos'
  BY <1>2, <1>4, ElementOfSeq DEF Control, Sueltos, Tipado, TipoHilos, hilos
<1>8. QED
  BY <1>5, <1>6, <1>7 DEF Control

(* A new thread of c, which has no other that works but what is left       *)
(* behind.                                                                 *)
LEMMA LanzaControl ==
  ASSUME Tipado, Control, NEW c \in Camaras, NEW canales \in Seq(Canales),
         Len(canales) = Len(pc), Lanza(c, canales),
         tarea.espera => tarea' = tarea /\ tarea.c # c, estado' \in [Camaras -> Estados],
         \A d \in Camaras : d # c => estado'[d] = estado[d],
         estado'[c] # "grabando", repetida \subseteq repetida',
         estado[c] # "fuera",
         propio[c] = Nadie \/ estado[c] = "grabando" \/ c \in repetida'
  PROVE  Propios' /\ Sueltos'
<1>1. /\ Len(pc) \in Nat /\ Len(pc') = Len(pc) + 1
      /\ \A h \in 1..Len(pc) : camara'[h] = camara[h] /\ pc'[h] = pc[h]
      /\ camara'[Len(pc) + 1] = c
      /\ propio' = [propio EXCEPT ![c] = Len(pc) + 1]
  BY LanzaHilo
<1>2. \A d \in Camaras : propio'[d] = IF d = c THEN Len(pc) + 1 ELSE propio[d]
  BY <1>1 DEF Tipado
<1>3. Propios'
  BY <1>1, <1>2 DEF Control, Propios, Nadie
<1>4. ASSUME NEW h \in 1..Len(pc')
      PROVE  \/ pc'[h] = "fin" \/ camara'[h] \in repetida' \/ estado'[camara'[h]] = "fuera"
             \/ propio'[camara'[h]] = h
  <2>1. CASE h = Len(pc) + 1
    BY <2>1, <1>1, <1>2
  <2>2. CASE h \in 1..Len(pc)
    <3>1. /\ camara[h] \in Camaras /\ camara'[h] = camara[h] /\ pc'[h] = pc[h]
      BY <2>2, <1>1, ElementOfSeq DEF Tipado, TipoHilos
    <3>2. \/ pc[h] = "fin" \/ camara[h] \in repetida \/ estado[camara[h]] = "fuera"
          \/ propio[camara[h]] = h
      BY <2>2 DEF Control, Sueltos
    <3>3. CASE camara[h] # c
      BY <3>1, <3>2, <3>3, <1>2
    <3>4. CASE camara[h] = c
      <4>1. CASE propio[c] = h
        <5>1. propio[c] # Nadie
          BY <4>1, <2>2, <1>1 DEF Nadie
        <5>2. estado[c] # "grabando" 
          BY <5>1 DEF Control, Propios
        <5>3. QED
          BY <5>1, <5>2, <3>1, <3>4, <2>2
      <4>2. QED
        BY <4>1, <3>1, <3>2, <3>4
    <3>5. QED
      BY <3>3, <3>4
  <2>3. QED
    BY <2>1, <2>2, <1>1
<1>5. Sueltos'
  BY <1>4 DEF Sueltos
<1>6. QED
  BY <1>3, <1>5

LEMMA DescansaControl ==
  ASSUME Tipado, Control, NEW c \in Camaras, Descansa(c)
  PROVE  Control'
<1>1. PICK cs : cs = IF propio[c] = Nadie THEN canal
                     ELSE [canal EXCEPT ![propio[c]] = "cerrado"]
  OBVIOUS
<1>2. cs \in Seq(Canales) /\ Len(cs) = Len(pc) /\ Lanza(c, cs)
  BY <1>1, DescansaCanales DEF Descansa, Control
<1>3. /\ tarea.tipo \in {"cancelado", "elimina"} /\ c \in tarea.resto
      /\ estado' = [estado EXCEPT ![c] = "ahorro"]
      /\ tarea' = Hecha(c) /\ UNCHANGED nueva
      /\ repetida' = IF estado[c] = "ahorro" THEN repetida \cup {c} ELSE repetida
  BY DEF Descansa
<1>4. /\ tarea'.tipo = tarea.tipo /\ tarea'.resto = tarea.resto \ {c}
      /\ tarea'.c = tarea.c /\ tarea'.espera = FALSE
  BY <1>3, TareaHecha DEF Tipado
<1>5. c \in Existen /\ ~tarea.espera
  BY <1>3 DEF Control, EnTarea
<1>6. /\ estado' \in [Camaras -> Estados]
      /\ \A d \in Camaras : estado'[d] = IF d = c THEN "ahorro" ELSE estado[d]
  BY <1>3 DEF Tipado, Estados
<1>7. Existen' = Existen
  BY <1>5, <1>6 DEF Existen
<1>8. \A d \in Camaras : d # c => propio'[d] = propio[d]
  BY <1>2 DEF Lanza, Tipado
<1>9. EnTarea'
  <2>1. nueva # Nadie => nueva # c /\ nueva \in Camaras
    BY <1>5 DEF Control, EnTarea, Tipado, Existen
  <2>2. QED
    BY <2>1, <1>3, <1>4, <1>6, <1>7, <1>8 DEF Control, EnTarea
<1>10. Propios' /\ Sueltos'
  <2>1. estado[c] # "fuera" /\ (estado[c] = "grabando" \/ c \in repetida')
    BY <1>3, <1>5 DEF Existen
  <2>2. repetida \subseteq repetida'
    BY <1>3
  <2>3. QED
    BY <2>1, <2>2, <1>2, <1>5, <1>6, LanzaControl
<1>11. QED
  BY <1>9, <1>10 DEF Control

LEMMA CreaControl ==
  ASSUME Tipado, Control, NEW c \in Camaras, Crea(c)
  PROVE  Control'
<1>1. /\ nueva = Nadie /\ estado[c] = "no" /\ propio[c] = Nadie
      /\ Lanza(c, canal) /\ nueva' = c
      /\ UNCHANGED <<estado, tarea, repetida>>
  BY DEF Crea
<1>2. canal \in Seq(Canales) /\ Len(canal) = Len(pc) /\ estado \in [Camaras -> Estados]
  BY DEF Tipado, TipoHilos
<1>3. tarea.espera => tarea.c # c
  BY <1>1 DEF Control, EnTarea
<1>4. propio' = [propio EXCEPT ![c] = Len(pc) + 1] /\ Len(pc) \in Nat
  BY <1>1, <1>2, LanzaHilo
<1>5. EnTarea'
  BY <1>1, <1>3, <1>4 DEF Control, EnTarea, Existen, Tipado, Nadie
<1>6. Propios' /\ Sueltos'
  BY <1>1, <1>2, <1>3, LanzaControl
<1>7. QED
  BY <1>5, <1>6 DEF Control

LEMMA QuitaControl ==
  ASSUME Tipado, Control, Quita
  PROVE  Control'
<1>1. PICK c : c = tarea.c
  OBVIOUS
<1>2. /\ c \in Existen /\ tarea.tipo = "elimina" /\ ~tarea.espera
      /\ estado' = [estado EXCEPT ![c] = "fuera"]
      /\ propio' = [propio EXCEPT ![c] = Nadie] /\ tarea' = Libre
      /\ UNCHANGED <<camara, pc, nueva, repetida>>
  BY <1>1 DEF Quita, Control, EnTarea
<1>3. c \in Camaras /\ (nueva # Nadie => nueva # c /\ nueva \in Camaras)
  BY <1>2 DEF Existen, Control, EnTarea, Tipado
<1>4. \A d \in Camaras : /\ estado'[d] = IF d = c THEN "fuera" ELSE estado[d]
                         /\ propio'[d] = IF d = c THEN Nadie ELSE propio[d]
  BY <1>2 DEF Tipado
<1>5. EnTarea'
  BY <1>2, <1>3, <1>4 DEF Control, EnTarea, Libre, Tarea
<1>6. Propios'
  BY <1>2, <1>3, <1>4 DEF Control, Propios
<1>7. Sueltos'
  BY <1>2, <1>4, ElementOfSeq DEF Control, Sueltos, Tipado, TipoHilos
<1>8. QED
  BY <1>5, <1>6, <1>7 DEF Control

LEMMA InsertaControl ==
  ASSUME Tipado, Control, Inserta
  PROVE  Control'
<1>1. PICK c : c = nueva
  OBVIOUS
<1>2. /\ c \in Camaras /\ estado[c] = "no" /\ propio[c] # Nadie
      /\ estado' = [estado EXCEPT ![c] = "ahorro"] /\ nueva' = Nadie
      /\ UNCHANGED <<propio, camara, pc, tarea, repetida>> /\ tarea = Libre
  BY <1>1 DEF Inserta, hilos, Control, EnTarea, Tipado
<1>3. \A d \in Camaras : estado'[d] = IF d = c THEN "ahorro" ELSE estado[d]
  BY <1>2 DEF Tipado
<1>4. EnTarea'
  BY <1>2, <1>3 DEF Control, EnTarea, Libre, Tarea, Existen
<1>5. Propios'
  BY <1>2, <1>3 DEF Control, Propios, Libre, Tarea
<1>6. Sueltos'
  BY <1>2, <1>3, ElementOfSeq DEF Control, Sueltos, Tipado, TipoHilos
<1>7. QED
  BY <1>4, <1>5, <1>6 DEF Control

LEMMA SigueControl == Tipado /\ Control /\ [Next]_vars => Control'
<1>1. SUFFICES ASSUME Tipado, Control, [Next]_vars
               PROVE  Control'
  OBVIOUS
<1>2. CASE \E h \in Hilos : Hilo(h)
  BY <1>1, <1>2, HiloControl
<1>3. CASE Avisa
  BY <1>1, <1>3, HilosQuietos DEF Avisa, hilos, delCentral
<1>4. CASE Central
  BY <1>1, <1>4, UneControl, TerminaControl, QuitaControl, InsertaControl,
     YaGrabaControl, GrabaControl, DescansaControl DEF Central
<1>5. CASE MonitorRecibe
  BY <1>1, <1>5, HilosQuietos DEF MonitorRecibe, hilos
<1>6. CASE Rompe
  BY <1>1, <1>6, HilosQuietos DEF Rompe, hilos
<1>7. ASSUME NEW tipo \in {"pendiente", "cancelado"}, NEW cs \in SUBSET Camaras,
             Recibe(tipo, cs)
      PROVE  Control'
  <2>1. Toma(Tarea(tipo, cs, Nadie)) /\ cs \in SUBSET Existen
    BY <1>7 DEF Recibe
  <2>2. QED
    BY <1>1, <2>1, TomaControl
<1>8. ASSUME NEW c \in Camaras, NEW cs \in SUBSET (Camaras \ {c}), Elimina(c, cs)
      PROVE  Control'
  <2>1. Toma(Tarea("elimina", cs, c)) /\ cs \in SUBSET Existen /\ c \in Existen \ cs
    BY <1>8 DEF Elimina
  <2>2. QED
    BY <1>1, <2>1, TomaControl
<1>9. CASE \E c \in Camaras : Crea(c)
  BY <1>1, <1>9, CreaControl
<1>10. CASE \E i \in Imagenes, c \in Camaras : Deja(i, c)
  BY <1>1, <1>10, HilosQuietos DEF Deja, hilos, delCentral
<1>11. CASE UNCHANGED vars
  BY <1>1, <1>11, HilosQuietos DEF vars, hilos, delCentral
<1>12. QED
  BY <1>1, <1>2, <1>3, <1>4, <1>5, <1>6, <1>7, <1>8, <1>9, <1>10, <1>11 DEF Next

-----------------------------------------------------------------------------
(* Where the images are.                                                   *)

(* No image moves.                                                         *)
LEMMA ImagenQuieta ==
  ASSUME NEW i \in Imagenes, Imagen(i), UNCHANGED imagenes,
         \A h \in 1..Len(pc') :
           pc'[h] \in {"analiza", "borra"} /\ mirada'[h] = i => i \in carpeta[camara'[h]],
         \A c \in Camaras : Vista(i, c) => Vista(i, c)'
  PROVE  Imagen(i)'
<1>1. UNCHANGED <<carpeta, puestas, detectadas, avisos>>
  BY DEF imagenes
<1>2. Sin(i)' <=> Sin(i)
  BY <1>1 DEF Sin
<1>3. \A h \in 1..Len(pc') : Tiene(h, i)' => i \in carpeta'[camara'[h]]
  BY <1>1 DEF Tiene
<1>4. QED
  BY <1>1, <1>2, <1>3 DEF Imagen

(* A camera gets a thread when it has no other that works.                 *)
LEMMA LanzaUnicas ==
  ASSUME Tipado, Unicas, NEW c \in Camaras, NEW canales \in Seq(Canales),
         Len(canales) = Len(pc), Lanza(c, canales), UNCHANGED imagenes,
         \A k \in 1..Len(pc) : camara[k] = c => pc[k] = "fin"
  PROVE  Unicas'
<1>1. /\ Len(pc) \in Nat /\ Len(pc') = Len(pc) + 1
      /\ \A h \in 1..Len(pc) :
           camara'[h] = camara[h] /\ pc'[h] = pc[h] /\ mirada'[h] = mirada[h]
      /\ camara'[Len(pc) + 1] = c /\ pc'[Len(pc) + 1] = "mira"
  BY LanzaHilo
<1>2. Solos'
  BY <1>1 DEF Unicas, Solos
<1>3. ASSUME NEW i \in Imagenes
      PROVE  Imagen(i)'
  <2>1. Imagen(i)
    BY DEF Unicas
  <2>2. \A h \in 1..Len(pc') :
          pc'[h] \in {"analiza", "borra"} /\ mirada'[h] = i => i \in carpeta[camara'[h]]
    BY <2>1, <1>1 DEF Imagen, Tiene
  <2>3. \A d \in Camaras : Vista(i, d) => Vista(i, d)'
    BY <1>1 DEF Vista
  <2>4. QED
    BY <2>1, <2>2, <2>3, ImagenQuieta
<1>4. QED
  BY <1>2, <1>3 DEF Unicas

(* No thread and no image changes.                                         *)
LEMMA UnicasQuietas ==
  ASSUME Unicas, UNCHANGED <<camara, pc, mirada, imagenes>>
  PROVE  Unicas'
<1>1. Solos'
  BY DEF Unicas, Solos
<1>2. ASSUME NEW i \in Imagenes
      PROVE  Imagen(i)'
  <2>1. Imagen(i)
    BY DEF Unicas
  <2>2. \A d \in Camaras : Vista(i, d) => Vista(i, d)'
    BY DEF Vista
  <2>3. QED
    BY <2>1, <2>2, ImagenQuieta DEF Imagen, Tiene
<1>3. QED
  BY <1>1, <1>2 DEF Unicas

(* A thread that goes on working, or ends.                                 *)
LEMMA HiloSolos ==
  ASSUME Tipado, Solos, NEW h \in Hilos, Hilo(h)
  PROVE  Solos'
<1>1. h \in 1..Len(pc) /\ (Para(h) \/ Mira(h) \/ Analiza(h) \/ Borra(h))
  BY DEF Hilo
<1>2. UNCHANGED camara
  BY <1>1 DEF Para, Mira, Analiza, Borra
<1>3. pc[h] # "fin" /\ \E paso \in Pasos : Sigue(h, paso)
  BY <1>1 DEF Para, Mira, Analiza, Borra, Pasos
<1>4. Len(pc') = Len(pc) /\ \A k \in 1..Len(pc) : k # h => pc'[k] = pc[k]
  <2>1. pc \in Seq(Pasos)
    BY DEF Tipado, TipoHilos
  <2>2. PICK paso \in Pasos : pc' = [pc EXCEPT ![h] = paso]
    BY <1>3 DEF Sigue
  <2>3. QED
    BY <2>1, <2>2, <1>1, ExceptSeq
<1>5. QED
  BY <1>2, <1>3, <1>4 DEF Solos

(* A thread stops, or takes an image of the folder of its camera.          *)
LEMMA MiraImagen ==
  ASSUME Tipado, NEW h \in 1..Len(pc), Para(h) \/ Mira(h),
         NEW i \in Imagenes, Imagen(i)
  PROVE  Imagen(i)'
<1>1. pc[h] = "mira" /\ UNCHANGED <<camara, imagenes>>
  BY DEF Para, Mira
<1>2. /\ Len(pc') = Len(pc)
      /\ pc'[h] \in {"fin", "analiza"}
      /\ \A k \in 1..Len(pc) : k # h => pc'[k] = pc[k] /\ mirada'[k] = mirada[k]
      /\ pc'[h] = "analiza" => mirada'[h] \in carpeta[camara[h]]
  <2>1. CASE Para(h)
    <3>1. "fin" \in Pasos /\ Sigue(h, "fin") /\ mirada' = mirada
      BY <2>1 DEF Para, Pasos
    <3>2. QED
      BY <3>1, SigueHilo
  <2>2. CASE Mira(h)
    <3>1. PICK m \in carpeta[camara[h]] : mirada' = [mirada EXCEPT ![h] = m]
      BY <2>2 DEF Mira
    <3>2. /\ "analiza" \in Pasos /\ Sigue(h, "analiza") /\ camara[h] \in Camaras
          /\ mirada \in Seq(Imagenes \cup {Nadie}) /\ Len(mirada) = Len(pc)
      BY <2>2, ElementOfSeq DEF Mira, Pasos, Tipado, TipoHilos
    <3>3. m \in Imagenes
      BY <3>1, <3>2 DEF Tipado
    <3>4. /\ Len(pc') = Len(pc) /\ pc'[h] = "analiza"
          /\ \A k \in 1..Len(pc) : k # h => pc'[k] = pc[k] /\ mirada'[k] = mirada[k]
      BY <3>1, <3>2, <3>3, SigueHilo
    <3>5. mirada'[h] = m
      BY <3>1, <3>2, <3>3, ExceptSeq
    <3>6. QED
      BY <3>4, <3>5, <3>1
  <2>3. QED
    BY <2>1, <2>2
<1>3. \A k \in 1..Len(pc') :
        pc'[k] \in {"analiza", "borra"} /\ mirada'[k] = i => i \in carpeta[camara'[k]]
  BY <1>1, <1>2 DEF Imagen, Tiene
<1>4. \A d \in Camaras : Vista(i, d) => Vista(i, d)'
  BY <1>1, <1>2 DEF Vista
<1>5. QED
  BY <1>1, <1>3, <1>4, ImagenQuieta

(* An image is detected: only its camera's thread had it, and had not      *)
(* looked at it before.                                                    *)
LEMMA AnalizaImagen ==
  ASSUME Tipado, Solos, NEW h \in 1..Len(pc), Analiza(h),
         NEW i \in Imagenes, Imagen(i)
  PROVE  Imagen(i)'
<1>1. PICK m : m = mirada[h]
  OBVIOUS
<1>2. /\ pc[h] = "analiza" /\ Sigue(h, "borra")
      /\ UNCHANGED <<camara, mirada, carpeta, puestas, avisos>>
      /\ detectadas' = Append(detectadas, m) \/ detectadas' = detectadas
  BY <1>1 DEF Analiza, Detecta
<1>3. /\ m \in Imagenes /\ detectadas \in Seq(Imagenes) /\ camara[h] \in Camaras
  BY <1>1, <1>2, ElementOfSeq DEF Tipado, TipoHilos
<1>4. /\ Len(pc') = Len(pc) /\ pc'[h] = "borra"
      /\ \A k \in 1..Len(pc) : k # h => pc'[k] = pc[k]
  <2>1. "borra" \in Pasos
    BY DEF Pasos
  <2>2. QED
    BY <2>1, <1>2, SigueHilo
<1>5. \A d \in Camaras : Vista(i, d) => Vista(i, d)'
  BY <1>2, <1>4 DEF Vista
<1>6. \A k \in 1..Len(pc') : Tiene(k, i)' => i \in carpeta'[camara'[k]]
  BY <1>2, <1>4 DEF Imagen, Tiene
<1>7. CASE m # i \/ detectadas' = detectadas
  <2>1. Sin(i) => Sin(i)'
    <3>1. CASE detectadas' = detectadas
      BY <3>1, <1>2 DEF Sin
    <3>2. CASE detectadas' = Append(detectadas, m) /\ m # i
      <4>1. /\ Len(detectadas') = Len(detectadas) + 1 /\ Len(detectadas) \in Nat
            /\ detectadas'[Len(detectadas) + 1] = m
            /\ \A k \in 1..Len(detectadas) : detectadas'[k] = detectadas[k]
        BY <3>2, <1>3, AppendProperties, LenProperties
      <4>2. QED
        BY <4>1, <3>2, <1>2 DEF Sin
    <3>3. QED
      BY <3>1, <3>2, <1>2, <1>7
  <2>2. /\ \A k \in 1..Len(detectadas') : detectadas'[k] = i =>
             k \in 1..Len(detectadas) /\ detectadas[k] = i
    <3>1. CASE detectadas' = detectadas
      BY <3>1
    <3>2. CASE detectadas' = Append(detectadas, m) /\ m # i
      <4>1. /\ Len(detectadas') = Len(detectadas) + 1 /\ Len(detectadas) \in Nat
            /\ detectadas'[Len(detectadas) + 1] = m
            /\ \A k \in 1..Len(detectadas) : detectadas'[k] = detectadas[k]
        BY <3>2, <1>3, AppendProperties, LenProperties
      <4>2. QED
        BY <4>1, <3>2
    <3>3. QED
      BY <3>1, <3>2, <1>2, <1>7
  <2>3. \A c \in Camaras : i \in carpeta'[c] => Vista(i, c)' \/ Sin(i)'
    BY <2>1, <1>2, <1>5 DEF Imagen
  <2>4. QED
    BY <2>1, <2>2, <2>3, <1>2, <1>6 DEF Imagen
<1>8. CASE m = i /\ detectadas' = Append(detectadas, i)
  <2>1. i \in carpeta[camara[h]]
    BY <1>8, <1>1, <1>2 DEF Imagen, Tiene
  <2>2. ~Vista(i, camara[h])
    BY <1>2 DEF Solos, Vista
  <2>3. Sin(i)
    BY <2>1, <2>2, <1>3 DEF Imagen
  <2>4. /\ Len(detectadas') = Len(detectadas) + 1 /\ Len(detectadas) \in Nat
        /\ \A k \in 1..Len(detectadas) : detectadas'[k] = detectadas[k]
    BY <1>8, <1>3, AppendProperties, LenProperties
  <2>5. Vista(i, camara[h])'
    BY <1>8, <1>1, <1>2, <1>4 DEF Vista
  <2>6. \A c \in Camaras : i \in carpeta'[c] => c = camara[h]
    BY <2>1, <1>2, <1>3 DEF Imagen
  <2>7. \A c \in Camaras : i \in carpeta'[c] => Vista(i, c)'
    BY <2>5, <2>6, <1>2
  <2>8. i \in puestas'
    BY <2>1, <1>2, <1>3 DEF Imagen
  <2>9. avisos'[i] = 0 /\ \A j, k \in 1..Len(detectadas') :
          detectadas'[j] = i /\ detectadas'[k] = i => j = k
    BY <2>3, <2>4, <1>2 DEF Sin
  <2>10. QED
    BY <2>7, <2>8, <2>9, <1>2, <1>6 DEF Imagen
<1>9. QED
  BY <1>2, <1>7, <1>8

(* The image looked at is removed: nobody else has it.                     *)
LEMMA BorraImagen ==
  ASSUME Tipado, Solos, NEW h \in 1..Len(pc), Borra(h),
         NEW i \in Imagenes, Imagen(i)
  PROVE  Imagen(i)'
<1>1. PICK m : m = mirada[h]
  OBVIOUS
<1>2. PICK c : c = camara[h]
  OBVIOUS
<1>3. /\ pc[h] = "borra" /\ Sigue(h, "mira") /\ mirada' = [mirada EXCEPT ![h] = Nadie]
      /\ carpeta' = [carpeta EXCEPT ![c] = @ \ {m}]
      /\ UNCHANGED <<camara, puestas, detectadas, avisos>>
  BY <1>1, <1>2 DEF Borra
<1>4. c \in Camaras /\ \A d \in Camaras :
        carpeta'[d] = IF d = c THEN carpeta[c] \ {m} ELSE carpeta[d]
  BY <1>2, <1>3, ElementOfSeq DEF Tipado, TipoHilos
<1>5. /\ Len(pc') = Len(pc) /\ pc'[h] = "mira"
      /\ \A k \in 1..Len(pc) : k # h => pc'[k] = pc[k] /\ mirada'[k] = mirada[k]
  <2>1. "mira" \in Pasos /\ Nadie \in Imagenes \cup {Nadie}
    BY DEF Pasos
  <2>2. QED
    BY <2>1, <1>3, SigueHilo
<1>6. Sin(i)' <=> Sin(i)
  BY <1>3 DEF Sin
<1>7. ASSUME NEW k \in 1..Len(pc'), Tiene(k, i)'
      PROVE  i \in carpeta'[camara'[k]]
  <2>1. k # h /\ k \in 1..Len(pc) /\ Tiene(k, i)
    BY <1>7, <1>5 DEF Tiene
  <2>2. camara[k] # c
    BY <2>1, <1>2, <1>3 DEF Solos, Tiene
  <2>3. camara[k] \in Camaras
    BY <2>1, ElementOfSeq DEF Tipado, TipoHilos
  <2>4. QED
    BY <2>1, <2>2, <2>3, <1>3, <1>4 DEF Imagen
<1>8. ASSUME NEW d \in Camaras, i \in carpeta'[d]
      PROVE  Vista(i, d)' \/ Sin(i)'
  <2>1. i \in carpeta[d] /\ ~(d = c /\ i = m)
    BY <1>8, <1>4
  <2>2. CASE Sin(i)
    BY <2>2, <1>6
  <2>3. CASE Vista(i, d)
    <3>1. PICK k \in 1..Len(pc) : camara[k] = d /\ pc[k] = "borra" /\ mirada[k] = i
      BY <2>3 DEF Vista
    <3>2. k # h
      BY <3>1, <2>1, <1>1, <1>2
    <3>3. QED
      BY <3>1, <3>2, <1>3, <1>5 DEF Vista
  <2>4. QED
    BY <2>1, <2>2, <2>3 DEF Imagen
<1>9. \A d \in Camaras : i \in carpeta'[d] => i \in carpeta[d]
  BY <1>4
<1>10. QED
  BY <1>3, <1>6, <1>7, <1>8, <1>9 DEF Imagen

(* What was detected is announced: it is not detected any more.            *)
LEMMA AvisaImagen ==
  ASSUME Tipado, Avisa, NEW i \in Imagenes, Imagen(i)
  PROVE  Imagen(i)'
<1>1. PICK m : m = Head(detectadas)
  OBVIOUS
<1>2. /\ detectadas # << >> /\ detectadas' = Tail(detectadas)
      /\ avisos' = avisos \/ avisos' = [avisos EXCEPT ![m] = @ + 1]
      /\ UNCHANGED <<camara, pc, mirada, carpeta, puestas>>
      /\ detectadas \in Seq(Imagenes) /\ avisos \in [Imagenes -> Nat]
  BY <1>1 DEF Avisa, hilos, Tipado
<1>3. /\ m = detectadas[1] /\ Len(detectadas) \in Nat /\ Len(detectadas) >= 1
      /\ Len(detectadas') = Len(detectadas) - 1
      /\ \A k \in 1..Len(detectadas') : detectadas'[k] = detectadas[k + 1]
  BY <1>1, <1>2, HeadTailProperties, LenProperties, EmptySeq
<1>4. \A d \in Camaras : Vista(i, d)' <=> Vista(i, d)
  BY <1>2 DEF Vista
<1>5. \A k \in 1..Len(pc') : Tiene(k, i)' => i \in carpeta'[camara'[k]]
  BY <1>2 DEF Imagen, Tiene
<1>6. \A j, k \in 1..Len(detectadas') : detectadas'[j] = i /\ detectadas'[k] = i => j = k
  <2>1. ASSUME NEW j \in 1..Len(detectadas'), NEW k \in 1..Len(detectadas'),
               detectadas'[j] = i, detectadas'[k] = i
        PROVE  j = k
    <3>1. /\ j + 1 \in 1..Len(detectadas) /\ k + 1 \in 1..Len(detectadas)
          /\ detectadas[j + 1] = i /\ detectadas[k + 1] = i
      BY <2>1, <1>3
    <3>2. j + 1 = k + 1
      BY <3>1 DEF Imagen
    <3>3. QED
      BY <3>2
  <2>2. QED
    BY <2>1
<1>7. CASE m = i
  <2>1. 1 \in 1..Len(detectadas) /\ detectadas[1] = i
    BY <1>3, <1>7
  <2>2. avisos[i] = 0 /\ ~Sin(i)
    BY <2>1 DEF Imagen, Sin
  <2>3. \A k \in 1..Len(detectadas') : detectadas'[k] # i
    <3>1. ASSUME NEW k \in 1..Len(detectadas'), detectadas'[k] = i
          PROVE  FALSE
      <4>1. k + 1 \in 1..Len(detectadas) /\ detectadas[k + 1] = i /\ k + 1 # 1
        BY <3>1, <1>3
      <4>2. QED
        BY <4>1, <2>1 DEF Imagen
    <3>2. QED
      BY <3>1
  <2>4. avisos'[i] <= 1
    BY <2>2, <1>2, <1>7
  <2>5. i \in puestas' /\ \A c \in Camaras : i \in carpeta'[c] => Vista(i, c)'
    BY <2>2, <1>2, <1>4 DEF Imagen
  <2>6. QED
    BY <2>3, <2>4, <2>5, <1>2, <1>5 DEF Imagen
<1>8. CASE m # i
  <2>1. avisos'[i] = avisos[i]
    BY <1>2, <1>8
  <2>2. \A k \in 1..Len(detectadas') : detectadas'[k] = i =>
          k + 1 \in 1..Len(detectadas) /\ detectadas[k + 1] = i
    BY <1>3
  <2>3. Sin(i) => Sin(i)'
    BY <2>1, <2>2 DEF Sin
  <2>4. (\E k \in 1..Len(detectadas') : detectadas'[k] = i) => avisos'[i] = 0
    BY <2>1, <2>2 DEF Imagen
  <2>5. \A c \in Camaras : i \in carpeta'[c] => Vista(i, c)' \/ Sin(i)'
    BY <2>3, <1>2, <1>4 DEF Imagen
  <2>6. QED
    BY <2>1, <2>3, <2>4, <2>5, <1>2, <1>5, <1>6 DEF Imagen
<1>9. QED
  BY <1>7, <1>8

(* An image comes: it was nowhere.                                         *)
LEMMA DejaImagen ==
  ASSUME Tipado, NEW j \in Imagenes, NEW c \in Camaras, Deja(j, c),
         NEW i \in Imagenes, Imagen(i)
  PROVE  Imagen(i)'
<1>1. /\ j \notin puestas /\ puestas' = puestas \cup {j}
      /\ UNCHANGED <<camara, pc, mirada, detectadas, avisos>>
      /\ \A d \in Camaras : carpeta'[d] = IF d = c THEN carpeta[d] \cup {j} ELSE carpeta[d]
  BY DEF Deja, hilos, Tipado
<1>2. /\ Sin(i)' <=> Sin(i)
      /\ \A d \in Camaras : Vista(i, d)' <=> Vista(i, d)
  BY <1>1 DEF Sin, Vista
<1>3. ASSUME NEW k \in 1..Len(pc'), Tiene(k, i)'
      PROVE  i \in carpeta'[camara'[k]]
  <2>1. k \in 1..Len(pc) /\ Tiene(k, i)
    BY <1>1, <1>3 DEF Tiene
  <2>2. i \in carpeta[camara[k]] /\ camara[k] \in Camaras
    BY <2>1, ElementOfSeq DEF Imagen, Tipado, TipoHilos
  <2>3. QED
    BY <2>2, <1>1
<1>4. \A d, e \in Camaras : i \in carpeta'[d] /\ i \in carpeta'[e] => d = e
  <2>1. CASE i = j
    <3>1. \A d \in Camaras : i \notin carpeta[d]
      BY <1>1, <2>1 DEF Imagen
    <3>2. QED
      BY <3>1, <1>1
  <2>2. CASE i # j
    <3>1. \A d \in Camaras : i \in carpeta'[d] => i \in carpeta[d]
      BY <1>1, <2>2
    <3>2. QED
      BY <3>1 DEF Imagen
  <2>3. QED
    BY <2>1, <2>2
<1>5. i \notin puestas' => Sin(i)' /\ \A d \in Camaras : i \notin carpeta'[d]
  BY <1>1, <1>2 DEF Imagen
<1>6. ASSUME NEW d \in Camaras, i \in carpeta'[d]
      PROVE  Vista(i, d)' \/ Sin(i)'
  <2>1. CASE i = j
    BY <2>1, <1>1, <1>2 DEF Imagen
  <2>2. CASE i # j
    <3>1. i \in carpeta[d]
      BY <2>2, <1>6, <1>1
    <3>2. QED
      BY <3>1, <1>2 DEF Imagen
  <2>3. QED
    BY <2>1, <2>2
<1>7. /\ (\E k \in 1..Len(detectadas') : detectadas'[k] = i) => avisos'[i] = 0
      /\ \A k, l \in 1..Len(detectadas') : detectadas'[k] = i /\ detectadas'[l] = i => k = l
      /\ avisos'[i] <= 1
  BY <1>1 DEF Imagen
<1>8. QED
  BY <1>3, <1>4, <1>5, <1>6, <1>7 DEF Imagen

(* While no camera is set to rest twice, each has one thread and each      *)
(* image one place.                                                        *)
LEMMA SigueUnicas ==
  Tipado /\ Control /\ (repetida = {} => Unicas) /\ [Next]_vars
    => (repetida' = {} => Unicas')
<1>1. SUFFICES ASSUME Tipado, Control, repetida = {} => Unicas, [Next]_vars, repetida' = {}
               PROVE  Unicas'
  OBVIOUS
<1>2. CASE \E h \in Hilos : Hilo(h)
  <2>1. PICK h \in Hilos : Hilo(h)
    BY <1>2
  <2>2. h \in 1..Len(pc) /\ (Para(h) \/ Mira(h) \/ Analiza(h) \/ Borra(h))
    BY <2>1 DEF Hilo
  <2>3. Unicas
    BY <1>1, <2>2 DEF Para, Mira, Analiza, Borra
  <2>4. Solos /\ Solos' /\ \A i \in Imagenes : Imagen(i)
    BY <1>1, <2>1, <2>3, HiloSolos DEF Unicas
  <2>5. ASSUME NEW i \in Imagenes
        PROVE  Imagen(i)'
    BY <1>1, <2>2, <2>4, MiraImagen, AnalizaImagen, BorraImagen
  <2>6. QED
    BY <2>4, <2>5 DEF Unicas
<1>3. CASE Avisa
  <2>1. Unicas /\ UNCHANGED hilos
    BY <1>1, <1>3 DEF Avisa
  <2>2. Solos'
    BY <2>1 DEF Unicas, Solos, hilos
  <2>3. \A i \in Imagenes : Imagen(i)'
    <3>1. ASSUME NEW i \in Imagenes
          PROVE  Imagen(i)'
      BY <1>1, <1>3, <2>1, AvisaImagen DEF Unicas
    <3>2. QED
      BY <3>1
  <2>4. QED
    BY <2>2, <2>3 DEF Unicas
<1>4. CASE \E c \in Camaras : Descansa(c)
  <2>1. PICK c \in Camaras : Descansa(c)
    BY <1>4
  <2>2. PICK cs : cs = IF propio[c] = Nadie THEN canal
                       ELSE [canal EXCEPT ![propio[c]] = "cerrado"]
    OBVIOUS
  <2>3. /\ cs \in Seq(Canales) /\ Len(cs) = Len(pc) /\ Lanza(c, cs) /\ UNCHANGED imagenes
        /\ tarea.tipo \in {"cancelado", "elimina"} /\ c \in tarea.resto
        /\ repetida' = IF estado[c] = "ahorro" THEN repetida \cup {c} ELSE repetida
    BY <1>1, <2>1, <2>2, DescansaCanales DEF Descansa, Control
  <2>4. repetida = {} /\ estado[c] # "ahorro" /\ Unicas
    BY <1>1, <2>3
  <2>5. estado[c] = "grabando" /\ propio[c] = Nadie
    BY <1>1, <2>3, <2>4 DEF Control, EnTarea, Propios, Existen
  <2>6. \A k \in 1..Len(pc) : camara[k] = c => pc[k] = "fin"
    BY <1>1, <2>4, <2>5 DEF Control, Sueltos, Nadie
  <2>7. QED
    BY <1>1, <2>3, <2>4, <2>6, LanzaUnicas
<1>5. CASE \E c \in Camaras : Crea(c)
  <2>1. PICK c \in Camaras : Crea(c)
    BY <1>5
  <2>2. /\ Lanza(c, canal) /\ UNCHANGED <<imagenes, repetida>>
        /\ estado[c] = "no" /\ propio[c] = Nadie
    BY <2>1 DEF Crea
  <2>3. canal \in Seq(Canales) /\ Len(canal) = Len(pc) /\ Unicas
    BY <1>1, <2>2 DEF Tipado, TipoHilos
  <2>4. \A k \in 1..Len(pc) : camara[k] = c => pc[k] = "fin"
    BY <1>1, <2>2 DEF Control, Sueltos, Nadie
  <2>5. QED
    BY <1>1, <2>2, <2>3, <2>4, LanzaUnicas
<1>6. CASE \E i \in Imagenes, c \in Camaras : Deja(i, c)
  <2>1. PICK j \in Imagenes, c \in Camaras : Deja(j, c)
    BY <1>6
  <2>2. Unicas /\ UNCHANGED hilos
    BY <1>1, <2>1 DEF Deja
  <2>3. Solos'
    BY <2>2 DEF Unicas, Solos, hilos
  <2>4. \A i \in Imagenes : Imagen(i)'
    <3>1. ASSUME NEW i \in Imagenes
          PROVE  Imagen(i)'
      BY <1>1, <2>1, <2>2, DejaImagen DEF Unicas
    <3>2. QED
      BY <3>1
  <2>5. QED
    BY <2>3, <2>4 DEF Unicas
<1>7. ASSUME UNCHANGED <<hilos, imagenes, repetida>>
      PROVE  Unicas'
  BY <1>1, <1>7, UnicasQuietas DEF hilos
<1>8. CASE Une \/ Termina \/ Inserta \/ MonitorRecibe \/ Rompe \/ UNCHANGED vars
  BY <1>7, <1>8 DEF Une, Termina, Inserta, MonitorRecibe, Rompe, vars
<1>9. CASE Quita
  BY <1>1, <1>9, UnicasQuietas DEF Quita
<1>10. CASE \E c \in Camaras : YaGraba(c) \/ Graba(c)
  BY <1>1, <1>10, UnicasQuietas DEF YaGraba, Graba, hilos
<1>11. CASE \E tipo \in {"pendiente", "cancelado"} : \E cs \in SUBSET Camaras : Recibe(tipo, cs)
  BY <1>7, <1>11 DEF Recibe, Toma
<1>12. CASE \E c \in Camaras : \E cs \in SUBSET (Camaras \ {c}) : Elimina(c, cs)
  BY <1>7, <1>12 DEF Elimina, Toma
<1>13. QED
  BY <1>1, <1>2, <1>3, <1>4, <1>5, <1>6, <1>8, <1>9, <1>10, <1>11, <1>12 DEF Next, Central

-----------------------------------------------------------------------------
(* What is on its way to the monitoring system.                            *)

(* Nothing is published, and what was said of each camera is still so.     *)
LEMMA EnCaminoQuieto ==
  ASSUME Tipado, EnCamino, UNCHANGED <<avisadas, tabla>>,
         \A c \in Camaras : Dicho(c)' = Dicho(c),
         \A c \in Camaras : estado[c] = "fuera" => estado'[c] = "fuera"
  PROVE  EnCamino'
<1>1. \A k \in 1..Len(avisadas) : Ultima(k)' <=> Ultima(k)
  BY DEF Ultima
<1>2. ASSUME NEW k \in 1..Len(avisadas'), NEW c \in Camaras, avisadas'[k].de = c
      PROVE  Orden(k, c)'
  <2>1. Orden(k, c) /\ Dicho(c)' = Dicho(c) /\ (Ultima(k)' <=> Ultima(k))
    BY <1>1, <1>2 DEF EnCamino
  <2>2. QED
    BY <2>1 DEF Orden
<1>3. QED
  BY <1>2 DEF EnCamino

(* What is published of a camera becomes the last that was.                *)
LEMMA EnCaminoPublica ==
  ASSUME Tipado, EnCamino, conexion = "viva", NEW c \in Camaras, NEW e \in Dichos,
         Publica(c, e), UNCHANGED tabla,
         Dicho(c)' = Queda(e), \A d \in Camaras : d # c => Dicho(d)' = Dicho(d),
         \A d \in Camaras : estado[d] = "fuera" => estado'[d] = "fuera",
         estado[c] # "fuera", e = "eliminado" => estado'[c] = "fuera",
         e = "grabando" => Dicho(c) # "no"
  PROVE  EnCamino'
<1>1. /\ Len(avisadas) \in Nat /\ Len(avisadas') = Len(avisadas) + 1
      /\ \A k \in 1..Len(avisadas) : avisadas'[k] = avisadas[k]
      /\ avisadas'[Len(avisadas) + 1].de = c
      /\ avisadas'[Len(avisadas) + 1].estado = e
  BY PublicaAlFinal
<1>2. \A k \in 1..Len(avisadas) : k \in 1..Len(avisadas') /\ avisadas'[k] = avisadas[k]
  BY <1>1
<1>3. ASSUME NEW k \in 1..Len(avisadas)
      PROVE  Ultima(k)' <=> Ultima(k) /\ avisadas[k].de # c
  <2>1. Ultima(k)' => Ultima(k) /\ avisadas[k].de # c
    <3>1. ASSUME Ultima(k)'
          PROVE  \A j \in (k + 1)..Len(avisadas) : avisadas[j].de # avisadas[k].de
      BY <3>1, <1>1 DEF Ultima
    <3>2. ASSUME Ultima(k)'
          PROVE  avisadas[k].de # c
      <4>1. Len(avisadas) + 1 \in (k + 1)..Len(avisadas') /\ avisadas'[k] = avisadas[k]
        BY <1>1
      <4>2. QED
        BY <3>2, <4>1, <1>1 DEF Ultima
    <3>3. QED
      BY <3>1, <3>2 DEF Ultima
  <2>2. ASSUME Ultima(k), avisadas[k].de # c, NEW j \in (k + 1)..Len(avisadas')
        PROVE  avisadas'[j].de # avisadas'[k].de
    <3>1. CASE j = Len(avisadas) + 1
      BY <2>2, <3>1, <1>1
    <3>2. CASE j # Len(avisadas) + 1
      <4>1. j \in (k + 1)..Len(avisadas) /\ j \in 1..Len(avisadas)
        BY <3>2, <1>1
      <4>2. QED
        BY <2>2, <4>1, <1>1 DEF Ultima
    <3>3. QED
      BY <3>1, <3>2
  <2>3. QED
    BY <2>1, <2>2 DEF Ultima
<1>4. ASSUME NEW k \in 1..Len(avisadas'), NEW d \in Camaras, avisadas'[k].de = d
      PROVE  Orden(k, d)'
  <2>1. CASE k \in 1..Len(avisadas)
    <3>1. Orden(k, d) /\ avisadas'[k] = avisadas[k]
      BY <2>1, <1>4, <1>1 DEF EnCamino
    <3>2. Ultima(k)' <=> Ultima(k) /\ d # c
      BY <2>1, <1>4, <1>2, <1>3
    <3>3. avisadas[k].estado = "eliminado" => Ultima(k)' /\ estado'[d] = "fuera"
      BY <3>1, <3>2 DEF Orden
    <3>4. (\E j \in 1..(k - 1) : avisadas[j].de = d) =>
             \E j \in 1..(k - 1) : avisadas'[j].de = d
      BY <2>1, <1>1
    <3>5. Ultima(k)' => Dicho(d)' = Queda(avisadas[k].estado)
      BY <3>1, <3>2 DEF Orden
    <3>6. QED
      BY <3>1, <3>3, <3>4, <3>5 DEF Orden, Queda
  <2>2. CASE k = Len(avisadas) + 1
    <3>1. d = c /\ avisadas'[k].estado = e
      BY <2>2, <1>4, <1>1
    <3>2. Ultima(k)'
      BY <2>2, <1>1 DEF Ultima
    <3>3. e = "grabando" => tabla[c] # "no" \/ \E j \in 1..Len(avisadas) : avisadas[j].de = c
      BY DEF EnCamino
    <3>4. e = "grabando" =>
            tabla'[c] # "no" \/ \E j \in 1..(k - 1) : avisadas'[j].de = c
      BY <3>3, <2>2, <1>1
    <3>5. QED
      BY <3>1, <3>2, <3>4 DEF Orden, Queda
  <2>3. QED
    BY <2>1, <2>2, <1>1
<1>5. ASSUME NEW d \in Camaras, \A k \in 1..Len(avisadas') : avisadas'[k].de # d
      PROVE  tabla'[d] = Dicho(d)'
  <2>1. d # c /\ \A k \in 1..Len(avisadas) : avisadas[k].de # d
    BY <1>5, <1>1
  <2>2. QED
    BY <2>1 DEF EnCamino
<1>6. QED
  BY <1>4, <1>5 DEF EnCamino

(* The first message arrives, whether it will come again or not.           *)
LEMMA MonitorEnCamino ==
  ASSUME Tipado, EnCamino, MonitorRecibe
  PROVE  EnCamino'
<1>1. PICK c : c = Head(avisadas).de
  OBVIOUS
<1>2. PICK e : e = Head(avisadas).estado
  OBVIOUS
<1>3. /\ avisadas # << >> /\ avisadas \in Seq([de : Camaras, estado : Dichos])
      /\ avisadas' = Tail(avisadas) \/ avisadas' = avisadas
      /\ UNCHANGED <<estado, tarea>>
  BY DEF MonitorRecibe, Tipado
<1>4. /\ Len(avisadas) \in Nat /\ 1 \in 1..Len(avisadas)
      /\ avisadas[1].de = c /\ avisadas[1].estado = e /\ c \in Camaras /\ e \in Dichos
  <2>1. Head(avisadas) \in [de : Camaras, estado : Dichos]
    BY <1>3, HeadTailProperties
  <2>2. Len(avisadas) \in Nat /\ Len(avisadas) # 0
    BY <1>3, LenProperties, EmptySeq
  <2>3. avisadas[1] = Head(avisadas)
    BY <1>3
  <2>4. QED
    BY <2>1, <2>2, <2>3, <1>1, <1>2
<1>5. Orden(1, c)
  BY <1>4 DEF EnCamino
<1>6. \A d \in Camaras : tabla'[d] = IF d = c THEN Queda(e) ELSE tabla[d]
  <2>1. tabla' = CASE e = "ahorro" -> Ahorro(c) [] e = "grabando" -> Grabando(c)
                   [] e = "eliminado" -> Eliminado(c)
    BY <1>1, <1>2 DEF MonitorRecibe
  <2>2. tabla \in [Camaras -> {"no", "ahorro", "grabando"}]
    BY DEF Tipado
  <2>3. CASE e = "ahorro"
    BY <2>1, <2>2, <2>3 DEF Ahorro, Queda
  <2>4. CASE e = "eliminado"
    BY <2>1, <2>2, <2>4 DEF Eliminado, Queda
  <2>5. CASE e = "grabando"
    <3>1. tabla[c] # "no"
      BY <2>5, <1>4, <1>5 DEF Orden
    <3>2. QED
      BY <2>1, <2>2, <2>5, <3>1 DEF Grabando, Queda
  <2>6. QED
    BY <2>3, <2>4, <2>5, <1>4 DEF Dichos
<1>7. \A d \in Camaras : Dicho(d)' = Dicho(d)
  BY <1>3 DEF Dicho, Existen
<1>8. e # "eliminado" => tabla'[c] # "no"
  BY <1>4, <1>6 DEF Queda, Dichos
<1>9. CASE avisadas' = avisadas
  <2>1. \A k \in 1..Len(avisadas) : Ultima(k)' <=> Ultima(k)
    BY <1>9 DEF Ultima
  <2>2. ASSUME NEW k \in 1..Len(avisadas'), NEW d \in Camaras, avisadas'[k].de = d
        PROVE  Orden(k, d)'
    <3>1. Orden(k, d) /\ Dicho(d)' = Dicho(d) /\ (Ultima(k)' <=> Ultima(k))
      BY <1>7, <1>9, <2>1, <2>2 DEF EnCamino
    <3>2. avisadas[k].estado = "grabando" =>
            tabla'[d] # "no" \/ \E j \in 1..(k - 1) : avisadas[j].de = d
      <4>1. CASE d # c
        BY <3>1, <4>1, <1>6 DEF Orden
      <4>2. CASE d = c /\ k = 1
        BY <4>2, <1>4, <1>8
      <4>3. CASE d = c /\ k # 1
        BY <4>3, <1>4
      <4>4. QED
        BY <4>1, <4>2, <4>3
    <3>3. QED
      BY <3>1, <3>2, <1>3, <1>9 DEF Orden
  <2>3. ASSUME NEW d \in Camaras, \A k \in 1..Len(avisadas') : avisadas'[k].de # d
        PROVE  tabla'[d] = Dicho(d)'
    <3>1. d # c
      BY <2>3, <1>4, <1>9
    <3>2. QED
      BY <3>1, <2>3, <1>6, <1>7, <1>9 DEF EnCamino
  <2>4. QED
    BY <2>2, <2>3 DEF EnCamino
<1>10. CASE avisadas' = Tail(avisadas)
  <2>1. /\ Len(avisadas') = Len(avisadas) - 1
        /\ \A k \in 1..Len(avisadas') : avisadas'[k] = avisadas[k + 1]
    BY <1>3, <1>10, HeadTailProperties
  <2>2. ASSUME NEW k \in 1..Len(avisadas')
        PROVE  Ultima(k)' <=> Ultima(k + 1)
    <3>1. ASSUME Ultima(k)', NEW j \in (k + 2)..Len(avisadas)
          PROVE  avisadas[j].de # avisadas[k + 1].de
      <4>1. /\ j - 1 \in (k + 1)..Len(avisadas') /\ avisadas'[j - 1] = avisadas[j]
            /\ avisadas'[k] = avisadas[k + 1]
        BY <2>1, <1>4
      <4>2. QED
        BY <3>1, <4>1 DEF Ultima
    <3>2. ASSUME Ultima(k + 1), NEW j \in (k + 1)..Len(avisadas')
          PROVE  avisadas'[j].de # avisadas'[k].de
      <4>1. /\ j + 1 \in ((k + 1) + 1)..Len(avisadas) /\ avisadas'[j] = avisadas[j + 1]
            /\ avisadas'[k] = avisadas[k + 1]
        BY <2>1, <1>4
      <4>2. QED
        BY <3>2, <4>1 DEF Ultima
    <3>3. QED
      BY <3>1, <3>2, <1>4 DEF Ultima
  <2>3. ASSUME NEW k \in 1..Len(avisadas'), NEW d \in Camaras, avisadas'[k].de = d
        PROVE  Orden(k, d)'
    <3>1. /\ k + 1 \in 1..Len(avisadas) /\ avisadas'[k] = avisadas[k + 1]
          /\ k + 1 \in (1 + 1)..Len(avisadas)
      BY <2>1, <1>4
    <3>2. Orden(k + 1, d) /\ Dicho(d)' = Dicho(d) /\ (Ultima(k)' <=> Ultima(k + 1))
      BY <1>7, <2>2, <2>3, <3>1 DEF EnCamino
    <3>3. avisadas'[k].estado = "grabando" =>
            tabla'[d] # "no" \/ \E j \in 1..(k - 1) : avisadas'[j].de = d
      <4>1. CASE d = c
        <5>1. ~Ultima(1)
          BY <4>1, <2>3, <3>1, <1>4 DEF Ultima
        <5>2. QED
          BY <4>1, <5>1, <1>5, <1>8, <1>4 DEF Orden
      <4>2. CASE d # c
        <5>1. ASSUME NEW j \in 1..((k + 1) - 1), avisadas[j].de = d
              PROVE  \E l \in 1..(k - 1) : avisadas'[l].de = d
          <6>1. j # 1
            BY <4>2, <5>1, <1>4
          <6>2. j - 1 \in 1..(k - 1) /\ j - 1 \in 1..Len(avisadas')
            BY <6>1, <3>1, <2>1
          <6>3. avisadas'[j - 1] = avisadas[j]
            BY <6>2, <2>1
          <6>4. QED
            BY <5>1, <6>2, <6>3
        <5>2. QED
          BY <4>2, <5>1, <3>1, <3>2, <1>6 DEF Orden
      <4>3. QED
        BY <4>1, <4>2
    <3>4. QED
      BY <3>1, <3>2, <3>3, <1>3 DEF Orden
  <2>4. ASSUME NEW d \in Camaras, \A k \in 1..Len(avisadas') : avisadas'[k].de # d
        PROVE  tabla'[d] = Dicho(d)'
    <3>1. ASSUME NEW j \in 2..Len(avisadas)
          PROVE  avisadas[j].de # d
      <4>1. j - 1 \in 1..Len(avisadas') /\ avisadas'[j - 1] = avisadas[j]
        BY <2>1, <1>4
      <4>2. QED
        BY <4>1, <2>4
    <3>2. CASE d = c
      <4>1. Ultima(1)
        BY <3>1, <3>2, <1>4 DEF Ultima
      <4>2. Dicho(c) = Queda(e)
        BY <4>1, <1>4, <1>5 DEF Orden
      <4>3. QED
        BY <3>2, <4>2, <1>6, <1>7
    <3>3. CASE d # c
      <4>1. \A j \in 1..Len(avisadas) : avisadas[j].de # d
        BY <3>1, <3>3, <1>4
      <4>2. QED
        BY <3>3, <4>1, <1>6, <1>7 DEF EnCamino
    <3>4. QED
      BY <3>2, <3>3
  <2>5. QED
    BY <2>3, <2>4 DEF EnCamino
<1>11. QED
  BY <1>3, <1>9, <1>10

(* Steps that publish nothing.                                             *)
LEMMA AnunciadoQuieto ==
  ASSUME Tipado, Anunciado, UNCHANGED <<avisadas, tabla, ventana, conexion>>,
         \A c \in Camaras : Dicho(c)' = Dicho(c),
         \A c \in Camaras : estado[c] = "fuera" => estado'[c] = "fuera",
         Existen' = Existen
  PROVE  Anunciado'
<1>1. EnCamino => EnCamino'
  BY EnCaminoQuieto
<1>2. QED
  BY <1>1 DEF Anunciado

LEMMA CalladoQuieto ==
  ASSUME Tipado, Anunciado, UNCHANGED <<estado, avisadas, tabla, ventana, conexion>>,
         tarea' = tarea \/ (~tarea.espera /\ ~tarea'.espera)
  PROVE  Anunciado'
<1>1. Existen' = Existen
  BY DEF Existen
<1>2. \A c \in Camaras : Dicho(c)' = Dicho(c)
  BY <1>1 DEF Dicho
<1>3. QED
  BY <1>1, <1>2, AnunciadoQuieto

(* Until the thread has ended, that it records was not said.               *)
LEMMA GrabaAnunciado ==
  ASSUME Tipado, Anunciado, NEW c \in Camaras, Graba(c)
  PROVE  Anunciado'
<1>1. /\ ~tarea.espera /\ estado[c] = "ahorro"
      /\ tarea' = [tarea EXCEPT !.espera = TRUE, !.c = c]
      /\ UNCHANGED <<avisadas, tabla, ventana, conexion>>
      /\ \A d \in Camaras : estado'[d] = IF d = c THEN "grabando" ELSE estado[d]
  BY DEF Graba, Tipado
<1>2. tarea'.espera /\ tarea'.c = c
  BY <1>1 DEF Tipado, Tareas
<1>3. Existen' = Existen
  BY <1>1 DEF Existen
<1>4. \A d \in Camaras : Dicho(d)' = Dicho(d)
  BY <1>1, <1>2, <1>3 DEF Dicho, Existen
<1>5. QED
  BY <1>1, <1>3, <1>4, AnunciadoQuieto

(* The four steps that publish.                                            *)
LEMMA UneAnunciado ==
  ASSUME Tipado, Control, Anunciado, Une
  PROVE  Anunciado'
<1>1. PICK c : c = tarea.c
  OBVIOUS
<1>2. /\ c \in Camaras /\ estado[c] = "grabando" /\ tarea.espera
      /\ Publica(c, "grabando") /\ tarea' = Hecha(c)
      /\ UNCHANGED <<estado, tabla, ventana, conexion>>
  BY <1>1 DEF Une, Control, EnTarea
<1>3. tarea'.espera = FALSE
  BY <1>2, TareaHecha DEF Tipado
<1>4. Existen' = Existen
  BY <1>2 DEF Existen
<1>5. /\ Dicho(c)' = Queda("grabando") /\ Dicho(c) # "no"
      /\ \A d \in Camaras : d # c => Dicho(d)' = Dicho(d)
  BY <1>1, <1>2, <1>3, <1>4 DEF Dicho, Existen, Queda
<1>6. conexion = "viva" /\ EnCamino => EnCamino'
  BY <1>2, <1>5, EnCaminoPublica DEF Dichos
<1>7. QED
  BY <1>2, <1>4, <1>6 DEF Anunciado

LEMMA DescansaAnunciado ==
  ASSUME Tipado, Control, Anunciado, NEW c \in Camaras, Descansa(c)
  PROVE  Anunciado'
<1>1. /\ c \in Existen /\ ~tarea.espera /\ tarea' = Hecha(c)
      /\ Publica(c, "ahorro") /\ UNCHANGED <<tabla, ventana, conexion>>
      /\ \A d \in Camaras : estado'[d] = IF d = c THEN "ahorro" ELSE estado[d]
  BY DEF Descansa, Control, EnTarea, Tipado
<1>2. tarea'.espera = FALSE
  BY <1>1, TareaHecha DEF Tipado
<1>3. Existen' = Existen /\ estado[c] # "fuera"
  BY <1>1 DEF Existen
<1>4. /\ Dicho(c)' = Queda("ahorro")
      /\ \A d \in Camaras : d # c => Dicho(d)' = Dicho(d)
  BY <1>1, <1>2, <1>3 DEF Dicho, Queda
<1>5. conexion = "viva" /\ EnCamino => EnCamino'
  BY <1>1, <1>3, <1>4, EnCaminoPublica DEF Dichos
<1>6. QED
  BY <1>1, <1>3, <1>5 DEF Anunciado

LEMMA QuitaAnunciado ==
  ASSUME Tipado, Control, Anunciado, Quita
  PROVE  Anunciado'
<1>1. PICK c : c = tarea.c
  OBVIOUS
<1>2. /\ c \in Existen /\ ~tarea.espera /\ tarea' = Libre
      /\ Publica(c, "eliminado") /\ UNCHANGED <<tabla, conexion>>
      /\ ventana' = IF conexion = "viva" THEN ventana \ {c} ELSE ventana
      /\ \A d \in Camaras : estado'[d] = IF d = c THEN "fuera" ELSE estado[d]
  BY <1>1 DEF Quita, Oculta, Control, EnTarea, Tipado
<1>3. ~tarea'.espera
  BY <1>2 DEF Libre, Tarea
<1>4. c \in Camaras /\ estado[c] # "fuera" /\ estado'[c] = "fuera" /\ Existen' = Existen \ {c}
  BY <1>2 DEF Existen
<1>5. /\ Dicho(c)' = Queda("eliminado")
      /\ \A d \in Camaras : d # c => Dicho(d)' = Dicho(d)
  BY <1>2, <1>3, <1>4 DEF Dicho, Queda
<1>6. conexion = "viva" /\ EnCamino => EnCamino'
  BY <1>2, <1>4, <1>5, EnCaminoPublica DEF Dichos
<1>7. QED
  BY <1>2, <1>4, <1>6 DEF Anunciado

LEMMA InsertaAnunciado ==
  ASSUME Tipado, Control, Anunciado, Inserta
  PROVE  Anunciado'
<1>1. PICK c : c = nueva
  OBVIOUS
<1>2. /\ c \in Camaras /\ estado[c] = "no" /\ ~tarea.espera
      /\ Publica(c, "ahorro") /\ UNCHANGED <<tarea, tabla, conexion>>
      /\ ventana' = IF conexion = "viva" THEN ventana \cup {c} ELSE ventana
      /\ \A d \in Camaras : estado'[d] = IF d = c THEN "ahorro" ELSE estado[d]
  BY <1>1 DEF Inserta, Muestra, Control, EnTarea, Tipado, Libre, Tarea
<1>3. Existen' = Existen \cup {c}
  BY <1>2 DEF Existen
<1>4. /\ Dicho(c)' = Queda("ahorro")
      /\ \A d \in Camaras : d # c => Dicho(d)' = Dicho(d)
  BY <1>2, <1>3 DEF Dicho, Queda
<1>5. conexion = "viva" /\ EnCamino => EnCamino'
  BY <1>2, <1>4, EnCaminoPublica DEF Dichos
<1>6. QED
  BY <1>2, <1>3, <1>5 DEF Anunciado

LEMMA SigueAnunciado == Tipado /\ Control /\ Anunciado /\ [Next]_vars => Anunciado'
<1>1. SUFFICES ASSUME Tipado, Control, Anunciado, [Next]_vars
               PROVE  Anunciado'
  OBVIOUS
<1>2. CASE \E h \in Hilos : Hilo(h)
  <2>1. PICK h \in Hilos : Hilo(h)
    BY <1>2
  <2>2. UNCHANGED <<estado, avisadas, tabla, ventana, conexion, tarea>>
    BY <2>1 DEF Hilo, Para, Mira, Analiza, Borra, delCentral
  <2>3. QED
    BY <1>1, <2>2, CalladoQuieto
<1>3. CASE Avisa \/ (\E i \in Imagenes, c \in Camaras : Deja(i, c))
          \/ (\E c \in Camaras : Crea(c)) \/ UNCHANGED vars
  <2>1. UNCHANGED <<estado, avisadas, tabla, ventana, conexion, tarea>>
    BY <1>3 DEF Avisa, Deja, Crea, vars, delCentral
  <2>2. QED
    BY <1>1, <2>1, CalladoQuieto
<1>4. CASE \E c \in Camaras : YaGraba(c)
  <2>1. PICK c \in Camaras : YaGraba(c)
    BY <1>4
  <2>2. tarea' = Hecha(c) /\ ~tarea.espera
        /\ UNCHANGED <<estado, avisadas, tabla, ventana, conexion>>
    BY <2>1 DEF YaGraba
  <2>3. ~tarea'.espera
    BY <1>1, <2>2, TareaHecha DEF Tipado
  <2>4. QED
    BY <1>1, <2>2, <2>3, CalladoQuieto
<1>5. CASE Termina
  BY <1>1, <1>5, CalladoQuieto DEF Termina, Libre, Tarea
<1>6. ASSUME NEW tipo, NEW cs, NEW c, Toma(Tarea(tipo, cs, c))
      PROVE  Anunciado'
  BY <1>1, <1>6, CalladoQuieto DEF Toma, Libre, Tarea
<1>7. CASE \E tipo \in {"pendiente", "cancelado"} : \E cs \in SUBSET Camaras : Recibe(tipo, cs)
  BY <1>6, <1>7 DEF Recibe
<1>8. CASE \E c \in Camaras : \E cs \in SUBSET (Camaras \ {c}) : Elimina(c, cs)
  BY <1>6, <1>8 DEF Elimina
<1>9. CASE MonitorRecibe
  <2>1. UNCHANGED <<estado, ventana, conexion>>
    BY <1>9 DEF MonitorRecibe
  <2>2. Existen' = Existen
    BY <2>1 DEF Existen
  <2>3. QED
    BY <1>1, <1>9, <2>1, <2>2, MonitorEnCamino DEF Anunciado
<1>10. CASE Rompe
  BY <1>10 DEF Rompe, Anunciado
<1>11. CASE Une \/ Quita \/ Inserta \/ \E c \in Camaras : Graba(c) \/ Descansa(c)
  BY <1>1, <1>11, UneAnunciado, QuitaAnunciado, InsertaAnunciado, GrabaAnunciado,
     DescansaAnunciado
<1>12. QED
  BY <1>1, <1>2, <1>3, <1>4, <1>5, <1>7, <1>8, <1>9, <1>10, <1>11
     DEF Next, Central

-----------------------------------------------------------------------------
(* The theorems                                                            *)

LEMMA InitInv == Init => Inv
<1>1. SUFFICES ASSUME Init
               PROVE  Inv
  OBVIOUS
<1>2. Tipado /\ Control
  BY <1>1, InitTipado, InitControl
<1>3. Unicas
  <2>1. /\ pc = << >> /\ detectadas = << >> /\ avisos = [i \in Imagenes |-> 0]
        /\ carpeta = [c \in Camaras |-> {}]
    BY <1>1 DEF Init
  <2>2. Solos
    BY <2>1 DEF Solos
  <2>3. ASSUME NEW i \in Imagenes
        PROVE  Imagen(i)
    BY <2>1 DEF Imagen, Sin
  <2>4. QED
    BY <2>2, <2>3 DEF Unicas
<1>4. Anunciado
  <2>1. Existen = {} /\ ventana = {} /\ tarea = Libre
    BY <1>1 DEF Init, Existen
  <2>2. avisadas = << >> /\ tabla = [c \in Camaras |-> "no"]
    BY <1>1 DEF Init
  <2>3. \A c \in Camaras : Dicho(c) = "no"
    BY <2>1 DEF Dicho, Libre, Tarea
  <2>4. EnCamino
    BY <2>2, <2>3 DEF EnCamino
  <2>5. QED
    BY <2>1, <2>4 DEF Anunciado
<1>5. QED
  BY <1>2, <1>3, <1>4 DEF Inv, Control

LEMMA SigueInv == Inv /\ [Next]_vars => Inv'
<1>1. SUFFICES ASSUME Inv, [Next]_vars
               PROVE  Inv'
  OBVIOUS
<1>2. Tipado /\ Control /\ (repetida = {} => Unicas) /\ Anunciado
  BY <1>1 DEF Inv, Control
<1>3. Tipado'
  BY <1>1, <1>2, SigueTipado DEF Control
<1>4. Control'
  BY <1>1, <1>2, SigueControl
<1>5. repetida' = {} => Unicas'
  BY <1>1, <1>2, SigueUnicas
<1>6. Anunciado'
  BY <1>1, <1>2, SigueAnunciado
<1>7. QED
  BY <1>3, <1>4, <1>5, <1>6 DEF Inv, Control

LEMMA InvSiempre == Spec => []Inv
  BY InitInv, SigueInv, PTL DEF Spec

(* A thread that looks at images belongs to a camera that rests, or was    *)
(* removed, or is being waited for, unless its camera was set to rest      *)
(* twice; and an image is in one folder and in the hands of one thread, so *)
(* analyze_and_publish (camara.rs) announces none twice.                   *)
THEOREM SinDobleDeteccionSiempre == Spec => []SinDobleDeteccion
<1>1. Inv => SinDobleDeteccion
  <2>1. SUFFICES ASSUME Inv
                 PROVE  SinDobleDeteccion
    OBVIOUS
  <2>2. ASSUME NEW h \in Hilos, Trabaja(h), estado[camara[h]] = "grabando"
        PROVE  (tarea.espera /\ tarea.c = camara[h]) \/ camara[h] \in repetida
    <3>1. h \in 1..Len(pc) /\ pc[h] # "fin" /\ camara[h] \in Camaras
      BY <2>1, <2>2, ElementOfSeq DEF Trabaja, Inv, Tipado, TipoHilos
    <3>2. camara[h] \in repetida \/ propio[camara[h]] = h
      BY <2>1, <2>2, <3>1 DEF Inv, Sueltos
    <3>3. QED
      BY <2>1, <2>2, <3>1, <3>2 DEF Inv, Propios, Nadie
  <2>3. repetida = {} => \A i \in Imagenes : avisos[i] <= 1
    BY <2>1 DEF Inv, Unicas, Imagen
  <2>4. QED
    BY <2>2, <2>3 DEF SinDobleDeteccion
<1>2. QED
  BY <1>1, InvSiempre, PTL

(* Once what the central published has arrived, in order but perhaps twice *)
(* (sistema_monitoreo.rs), the table of the monitoring system says of each *)
(* camera what the central knows, and so does the window.                  *)
THEOREM EstadoAnunciadoSiempre == Spec => []EstadoAnunciado
<1>1. Inv => EstadoAnunciado
  <2>1. SUFFICES ASSUME Inv, tarea = Libre, conexion = "viva", avisadas = << >>
                 PROVE  /\ \A c \in Camaras :
                             tabla[c] = IF c \in Existen THEN estado[c] ELSE "no"
                        /\ ventana = Existen
    BY DEF EstadoAnunciado
  <2>2. ventana = Existen /\ EnCamino
    BY <2>1 DEF Inv, Anunciado
  <2>3. ~tarea.espera
    BY <2>1 DEF Libre, Tarea
  <2>4. \A c \in Camaras : tabla[c] = Dicho(c)
    BY <2>1, <2>2 DEF EnCamino
  <2>5. QED
    BY <2>2, <2>3, <2>4 DEF Dicho
<1>2. QED
  BY <1>1, InvSiempre, PTL
=============================================================================
