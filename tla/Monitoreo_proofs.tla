-------------------------- MODULE Monitoreo_proofs --------------------------
(* Proofs about Monitoreo, for every number of drones, of incidents and of *)
(* messages.                                                               *)
EXTENDS Monitoreo, SequenceTheorems, TLAPS

Estados == {"pendiente", "activo", "cancelado"}
Avisos == [id : Ids, estado : Estados]

Tipado ==
  /\ lista \in [Ids -> {"nunca", "pendiente", "activo", "cancelado", "quitado"}]
  /\ DOMAIN hash \subseteq Ids
  /\ id_count \in 0..MaxIncidentes
  /\ candado \in [Candados -> {"libre", "dron", "ia", "resolutor"}]
  /\ dron \in {Espera} \cup
       [fase : {"quiereHash", "quiereCliente", "publica", "activa"},
        id : Ids, d : Drones]
  /\ ia \in {Espera} \cup [fase : {"publica", "inserta", "anota"}, id : Ids]
  /\ ui \in {Espera} \cup
       [fase : {"publica", "inserta", "anota", "quita", "cancela"}, id : Ids]
  /\ cierra \in {Espera} \cup [fase : {"quita", "publica"}, id : Ids]
  /\ resolutores \in [Ids -> Nat]
  /\ publicado \in Seq(Avisos)
  /\ mensajes \in 0..MaxMensajes

(* The drones of an incident, as TypeOK has them.                          *)
DosDrones ==
  \A id \in DOMAIN hash :
    /\ hash[id] \in Seq(Drones) /\ Len(hash[id]) <= 2
    /\ IsInjective(hash[id])

(* A message leaves one thread at most.                                    *)
Contados ==
  \A id \in Ids :
    resolutores[id] + (IF dron.fase = "espera" THEN 0 ELSE 1) <= mensajes

(* Who holds each mutex is told by where the threads are.                  *)
Duenios ==
  /\ candado["cliente"] = "dron" <=> dron.fase = "publica"
  /\ candado["cliente"] = "ia" <=> ia.fase \in {"inserta", "anota"}
  /\ candado["cliente"] = "resolutor" <=> cierra.fase # "espera"
  /\ candado["id_count"] = "ia" <=> ia.fase # "espera"
  /\ candado["hash"] = "dron" <=> dron.fase \in {"quiereCliente", "publica", "activa"}

Dicho(id, e) == \E i \in 1..Len(publicado) : publicado[i] = [id |-> id, estado |-> e]
Anunciado(id) == \E e \in Estados : Dicho(id, e)

(* Nobody has said anything of an id that is still to be given, but for    *)
(* the detector's callback, which counts it last.                          *)
Frescos ==
  /\ ia.fase # "espera" => ia.id = id_count
  /\ \A id \in Ids : id >= id_count =>
       /\ lista[id] # "nunca" => ia.fase = "anota" /\ ia.id = id
       /\ Anunciado(id) => ia.fase \in {"inserta", "anota"} /\ ia.id = id

(* What each thread knows of its incident while the others go on.          *)
EnSuSitio ==
  /\ ui.fase = "publica" => ~Anunciado(ui.id)
  /\ ui.fase \in {"publica", "inserta"} =>
       ui.id < id_count /\ lista[ui.id] = "nunca"
  /\ ui.fase \in {"quita", "cancela"} => lista[ui.id] = "quitado"
  /\ dron.fase \in {"publica", "activa"} => lista[dron.id] \in {"cancelado", "quitado"}
  /\ \A id \in Ids : resolutores[id] > 0 => lista[id] # "nunca"
  /\ cierra.fase = "quita" => lista[cierra.id] # "nunca"
  /\ cierra.fase = "publica" => lista[cierra.id] = "quitado"

(* An incident was announced before it entered the list, unless the        *)
(* connection broke; it left the list before it is said to be cancelled,   *)
(* and a drone that is about to say that it is active excludes that.       *)
Anuncios ==
  /\ conexion \in {"viva", "rota"}
  /\ conexion = "viva" =>
       /\ \A id \in Ids : lista[id] # "nunca" => Anunciado(id)
       /\ ia.fase \in {"inserta", "anota"} => Anunciado(ia.id)
       /\ ui.fase = "inserta" => Anunciado(ui.id)
  /\ \A id \in Ids : Dicho(id, "cancelado") =>
       lista[id] = "quitado" /\ ~(dron.fase = "publica" /\ dron.id = id)

(* OrdenPublicado, told by the places of the announcements.                *)
OrdenPorLugar ==
  \A j \in 1..Len(publicado) :
    /\ publicado[j].estado = "pendiente" <=>
         \A i \in 1..(j - 1) : publicado[i].id # publicado[j].id
    /\ publicado[j].estado = "activo" =>
         \A i \in 1..(j - 1) : publicado[i].id = publicado[j].id =>
                               publicado[i].estado # "cancelado"

Inv ==
  /\ Tipado /\ DosDrones /\ Contados /\ Duenios /\ Frescos /\ EnSuSitio
  /\ Anuncios /\ CanceladoEsDePaso /\ OrdenPorLugar
-----------------------------------------------------------------------------
LEMMA InitInv == Init => Inv
<1>1. SUFFICES ASSUME Init
               PROVE  Inv
  OBVIOUS
<1>2. \A id, e : ~Dicho(id, e)
  BY <1>1 DEF Init, Dicho
<1>3. \A id : ~Anunciado(id)
  BY <1>2 DEF Anunciado
<1>4. Tipado
  BY <1>1, MonitoreoAssumption DEF Init, Tipado, Ids
<1>5. QED
  BY <1>1, <1>2, <1>3, <1>4, MonitoreoAssumption
  DEF Init, Inv, DosDrones, Contados, Duenios, Frescos, EnSuSitio, Anuncios,
      CanceladoEsDePaso, OrdenPorLugar, Espera, Candados, Ids

(* What is said and what is not, when nothing is published.                *)
LEMMA Callado ==
  ASSUME publicado' = publicado, OrdenPorLugar
  PROVE  /\ \A id, e : Dicho(id, e)' <=> Dicho(id, e)
         /\ \A id : Anunciado(id)' <=> Anunciado(id)
         /\ OrdenPorLugar'
  BY DEF Dicho, Anunciado, OrdenPorLugar

(* And when it is: only a live connection adds an announcement, and what   *)
(* has to be true of it is that it makes sense after the earlier ones.     *)
LEMMA EscribeAviso ==
  ASSUME Tipado, OrdenPorLugar, conexion \in {"viva", "rota"},
         NEW id \in Ids, NEW e \in Estados, Escribe(id, e),
         conexion = "viva" =>
           /\ e = "pendiente" <=> ~Anunciado(id)
           /\ e = "activo" => ~Dicho(id, "cancelado")
  PROVE  /\ publicado' \in Seq(Avisos)
         /\ OrdenPorLugar'
         /\ \A x, y : Dicho(x, y) => Dicho(x, y)'
         /\ \A x : Anunciado(x) => Anunciado(x)'
         /\ \A x, y : Dicho(x, y)' => Dicho(x, y) \/ (x = id /\ y = e)
         /\ \A x : Anunciado(x)' => Anunciado(x) \/ x = id
         /\ conexion = "viva" => Anunciado(id)'
<1>1. CASE conexion = "rota"
  BY <1>1, Callado DEF Escribe, Tipado
<1>2. CASE conexion = "viva"
  <2> DEFINE a == [id |-> id, estado |-> e]
             l == Len(publicado)
  <2>1. a \in Avisos /\ publicado' = Append(publicado, a)
    BY <1>2 DEF Escribe, Avisos
  <2>2. /\ publicado' \in Seq(Avisos) /\ l \in Nat /\ Len(publicado') = l + 1
        /\ \A i \in 1..l : publicado'[i] = publicado[i]
        /\ publicado'[l + 1] = a
        /\ \A i \in 1..l : publicado[i] \in Avisos
    BY <2>1, AppendProperties DEF Tipado
  <2>3. a.id = id /\ a.estado = e
    OBVIOUS
  <2>4. /\ \A x, y : Dicho(x, y) => Dicho(x, y)'
        /\ \A x, y : Dicho(x, y)' => Dicho(x, y) \/ (x = id /\ y = e)
        /\ Dicho(id, e)'
    BY <2>2 DEF Dicho
  <2>5. \A i \in 1..l : publicado[i].id = id =>
          publicado[i].estado \in Estados /\ Dicho(id, publicado[i].estado)
    <3>1. \A i \in 1..l : /\ publicado[i].estado \in Estados
                         /\ publicado[i] = [id |-> publicado[i].id,
                                           estado |-> publicado[i].estado]
      BY <2>2 DEF Avisos
    <3>2. QED
      BY <3>1 DEF Dicho
  <2>6. /\ e = "pendiente" <=> \A i \in 1..l : publicado[i].id # id
        /\ e = "activo" => \A i \in 1..l : publicado[i].id = id =>
                                            publicado[i].estado # "cancelado"
    <3>1. \A y : Dicho(id, y) => \E i \in 1..l : publicado[i].id = id
      BY DEF Dicho
    <3>2. QED
      BY <2>5, <3>1, <1>2 DEF Anunciado
  <2>7. OrdenPorLugar'
    <3>1. SUFFICES ASSUME NEW j \in 1..Len(publicado')
                   PROVE  /\ publicado'[j].estado = "pendiente" <=>
                               \A i \in 1..(j - 1) : publicado'[i].id # publicado'[j].id
                          /\ publicado'[j].estado = "activo" =>
                               \A i \in 1..(j - 1) :
                                 publicado'[i].id = publicado'[j].id =>
                                   publicado'[i].estado # "cancelado"
      BY DEF OrdenPorLugar
    <3>2. \A i \in 1..(j - 1) : i \in 1..l /\ publicado'[i] = publicado[i]
      BY <2>2
    <3>3. CASE j \in 1..l
      <4>1. publicado'[j] = publicado[j]
        BY <3>3, <2>2
      <4>2. /\ publicado[j].estado = "pendiente" <=>
                  \A i \in 1..(j - 1) : publicado[i].id # publicado[j].id
            /\ publicado[j].estado = "activo" =>
                  \A i \in 1..(j - 1) : publicado[i].id = publicado[j].id =>
                                         publicado[i].estado # "cancelado"
        BY <3>3 DEF OrdenPorLugar
      <4>3. QED
        BY <3>2, <4>1, <4>2
    <3>4. CASE j = l + 1
      <4>1. j - 1 = l /\ publicado'[j].id = id /\ publicado'[j].estado = e
        BY <3>4, <2>2, <2>3
      <4> HIDE DEF l, a
      <4>2. QED
        BY <4>1, <3>2, <2>6
    <3>5. QED
      BY <3>3, <3>4, <2>2
  <2>8. QED
    BY <2>2, <2>4, <2>7 DEF Anunciado
<1>3. QED
  BY <1>1, <1>2

-----------------------------------------------------------------------------
(* The actions                                                             *)

LEMMA RompeInv ==
  ASSUME Inv, Rompe
  PROVE  Inv'
<1>1. /\ \A x, y : Dicho(x, y)' <=> Dicho(x, y)
      /\ \A x : Anunciado(x)' <=> Anunciado(x)
      /\ OrdenPorLugar'
  BY Callado DEF Inv, Rompe, tablas, hilos
<1>2. Tipado'
  BY DEF Inv, Tipado, DosDrones, Contados, Rompe, tablas, hilos
<1>3. DosDrones'
  BY DEF Inv, Tipado, DosDrones, Rompe, tablas
<1>4. Contados'
  BY DEF Inv, Tipado, Contados, Rompe, hilos
<1>5. Duenios'
  BY DEF Inv, Tipado, Duenios, Rompe, hilos
<1>6. Frescos'
  BY <1>1
  DEF Inv, Tipado, Duenios, Frescos, EnSuSitio, CanceladoEsDePaso, Rompe,
      tablas, hilos
<1>7. EnSuSitio'
  BY <1>1
  DEF Inv, Tipado, Duenios, Frescos, EnSuSitio, CanceladoEsDePaso, Rompe,
      tablas, hilos
<1>8. Anuncios'
  BY <1>1
  DEF Inv, Tipado, Duenios, Frescos, EnSuSitio, Anuncios, CanceladoEsDePaso,
      Rompe, tablas, hilos
<1>9. CanceladoEsDePaso'
  BY DEF Inv, Tipado, EnSuSitio, CanceladoEsDePaso, Rompe, tablas, hilos
<1>10. QED
  BY <1>1, <1>2, <1>3, <1>4, <1>5, <1>6, <1>7, <1>8, <1>9 DEF Inv


LEMMA DronLlegaInv ==
  ASSUME Inv, NEW d \in Drones, NEW id \in Ids, DronLlega(d, id)
  PROVE  Inv'
<1>1. /\ \A x, y : Dicho(x, y)' <=> Dicho(x, y)
      /\ \A x : Anunciado(x)' <=> Anunciado(x)
      /\ OrdenPorLugar'
  BY Callado DEF Inv, DronLlega, tablas, hilos
<1>2. Tipado'
  BY MonitoreoAssumption DEF Inv, Tipado, DosDrones, Contados, DronLlega, tablas
<1>3. DosDrones'
  BY DEF Inv, Tipado, DosDrones, DronLlega, tablas
<1>4. Contados'
  BY DEF Inv, Tipado, Contados, DronLlega
<1>5. Duenios'
  BY DEF Inv, Duenios, DronLlega, Espera
<1>6. Frescos'
  BY <1>1
  DEF Inv, Tipado, Duenios, Frescos, EnSuSitio, CanceladoEsDePaso, DronLlega,
      tablas
<1>7. EnSuSitio'
  BY <1>1
  DEF Inv, Tipado, Duenios, Frescos, EnSuSitio, CanceladoEsDePaso, DronLlega,
      tablas
<1>8. Anuncios'
  BY <1>1
  DEF Inv, Tipado, Duenios, Frescos, EnSuSitio, Anuncios, CanceladoEsDePaso,
      DronLlega, tablas
<1>9. CanceladoEsDePaso'
  BY DEF Inv, Tipado, EnSuSitio, CanceladoEsDePaso, DronLlega, tablas, Espera
<1>10. QED
  BY <1>1, <1>2, <1>3, <1>4, <1>5, <1>6, <1>7, <1>8, <1>9 DEF Inv


LEMMA DronTomaHashInv ==
  ASSUME Inv, DronTomaHash
  PROVE  Inv'
<1>1. /\ \A x, y : Dicho(x, y)' <=> Dicho(x, y)
      /\ \A x : Anunciado(x)' <=> Anunciado(x)
      /\ OrdenPorLugar'
  BY Callado DEF Inv, DronTomaHash, tablas, hilos, Toma
<1>2. Tipado'
  <2>1. dron \in [fase : {"quiereHash", "quiereCliente", "publica", "activa"},
                  id : Ids, d : Drones]
    BY DEF Inv, Tipado, DronTomaHash, Espera
  <2>2. dron' \in [fase : {"quiereHash", "quiereCliente", "publica", "activa"},
                   id : Ids, d : Drones]
    BY <2>1 DEF DronTomaHash
  <2>3. QED
    BY <2>2 DEF Inv, Tipado, DronTomaHash, tablas, Toma, Candados
<1>3. DosDrones'
  BY DEF Inv, Tipado, DosDrones, DronTomaHash, tablas
<1>4. Contados'
  BY DEF Inv, Contados, DronTomaHash
<1>5. Duenios'
  BY DEF Inv, Tipado, Duenios, DronTomaHash, Candados, Toma
<1>6. Frescos'
  BY <1>1
  DEF Inv, Tipado, Duenios, Frescos, EnSuSitio, CanceladoEsDePaso, DronTomaHash,
      tablas
<1>7. EnSuSitio'
  BY <1>1
  DEF Inv, Tipado, Duenios, Frescos, EnSuSitio, CanceladoEsDePaso, DronTomaHash,
      tablas
<1>8. Anuncios'
  BY <1>1
  DEF Inv, Tipado, Duenios, Frescos, EnSuSitio, Anuncios, CanceladoEsDePaso,
      DronTomaHash, tablas
<1>9. CanceladoEsDePaso'
  BY DEF Inv, Tipado, EnSuSitio, CanceladoEsDePaso, DronTomaHash, tablas
<1>10. QED
  BY <1>1, <1>2, <1>3, <1>4, <1>5, <1>6, <1>7, <1>8, <1>9 DEF Inv


(* Noting a drone twice changes nothing.                                   *)
LEMMA AnotaSinRepetir ==
  ASSUME NEW v \in Seq(Drones), NEW d \in Drones, IsInjective(v), Len(v) < 2
  PROVE  /\ Anota(v, d) \in Seq(Drones) /\ Len(Anota(v, d)) <= 2
         /\ IsInjective(Anota(v, d))
<1>1. CASE d \in ToSet(v)
  BY <1>1 DEF Anota
<1>2. CASE d \notin ToSet(v)
  <2> DEFINE w == Append(v, d)
  <2>1. /\ Anota(v, d) = w /\ w \in Seq(Drones) /\ Len(w) = Len(v) + 1
        /\ \A i \in 1..Len(v) : w[i] = v[i]
        /\ w[Len(v) + 1] = d /\ Len(v) \in Nat
    BY <1>2, AppendProperties DEF Anota
  <2> HIDE DEF w
  <2>2. \A i \in 1..Len(v) : v[i] # d
    BY <1>2 DEF ToSet
  <2>3. DOMAIN w = 1..Len(v) + 1 /\ DOMAIN v = 1..Len(v)
    BY <2>1
  <2>4. IsInjective(w)
    BY <2>1, <2>2, <2>3 DEF IsInjective
  <2>5. QED
    BY <2>1, <2>4
<1>3. QED
  BY <1>1, <1>2

LEMMA DronAnotaInv ==
  ASSUME Inv, DronAnota
  PROVE  Inv'
<1>1. /\ \A x, y : Dicho(x, y)' <=> Dicho(x, y)
      /\ \A x : Anunciado(x)' <=> Anunciado(x)
      /\ OrdenPorLugar'
  BY Callado DEF Inv, DronAnota, tablas, hilos, Suelta, Abierto
<1>2. Tipado'
  BY DEF Inv, Tipado, DronAnota, Suelta, Abierto
<1>3. DosDrones'
  <2>1. dron \in [fase : {"quiereHash", "quiereCliente", "publica", "activa"},
                  id : Ids, d : Drones]
    BY DEF Inv, Tipado, DronAnota, Espera
  <2>2. CASE ~Abierto(dron.id)
    BY <2>2 DEF Inv, DosDrones, DronAnota
  <2>3. CASE Abierto(dron.id)
    <3> DEFINE v == hash[dron.id]
               w == Anota(v, dron.d)
    <3>1. /\ dron.id \in DOMAIN hash /\ hash' = [hash EXCEPT ![dron.id] = w]
          /\ v \in Seq(Drones) /\ Len(v) < 2 /\ IsInjective(v)
      BY <2>3 DEF Inv, DosDrones, DronAnota, Abierto
    <3>2. w \in Seq(Drones) /\ Len(w) <= 2 /\ IsInjective(w)
      BY <2>1, <3>1, AnotaSinRepetir
    <3> HIDE DEF w
    <3>3. QED
      BY <3>1, <3>2 DEF Inv, DosDrones
  <2>4. QED
    BY <2>2, <2>3
<1>4. Contados'
  BY <1>1 DEF Inv, Tipado, Contados, DronAnota, Abierto
<1>5. Duenios'
  BY DEF Inv, Duenios, DronAnota, Espera, Candados, Suelta, Abierto
<1>6. Frescos'
  BY <1>1 DEF Inv, Frescos, DronAnota, Abierto
<1>7. EnSuSitio'
  BY <1>1 DEF Inv, EnSuSitio, DronAnota, Espera, Abierto
<1>8. Anuncios'
  BY <1>1 DEF Inv, Anuncios, DronAnota, Espera, Abierto
<1>9. CanceladoEsDePaso'
  BY DEF Inv, CanceladoEsDePaso, DronAnota, Abierto
<1>10. QED
  BY <1>1, <1>2, <1>3, <1>4, <1>5, <1>6, <1>7, <1>8, <1>9 DEF Inv


LEMMA DronResuelveInv ==
  ASSUME Inv, DronResuelve
  PROVE  Inv'
<1>1. /\ \A x, y : Dicho(x, y)' <=> Dicho(x, y)
      /\ \A x : Anunciado(x)' <=> Anunciado(x)
      /\ OrdenPorLugar'
  BY Callado DEF Inv, DronResuelve, tablas, hilos, Toma, Abierto
<1>2. Tipado'
  <2>1. dron \in [fase : {"quiereHash", "quiereCliente", "publica", "activa"},
                  id : Ids, d : Drones]
    BY DEF Inv, Tipado, DronResuelve, Espera
  <2>2. dron' \in [fase : {"quiereHash", "quiereCliente", "publica", "activa"},
                   id : Ids, d : Drones]
    BY <2>1 DEF DronResuelve
  <2>3. QED
    BY <2>1, <2>2 DEF Inv, Tipado, DronResuelve, Toma, Candados
<1>3. DosDrones'
  BY DEF Inv, DosDrones, DronResuelve, Abierto
<1>4. Contados'
  BY DEF Inv, Contados, DronResuelve, Abierto
<1>5. Duenios'
  BY DEF Inv, Tipado, Duenios, DronResuelve, Candados, Toma, Abierto
<1>6. Frescos'
  BY <1>1 DEF Inv, Frescos, DronResuelve, Abierto
<1>7. EnSuSitio'
  BY <1>1 DEF Inv, Tipado, EnSuSitio, DronResuelve, Abierto
<1>8. Anuncios'
  BY <1>1 DEF Inv, Anuncios, DronResuelve, Abierto
<1>9. CanceladoEsDePaso'
  BY DEF Inv, CanceladoEsDePaso, DronResuelve, Abierto
<1>10. QED
  BY <1>1, <1>2, <1>3, <1>4, <1>5, <1>6, <1>7, <1>8, <1>9 DEF Inv


LEMMA DronPublicaInv ==
  ASSUME Inv, DronPublica
  PROVE  Inv'
<1>1. /\ publicado' \in Seq(Avisos)
      /\ OrdenPorLugar'
      /\ \A x, y : Dicho(x, y) => Dicho(x, y)'
      /\ \A x : Anunciado(x) => Anunciado(x)'
      /\ \A x, y : Dicho(x, y)' => Dicho(x, y) \/ (x = dron.id /\ y = "activo")
      /\ \A x : Anunciado(x)' => Anunciado(x) \/ x = dron.id
      /\ conexion = "viva" => Anunciado(dron.id)'
  BY EscribeAviso
  DEF Inv, Tipado, Duenios, EnSuSitio, Frescos, Anuncios, DronPublica, Estados
<1>2. Tipado'
  <2>1. dron \in [fase : {"quiereHash", "quiereCliente", "publica", "activa"},
                  id : Ids, d : Drones]
    BY DEF Inv, Tipado, DronPublica, Espera
  <2>2. dron' \in [fase : {"quiereHash", "quiereCliente", "publica", "activa"},
                   id : Ids, d : Drones]
    BY <2>1 DEF DronPublica
  <2>3. QED
    BY <1>1, <2>2 DEF Inv, Tipado, DronPublica, tablas, Suelta, Candados
<1>3. DosDrones'
  BY DEF Inv, Tipado, DosDrones, DronPublica, tablas
<1>4. Contados'
  BY DEF Inv, Contados, DronPublica
<1>5. Duenios'
  BY DEF Inv, Duenios, DronPublica, Candados, Suelta
<1>6. Frescos'
  BY <1>1
  DEF Inv, Tipado, Duenios, Frescos, EnSuSitio, CanceladoEsDePaso, DronPublica,
      tablas
<1>7. EnSuSitio'
  BY <1>1
  DEF Inv, Tipado, Duenios, Frescos, EnSuSitio, CanceladoEsDePaso, DronPublica,
      tablas
<1>8. Anuncios'
  BY <1>1
  DEF Inv, Tipado, Duenios, Frescos, EnSuSitio, Anuncios, CanceladoEsDePaso,
      DronPublica, tablas
<1>9. CanceladoEsDePaso'
  BY DEF Inv, Tipado, EnSuSitio, CanceladoEsDePaso, DronPublica, tablas
<1>10. QED
  BY <1>1, <1>2, <1>3, <1>4, <1>5, <1>6, <1>7, <1>8, <1>9 DEF Inv


LEMMA DronActivaInv ==
  ASSUME Inv, DronActiva
  PROVE  Inv'
<1>1. /\ \A x, y : Dicho(x, y)' <=> Dicho(x, y)
      /\ \A x : Anunciado(x)' <=> Anunciado(x)
      /\ OrdenPorLugar'
  BY Callado DEF Inv, DronActiva, tablas, hilos, Suelta, EnLista
<1>2. dron.id \in Ids /\ lista[dron.id] \in {"cancelado", "quitado"}
  BY DEF Inv, Tipado, EnSuSitio, DronActiva, Espera
<1>3. \/ /\ lista[dron.id] = "cancelado"
         /\ lista' = [lista EXCEPT ![dron.id] = "activo"]
         /\ resolutores' = [resolutores EXCEPT ![dron.id] = @ + 1]
      \/ lista' = lista /\ resolutores' = resolutores
  <2>1. CASE lista[dron.id] = "cancelado"
    BY <2>1 DEF DronActiva, EnLista
  <2>2. CASE lista[dron.id] = "quitado"
    <3>1. UNCHANGED <<lista, resolutores>>
      BY <2>2 DEF DronActiva, EnLista
    <3>2. QED
      BY <3>1
  <2>3. QED
    BY <2>1, <2>2, <1>2
<1>4. Tipado'
  <2>1. lista' \in [Ids -> {"nunca", "pendiente", "activo", "cancelado", "quitado"}]
    BY <1>2, <1>3 DEF Inv, Tipado
  <2>2. resolutores' \in [Ids -> Nat]
    <3>1. resolutores \in [Ids -> Nat]
      BY DEF Inv, Tipado
    <3>2. QED
      BY <1>3, <3>1
  <2>3. QED
    BY <2>1, <2>2 DEF Inv, Tipado, DronActiva, Suelta, Candados
<1>5. DosDrones'
  BY DEF Inv, DosDrones, DronActiva
<1>6. Contados'
  <2>1. \A id \in Ids : /\ resolutores[id] \in Nat /\ mensajes \in Nat
                      /\ resolutores[id] + 1 <= mensajes
    BY DEF Inv, Tipado, Contados, DronActiva
  <2>2. \A id \in Ids : resolutores'[id] \in {resolutores[id], resolutores[id] + 1}
    BY <1>2, <1>3 DEF Inv, Tipado
  <2>3. QED
    BY <2>1, <2>2 DEF Contados, DronActiva, Espera
<1>7. Duenios'
  BY DEF Inv, Duenios, DronActiva, Espera, Candados, Suelta
<1>8. Frescos'
  BY <1>1, MonitoreoAssumption DEF Inv, Tipado, Frescos, DronActiva, EnLista
<1>9. EnSuSitio'
  <2>1. \A id \in Ids :
          /\ \/ lista'[id] = lista[id]
             \/ lista[id] = "cancelado" /\ lista'[id] = "activo"
          /\ resolutores'[id] > 0 => resolutores[id] > 0 \/ id = dron.id
    <3>1. /\ lista \in [Ids -> {"nunca", "pendiente", "activo", "cancelado", "quitado"}]
          /\ resolutores \in [Ids -> Nat]
      BY DEF Inv, Tipado
    <3>2. lista' = lista \/ ( /\ lista[dron.id] = "cancelado"
                              /\ lista' = [lista EXCEPT ![dron.id] = "activo"] )
      BY <1>3
    <3>3. \A id \in Ids : \/ lista'[id] = lista[id]
                          \/ lista[id] = "cancelado" /\ lista'[id] = "activo"
      BY <3>1, <3>2, <1>2
    <3>4. resolutores' = resolutores
            \/ resolutores' = [resolutores EXCEPT ![dron.id] = @ + 1]
      BY <1>3
    <3>5. \A id \in Ids : id # dron.id => resolutores'[id] = resolutores[id]
      BY <3>1, <3>4, <1>2
    <3>6. \A id \in Ids :
            resolutores'[id] > 0 => resolutores[id] > 0 \/ id = dron.id
      <4> SUFFICES ASSUME NEW id \in Ids, id # dron.id, resolutores'[id] > 0
                   PROVE  resolutores[id] > 0
        OBVIOUS
      <4> QED
        BY <3>5
    <3>7. QED
      BY <3>3, <3>6
  <2>2. /\ ui' = ui /\ cierra' = cierra /\ id_count' = id_count /\ dron' = Espera
        /\ ui.fase # "espera" => ui.id \in Ids
        /\ cierra.fase # "espera" => cierra.id \in Ids
    BY DEF Inv, Tipado, DronActiva, Espera
  <2>3. QED
    BY <1>1, <1>2, <1>3, <2>1, <2>2 DEF Inv, EnSuSitio, Espera
<1>10. Anuncios'
  BY <1>1, MonitoreoAssumption DEF Inv, Tipado, Anuncios, DronActiva, Espera, EnLista
<1>11. CanceladoEsDePaso'
  BY MonitoreoAssumption DEF Inv, Tipado, CanceladoEsDePaso, DronActiva, EnLista
<1>12. QED
  BY <1>1, <1>4, <1>5, <1>6, <1>7, <1>8, <1>9, <1>10, <1>11 DEF Inv


LEMMA ResolutorTomaInv ==
  ASSUME Inv, NEW id \in Ids, ResolutorToma(id)
  PROVE  Inv'
<1>1. /\ \A x, y : Dicho(x, y)' <=> Dicho(x, y)
      /\ \A x : Anunciado(x)' <=> Anunciado(x)
      /\ OrdenPorLugar'
  BY Callado DEF Inv, ResolutorToma, tablas, hilos, Toma
<1>2. Tipado'
  BY DEF Inv, Tipado, DosDrones, Contados, ResolutorToma, tablas, En, Candados, Toma
<1>3. DosDrones'
  BY DEF Inv, Tipado, DosDrones, ResolutorToma, tablas
<1>4. Contados'
  BY DEF Inv, Tipado, Contados, ResolutorToma
<1>5. Duenios'
  BY DEF Inv, Tipado, Duenios, ResolutorToma, En, Candados, Toma
<1>6. Frescos'
  BY <1>1
  DEF Inv, Tipado, Duenios, Frescos, EnSuSitio, CanceladoEsDePaso,
      ResolutorToma, tablas
<1>7. EnSuSitio'
  BY <1>1
  DEF Inv, Tipado, Duenios, Frescos, EnSuSitio, CanceladoEsDePaso,
      ResolutorToma, tablas, En
<1>8. Anuncios'
  BY <1>1
  DEF Inv, Tipado, Duenios, Frescos, EnSuSitio, Anuncios, CanceladoEsDePaso,
      ResolutorToma, tablas
<1>9. CanceladoEsDePaso'
  BY DEF Inv, Tipado, EnSuSitio, CanceladoEsDePaso, ResolutorToma, tablas
<1>10. QED
  BY <1>1, <1>2, <1>3, <1>4, <1>5, <1>6, <1>7, <1>8, <1>9 DEF Inv


LEMMA ResolutorQuitaInv ==
  ASSUME Inv, ResolutorQuita
  PROVE  Inv'
<1>1. /\ \A x, y : Dicho(x, y)' <=> Dicho(x, y)
      /\ \A x : Anunciado(x)' <=> Anunciado(x)
      /\ OrdenPorLugar'
  BY Callado DEF Inv, ResolutorQuita, tablas, hilos, Quitado, EnLista
<1>2. Tipado'
  BY DEF Inv, Tipado, ResolutorQuita, En, Espera, Quitado
<1>3. DosDrones'
  BY DEF Inv, DosDrones, ResolutorQuita, Quitado
<1>4. Contados'
  BY DEF Inv, Contados, ResolutorQuita, Quitado
<1>5. Duenios'
  BY DEF Inv, Duenios, ResolutorQuita, En, Quitado
<1>6. Frescos'
  BY <1>1 DEF Inv, Frescos, ResolutorQuita, Quitado, EnLista
<1>7. EnSuSitio'
  BY <1>1 DEF Inv, Tipado, EnSuSitio, ResolutorQuita, En, Espera, Quitado, EnLista
<1>8. Anuncios'
  BY <1>1 DEF Inv, Anuncios, ResolutorQuita, Quitado, EnLista
<1>9. CanceladoEsDePaso'
  BY DEF Inv, CanceladoEsDePaso, ResolutorQuita, Quitado
<1>10. QED
  BY <1>1, <1>2, <1>3, <1>4, <1>5, <1>6, <1>7, <1>8, <1>9 DEF Inv


LEMMA ResolutorPublicaInv ==
  ASSUME Inv, ResolutorPublica
  PROVE  Inv'
<1>1. /\ publicado' \in Seq(Avisos)
      /\ OrdenPorLugar'
      /\ \A x, y : Dicho(x, y) => Dicho(x, y)'
      /\ \A x : Anunciado(x) => Anunciado(x)'
      /\ \A x, y : Dicho(x, y)' => Dicho(x, y) \/ (x = cierra.id /\ y = "cancelado")
      /\ \A x : Anunciado(x)' => Anunciado(x) \/ x = cierra.id
  <2>1. cierra.id \in Ids /\ lista[cierra.id] = "quitado"
    BY DEF Inv, Tipado, EnSuSitio, ResolutorPublica, Espera
  <2>2. conexion = "viva" => Anunciado(cierra.id)
    BY <2>1 DEF Inv, Anuncios
  <2>3. QED
    <3>1. /\ Escribe(cierra.id, "cancelado") /\ conexion \in {"viva", "rota"}
          /\ "cancelado" \in Estados
      BY DEF Inv, Anuncios, ResolutorPublica, Estados
    <3>2. QED
      BY <2>1, <2>2, <3>1, EscribeAviso DEF Inv
<1>2. Tipado'
  BY <1>1 DEF Inv, Tipado, DosDrones, Contados, ResolutorPublica, tablas, Suelta
<1>3. DosDrones'
  BY DEF Inv, Tipado, DosDrones, ResolutorPublica, tablas
<1>4. Contados'
  BY DEF Inv, Contados, ResolutorPublica
<1>5. Duenios'
  BY DEF Inv, Duenios, ResolutorPublica, Espera, Candados, Suelta
<1>6. Frescos'
  BY <1>1
  DEF Inv, Tipado, Duenios, Frescos, EnSuSitio, CanceladoEsDePaso,
      ResolutorPublica, tablas
<1>7. EnSuSitio'
  BY <1>1
  DEF Inv, Tipado, Duenios, Frescos, EnSuSitio, CanceladoEsDePaso,
      ResolutorPublica, tablas, Espera
<1>8. Anuncios'
  BY <1>1
  DEF Inv, Tipado, Duenios, Frescos, EnSuSitio, Anuncios, CanceladoEsDePaso,
      ResolutorPublica, tablas
<1>9. CanceladoEsDePaso'
  BY DEF Inv, Tipado, EnSuSitio, CanceladoEsDePaso, ResolutorPublica, tablas
<1>10. QED
  BY <1>1, <1>2, <1>3, <1>4, <1>5, <1>6, <1>7, <1>8, <1>9 DEF Inv


LEMMA IARecibeInv ==
  ASSUME Inv, IARecibe
  PROVE  Inv'
<1>1. /\ \A x, y : Dicho(x, y)' <=> Dicho(x, y)
      /\ \A x : Anunciado(x)' <=> Anunciado(x)
      /\ OrdenPorLugar'
  BY Callado DEF Inv, IARecibe, tablas, hilos, Toma
<1>2. Tipado'
  BY MonitoreoAssumption
  DEF Inv, Tipado, DosDrones, Contados, IARecibe, tablas, En, Candados, Ids,
      Toma
<1>3. DosDrones'
  BY DEF Inv, Tipado, DosDrones, IARecibe, tablas
<1>4. Contados'
  BY DEF Inv, Contados, IARecibe
<1>5. Duenios'
  BY DEF Inv, Tipado, Duenios, IARecibe, En, Candados, Toma
<1>6. Frescos'
  BY <1>1
  DEF Inv, Tipado, Duenios, Frescos, EnSuSitio, CanceladoEsDePaso, IARecibe,
      tablas, En
<1>7. EnSuSitio'
  BY <1>1
  DEF Inv, Tipado, Duenios, Frescos, EnSuSitio, CanceladoEsDePaso, IARecibe,
      tablas
<1>8. Anuncios'
  BY <1>1
  DEF Inv, Tipado, Duenios, Frescos, EnSuSitio, Anuncios, CanceladoEsDePaso,
      IARecibe, tablas, En
<1>9. CanceladoEsDePaso'
  BY DEF Inv, Tipado, EnSuSitio, CanceladoEsDePaso, IARecibe, tablas
<1>10. QED
  BY <1>1, <1>2, <1>3, <1>4, <1>5, <1>6, <1>7, <1>8, <1>9 DEF Inv


LEMMA IAPublicaInv ==
  ASSUME Inv, IAPublica
  PROVE  Inv'
<1>1. /\ publicado' \in Seq(Avisos)
      /\ OrdenPorLugar'
      /\ \A x, y : Dicho(x, y) => Dicho(x, y)'
      /\ \A x : Anunciado(x) => Anunciado(x)'
      /\ \A x, y : Dicho(x, y)' => Dicho(x, y) \/ (x = ia.id /\ y = "pendiente")
      /\ \A x : Anunciado(x)' => Anunciado(x) \/ x = ia.id
      /\ conexion = "viva" => Anunciado(ia.id)'
  BY EscribeAviso
  DEF Inv, Tipado, Duenios, EnSuSitio, Frescos, Anuncios, IAPublica, En, Toma,
      Estados
<1>2. Tipado'
  BY <1>1
  DEF Inv, Tipado, DosDrones, Contados, IAPublica, tablas, En, Espera, Candados,
      Toma
<1>3. DosDrones'
  BY DEF Inv, Tipado, DosDrones, IAPublica, tablas
<1>4. Contados'
  BY DEF Inv, Contados, IAPublica
<1>5. Duenios'
  BY DEF Inv, Tipado, Duenios, IAPublica, En, Candados, Toma
<1>6. Frescos'
  BY <1>1
  DEF Inv, Tipado, Duenios, Frescos, EnSuSitio, CanceladoEsDePaso, IAPublica,
      tablas, En
<1>7. EnSuSitio'
  BY <1>1
  DEF Inv, Tipado, Duenios, Frescos, EnSuSitio, CanceladoEsDePaso, IAPublica,
      tablas
<1>8. Anuncios'
  BY <1>1
  DEF Inv, Tipado, Duenios, Frescos, EnSuSitio, Anuncios, CanceladoEsDePaso,
      IAPublica, tablas
<1>9. CanceladoEsDePaso'
  BY DEF Inv, Tipado, EnSuSitio, CanceladoEsDePaso, IAPublica, tablas
<1>10. QED
  BY <1>1, <1>2, <1>3, <1>4, <1>5, <1>6, <1>7, <1>8, <1>9 DEF Inv


LEMMA IANoPublicaInv ==
  ASSUME Inv, IANoPublica
  PROVE  Inv'
<1>1. /\ \A x, y : Dicho(x, y)' <=> Dicho(x, y)
      /\ \A x : Anunciado(x)' <=> Anunciado(x)
      /\ OrdenPorLugar'
  BY Callado DEF Inv, IANoPublica, tablas, hilos, Suelta, NoPuede
<1>2. Tipado'
  BY DEF Inv, Tipado, DosDrones, Contados, IANoPublica, tablas, Suelta, NoPuede
<1>3. DosDrones'
  BY DEF Inv, Tipado, DosDrones, IANoPublica, tablas, NoPuede
<1>4. Contados'
  BY DEF Inv, Contados, IANoPublica, NoPuede
<1>5. Duenios'
  BY DEF Inv, Duenios, IANoPublica, Espera, Candados, Suelta, NoPuede
<1>6. Frescos'
  BY <1>1
  DEF Inv, Tipado, Duenios, Frescos, EnSuSitio, CanceladoEsDePaso, IANoPublica,
      tablas, NoPuede
<1>7. EnSuSitio'
  BY <1>1
  DEF Inv, Tipado, Duenios, Frescos, EnSuSitio, CanceladoEsDePaso, IANoPublica,
      tablas, NoPuede
<1>8. Anuncios'
  BY <1>1
  DEF Inv, Tipado, Duenios, Frescos, EnSuSitio, Anuncios, CanceladoEsDePaso,
      IANoPublica, tablas, NoPuede
<1>9. CanceladoEsDePaso'
  BY DEF Inv, Tipado, EnSuSitio, CanceladoEsDePaso, IANoPublica, tablas, NoPuede
<1>10. QED
  BY <1>1, <1>2, <1>3, <1>4, <1>5, <1>6, <1>7, <1>8, <1>9 DEF Inv


LEMMA IAInsertaInv ==
  ASSUME Inv, IAInserta
  PROVE  Inv'
<1>1. /\ \A x, y : Dicho(x, y)' <=> Dicho(x, y)
      /\ \A x : Anunciado(x)' <=> Anunciado(x)
      /\ OrdenPorLugar'
  BY Callado DEF Inv, IAInserta, tablas, hilos
<1>2. Tipado'
  BY DEF Inv, Tipado, IAInserta, En, Espera
<1>3. DosDrones'
  BY DEF Inv, DosDrones, IAInserta
<1>4. Contados'
  BY DEF Inv, Contados, IAInserta
<1>5. Duenios'
  BY DEF Inv, Duenios, IAInserta, En
<1>6. Frescos'
  BY <1>1 DEF Inv, Frescos, IAInserta, En
<1>7. EnSuSitio'
  BY <1>1 DEF Inv, Tipado, Frescos, EnSuSitio, IAInserta
<1>8. Anuncios'
  BY <1>1 DEF Inv, Frescos, Anuncios, IAInserta, En, Ids
<1>9. CanceladoEsDePaso'
  BY DEF Inv, CanceladoEsDePaso, IAInserta
<1>10. QED
  BY <1>1, <1>2, <1>3, <1>4, <1>5, <1>6, <1>7, <1>8, <1>9 DEF Inv


LEMMA IAAnotaInv ==
  ASSUME Inv, IAAnota
  PROVE  Inv'
<1>1. /\ \A x, y : Dicho(x, y)' <=> Dicho(x, y)
      /\ \A x : Anunciado(x)' <=> Anunciado(x)
      /\ OrdenPorLugar'
  BY Callado DEF Inv, IAAnota, tablas, hilos, Suelta, ConEntrada
<1>2. Tipado'
  <2>1. ia.id \in Ids /\ ia.id = id_count
    BY DEF Inv, Tipado, Frescos, IAAnota, Espera
  <2>2. id_count' \in 0..MaxIncidentes
    BY <2>1, MonitoreoAssumption DEF IAAnota, Ids
  <2>3. DOMAIN hash' \subseteq Ids
    BY <2>1 DEF Inv, Tipado, IAAnota, ConEntrada
  <2>4. QED
    BY <2>2, <2>3 DEF Inv, Tipado, IAAnota, Suelta, Candados
<1>3. DosDrones'
  <2>1. ASSUME NEW id \in DOMAIN hash'
        PROVE  \/ hash'[id] = << >>
               \/ id \in DOMAIN hash /\ hash'[id] = hash[id]
    <3>1. hash' = [x \in DOMAIN hash \cup {ia.id} |->
                     IF x = ia.id THEN << >> ELSE hash[x]]
      BY DEF IAAnota, ConEntrada
    <3> DEFINE nada == << >>
    <3> HIDE DEF nada
    <3>2. DOMAIN hash' = DOMAIN hash \cup {ia.id}
      BY <3>1
    <3>3. CASE id = ia.id
      BY <3>1, <3>3
    <3>4. CASE id # ia.id
      BY <3>1, <3>2, <3>4
    <3>5. QED
      BY <3>3, <3>4
  <2>2. /\ << >> \in Seq(Drones) /\ Len(<< >>) <= 2 /\ IsInjective(<< >>)
    BY DEF IsInjective
  <2>3. ASSUME NEW id \in DOMAIN hash'
        PROVE  /\ hash'[id] \in Seq(Drones) /\ Len(hash'[id]) <= 2
               /\ IsInjective(hash'[id])
    <3>1. CASE hash'[id] = << >>
      BY <2>2, <3>1
    <3>2. CASE id \in DOMAIN hash /\ hash'[id] = hash[id]
      BY <3>2 DEF Inv, DosDrones
    <3>3. QED
      BY <2>1, <3>1, <3>2
  <2>4. QED
    BY <2>3 DEF DosDrones
<1>4. Contados'
  BY DEF Inv, Contados, IAAnota, ConEntrada
<1>5. Duenios'
  BY DEF Inv, Duenios, IAAnota, Espera, Candados, Suelta, ConEntrada
<1>6. Frescos'
  BY <1>1 DEF Inv, Tipado, Frescos, IAAnota, Espera, Ids, ConEntrada
<1>7. EnSuSitio'
  BY <1>1 DEF Inv, Tipado, EnSuSitio, IAAnota, Espera, Ids, ConEntrada
<1>8. Anuncios'
  BY <1>1 DEF Inv, Anuncios, IAAnota, Espera, ConEntrada
<1>9. CanceladoEsDePaso'
  BY DEF Inv, CanceladoEsDePaso, IAAnota, ConEntrada
<1>10. QED
  BY <1>1, <1>2, <1>3, <1>4, <1>5, <1>6, <1>7, <1>8, <1>9 DEF Inv


LEMMA UINuevoInv ==
  ASSUME Inv, UINuevo
  PROVE  Inv'
<1>1. /\ \A x, y : Dicho(x, y)' <=> Dicho(x, y)
      /\ \A x : Anunciado(x)' <=> Anunciado(x)
      /\ OrdenPorLugar'
  BY Callado DEF Inv, UINuevo, tablas, hilos, Usa
<1>2. Tipado'
  BY MonitoreoAssumption DEF Inv, Tipado, UINuevo, En, Ids, Usa
<1>3. DosDrones'
  BY DEF Inv, DosDrones, UINuevo, Usa
<1>4. Contados'
  BY DEF Inv, Contados, UINuevo, Usa
<1>5. Duenios'
  BY DEF Inv, Duenios, UINuevo, Usa
<1>6. Frescos'
  BY <1>1 DEF Inv, Tipado, Duenios, Frescos, UINuevo, Ids, Usa
<1>7. EnSuSitio'
  BY <1>1, MonitoreoAssumption
  DEF Inv, Tipado, Duenios, Frescos, EnSuSitio, UINuevo, En, Ids, Usa
<1>8. Anuncios'
  BY <1>1 DEF Inv, Anuncios, UINuevo, En, Usa
<1>9. CanceladoEsDePaso'
  BY DEF Inv, CanceladoEsDePaso, UINuevo, Usa
<1>10. QED
  BY <1>1, <1>2, <1>3, <1>4, <1>5, <1>6, <1>7, <1>8, <1>9 DEF Inv


LEMMA UIPublicaInv ==
  ASSUME Inv, UIPublica
  PROVE  Inv'
<1>1. /\ publicado' \in Seq(Avisos)
      /\ OrdenPorLugar'
      /\ \A x, y : Dicho(x, y) => Dicho(x, y)'
      /\ \A x : Anunciado(x) => Anunciado(x)'
      /\ \A x, y : Dicho(x, y)' => Dicho(x, y) \/ (x = ui.id /\ y = "pendiente")
      /\ \A x : Anunciado(x)' => Anunciado(x) \/ x = ui.id
      /\ conexion = "viva" => Anunciado(ui.id)'
  <2>1. ui.id \in Ids /\ ~Anunciado(ui.id)
    BY DEF Inv, Tipado, EnSuSitio, UIPublica, Espera
  <2>2. CASE Escribe(ui.id, "pendiente") /\ ui' = En("inserta", ui.id)
    <3>1. /\ conexion \in {"viva", "rota"} /\ "pendiente" \in Estados
          /\ ui'.id = ui.id
      BY <2>2 DEF Inv, Anuncios, Estados, En
    <3>2. QED
      BY <2>1, <2>2, <3>1, EscribeAviso DEF Inv
  <2>3. CASE NoPuede
    BY <2>1, <2>3, Callado DEF Inv, Tipado, NoPuede
  <2>4. QED
    BY <2>2, <2>3 DEF UIPublica
<1>2. Tipado'
  BY <1>1
  DEF Inv, Tipado, DosDrones, Contados, UIPublica, tablas, En, Espera, Usa,
      NoPuede
<1>3. DosDrones'
  BY DEF Inv, Tipado, DosDrones, UIPublica, tablas, Usa, NoPuede
<1>4. Contados'
  BY DEF Inv, Contados, UIPublica, Usa, NoPuede
<1>5. Duenios'
  BY DEF Inv, Duenios, UIPublica, Usa, NoPuede
<1>6. Frescos'
  BY <1>1
  DEF Inv, Tipado, Duenios, Frescos, EnSuSitio, CanceladoEsDePaso, UIPublica,
      tablas, Ids, Usa, NoPuede
<1>7. EnSuSitio'
  BY
  DEF Inv, Tipado, Duenios, Frescos, EnSuSitio, CanceladoEsDePaso, UIPublica,
      tablas, En, Usa, NoPuede
<1>8. Anuncios'
  BY <1>1
  DEF Inv, Tipado, Duenios, Frescos, EnSuSitio, Anuncios, CanceladoEsDePaso,
      UIPublica, tablas, Usa, NoPuede
<1>9. CanceladoEsDePaso'
  BY DEF Inv, Tipado, EnSuSitio, CanceladoEsDePaso, UIPublica, tablas, Usa, NoPuede
<1>10. QED
  BY <1>1, <1>2, <1>3, <1>4, <1>5, <1>6, <1>7, <1>8, <1>9 DEF Inv


LEMMA UIInsertaInv ==
  ASSUME Inv, UIInserta
  PROVE  Inv'
<1>1. /\ \A x, y : Dicho(x, y)' <=> Dicho(x, y)
      /\ \A x : Anunciado(x)' <=> Anunciado(x)
      /\ OrdenPorLugar'
  BY Callado DEF Inv, UIInserta, tablas, hilos
<1>2. Tipado'
  BY DEF Inv, Tipado, UIInserta, En, Espera
<1>3. DosDrones'
  BY DEF Inv, DosDrones, UIInserta
<1>4. Contados'
  BY DEF Inv, Contados, UIInserta
<1>5. Duenios'
  BY DEF Inv, Duenios, UIInserta
<1>6. Frescos'
  BY <1>1 DEF Inv, Tipado, Frescos, EnSuSitio, UIInserta, Ids
<1>7. EnSuSitio'
  BY DEF Inv, EnSuSitio, UIInserta, En
<1>8. Anuncios'
  BY <1>1 DEF Inv, EnSuSitio, Anuncios, UIInserta, En
<1>9. CanceladoEsDePaso'
  BY DEF Inv, CanceladoEsDePaso, UIInserta
<1>10. QED
  BY <1>1, <1>2, <1>3, <1>4, <1>5, <1>6, <1>7, <1>8, <1>9 DEF Inv


LEMMA UIAnotaInv ==
  ASSUME Inv, UIAnota
  PROVE  Inv'
<1>1. /\ \A x, y : Dicho(x, y)' <=> Dicho(x, y)
      /\ \A x : Anunciado(x)' <=> Anunciado(x)
      /\ OrdenPorLugar'
  BY Callado DEF Inv, UIAnota, tablas, hilos, Usa, ConEntrada
<1>2. Tipado'
  BY DEF Inv, Tipado, UIAnota, Espera, Usa, ConEntrada
<1>3. DosDrones'
  <2>1. ASSUME NEW id \in DOMAIN hash'
        PROVE  \/ hash'[id] = << >>
               \/ id \in DOMAIN hash /\ hash'[id] = hash[id]
    <3>1. hash' = [x \in DOMAIN hash \cup {ui.id} |->
                     IF x = ui.id THEN << >> ELSE hash[x]]
      BY DEF UIAnota, ConEntrada
    <3> DEFINE nada == << >>
    <3> HIDE DEF nada
    <3>2. DOMAIN hash' = DOMAIN hash \cup {ui.id}
      BY <3>1
    <3>3. CASE id = ui.id
      BY <3>1, <3>3
    <3>4. CASE id # ui.id
      BY <3>1, <3>2, <3>4
    <3>5. QED
      BY <3>3, <3>4
  <2>2. /\ << >> \in Seq(Drones) /\ Len(<< >>) <= 2 /\ IsInjective(<< >>)
    BY DEF IsInjective
  <2>3. ASSUME NEW id \in DOMAIN hash'
        PROVE  /\ hash'[id] \in Seq(Drones) /\ Len(hash'[id]) <= 2
               /\ IsInjective(hash'[id])
    <3>1. CASE hash'[id] = << >>
      BY <2>2, <3>1
    <3>2. CASE id \in DOMAIN hash /\ hash'[id] = hash[id]
      BY <3>2 DEF Inv, DosDrones
    <3>3. QED
      BY <2>1, <3>1, <3>2
  <2>4. QED
    BY <2>3 DEF DosDrones
<1>4. Contados'
  BY DEF Inv, Contados, UIAnota, Usa, ConEntrada
<1>5. Duenios'
  BY DEF Inv, Duenios, UIAnota, Usa, ConEntrada
<1>6. Frescos'
  BY <1>1 DEF Inv, Frescos, UIAnota, Usa, ConEntrada
<1>7. EnSuSitio'
  BY DEF Inv, EnSuSitio, UIAnota, Espera, Usa, ConEntrada
<1>8. Anuncios'
  BY <1>1 DEF Inv, Anuncios, UIAnota, Espera, Usa, ConEntrada
<1>9. CanceladoEsDePaso'
  BY DEF Inv, CanceladoEsDePaso, UIAnota, Usa, ConEntrada
<1>10. QED
  BY <1>1, <1>2, <1>3, <1>4, <1>5, <1>6, <1>7, <1>8, <1>9 DEF Inv


LEMMA UIEliminaInv ==
  ASSUME Inv, NEW id \in Ids, UIElimina(id)
  PROVE  Inv'
<1>1. /\ \A x, y : Dicho(x, y)' <=> Dicho(x, y)
      /\ \A x : Anunciado(x)' <=> Anunciado(x)
      /\ OrdenPorLugar'
  BY Callado DEF Inv, UIElimina, tablas, hilos, Quitado, EnLista
<1>2. Tipado'
  BY DEF Inv, Tipado, UIElimina, En, Quitado
<1>3. DosDrones'
  BY DEF Inv, DosDrones, UIElimina, Quitado
<1>4. Contados'
  BY DEF Inv, Contados, UIElimina, Quitado
<1>5. Duenios'
  BY DEF Inv, Duenios, UIElimina, Quitado
<1>6. Frescos'
  BY <1>1 DEF Inv, Frescos, UIElimina, Quitado, EnLista
<1>7. EnSuSitio'
  BY DEF Inv, Tipado, EnSuSitio, UIElimina, En, Quitado
<1>8. Anuncios'
  BY <1>1 DEF Inv, Anuncios, UIElimina, En, Quitado, EnLista
<1>9. CanceladoEsDePaso'
  BY DEF Inv, CanceladoEsDePaso, UIElimina, Quitado
<1>10. QED
  BY <1>1, <1>2, <1>3, <1>4, <1>5, <1>6, <1>7, <1>8, <1>9 DEF Inv


LEMMA UIQuitaInv ==
  ASSUME Inv, UIQuita
  PROVE  Inv'
<1>1. /\ \A x, y : Dicho(x, y)' <=> Dicho(x, y)
      /\ \A x : Anunciado(x)' <=> Anunciado(x)
      /\ OrdenPorLugar'
  BY Callado DEF Inv, UIQuita, tablas, hilos, Usa, SinEntrada
<1>2. Tipado'
  BY DEF Inv, Tipado, UIQuita, En, Usa, SinEntrada
<1>3. DosDrones'
  BY DEF Inv, DosDrones, UIQuita, Usa, SinEntrada
<1>4. Contados'
  BY DEF Inv, Contados, UIQuita, Usa, SinEntrada
<1>5. Duenios'
  BY DEF Inv, Duenios, UIQuita, Usa, SinEntrada
<1>6. Frescos'
  BY <1>1 DEF Inv, Frescos, UIQuita, Usa, SinEntrada
<1>7. EnSuSitio'
  BY DEF Inv, EnSuSitio, UIQuita, En, Espera, Usa, SinEntrada
<1>8. Anuncios'
  BY <1>1 DEF Inv, Anuncios, UIQuita, En, Espera, Usa, SinEntrada
<1>9. CanceladoEsDePaso'
  BY DEF Inv, CanceladoEsDePaso, UIQuita, Usa, SinEntrada
<1>10. QED
  BY <1>1, <1>2, <1>3, <1>4, <1>5, <1>6, <1>7, <1>8, <1>9 DEF Inv


LEMMA UICancelaInv ==
  ASSUME Inv, UICancela
  PROVE  Inv'
<1>1. /\ publicado' \in Seq(Avisos)
      /\ OrdenPorLugar'
      /\ \A x, y : Dicho(x, y) => Dicho(x, y)'
      /\ \A x : Anunciado(x) => Anunciado(x)'
      /\ \A x, y : Dicho(x, y)' => Dicho(x, y) \/ (x = ui.id /\ y = "cancelado")
      /\ \A x : Anunciado(x)' => Anunciado(x) \/ x = ui.id
  <2>1. ui.id \in Ids /\ lista[ui.id] = "quitado"
    BY DEF Inv, Tipado, EnSuSitio, UICancela, Espera
  <2>2. conexion = "viva" => Anunciado(ui.id)
    BY <2>1 DEF Inv, Anuncios
  <2>3. QED
    <3>1. /\ Escribe(ui.id, "cancelado") /\ conexion \in {"viva", "rota"}
          /\ "cancelado" \in Estados
      BY DEF Inv, Anuncios, UICancela, Estados
    <3>2. QED
      BY <2>1, <2>2, <3>1, EscribeAviso DEF Inv
<1>2. Tipado'
  BY <1>1 DEF Inv, Tipado, DosDrones, Contados, UICancela, tablas, Usa
<1>3. DosDrones'
  BY DEF Inv, Tipado, DosDrones, UICancela, tablas, Usa
<1>4. Contados'
  BY DEF Inv, Contados, UICancela, Usa
<1>5. Duenios'
  BY DEF Inv, Duenios, UICancela, Usa
<1>6. Frescos'
  BY <1>1
  DEF Inv, Tipado, Duenios, Frescos, EnSuSitio, CanceladoEsDePaso, UICancela,
      tablas, Usa
<1>7. EnSuSitio'
  BY
  DEF Inv, Tipado, Duenios, Frescos, EnSuSitio, CanceladoEsDePaso, UICancela,
      tablas, Usa
<1>8. Anuncios'
  BY <1>1
  DEF Inv, Tipado, Duenios, Frescos, EnSuSitio, Anuncios, CanceladoEsDePaso,
      UICancela, tablas, Usa
<1>9. CanceladoEsDePaso'
  BY DEF Inv, Tipado, EnSuSitio, CanceladoEsDePaso, UICancela, tablas, Usa
<1>10. QED
  BY <1>1, <1>2, <1>3, <1>4, <1>5, <1>6, <1>7, <1>8, <1>9 DEF Inv

-----------------------------------------------------------------------------
LEMMA NextInv == Inv /\ [Next]_vars => Inv'
<1>1. SUFFICES ASSUME Inv, [Next]_vars
               PROVE  Inv'
  OBVIOUS
<1>2. CASE Entrada
  BY <1>1, <1>2, DronLlegaInv, IARecibeInv, UINuevoInv, UIEliminaInv, RompeInv
  DEF Entrada
<1>3. CASE Dron
  BY <1>1, <1>3, DronTomaHashInv, DronAnotaInv, DronResuelveInv, DronPublicaInv,
     DronActivaInv DEF Dron
<1>4. CASE Resolutor
  BY <1>1, <1>4, ResolutorTomaInv, ResolutorQuitaInv, ResolutorPublicaInv
  DEF Resolutor
<1>5. CASE IA
  BY <1>1, <1>5, IAPublicaInv, IANoPublicaInv, IAInsertaInv, IAAnotaInv DEF IA
<1>6. CASE UI
  BY <1>1, <1>6, UIPublicaInv, UIInsertaInv, UIAnotaInv, UIQuitaInv, UICancelaInv
  DEF UI
<1>7. CASE UNCHANGED vars
  <2>1. /\ \A x, y : Dicho(x, y)' <=> Dicho(x, y)
        /\ \A x : Anunciado(x)' <=> Anunciado(x)
        /\ OrdenPorLugar'
    BY <1>1, <1>7, Callado DEF vars, Inv
  <2>2. QED
    BY <1>1, <1>7, <2>1
    DEF vars, tablas, hilos, Inv, Tipado, DosDrones, Contados, Duenios, Frescos,
        EnSuSitio, Anuncios, CanceladoEsDePaso
<1>8. QED
  BY <1>1, <1>2, <1>3, <1>4, <1>5, <1>6, <1>7 DEF Next

LEMMA InvSiempre == Spec => []Inv
  BY InitInv, NextInv, PTL DEF Spec

(* The tables are typed; an incident has two drones at most and none       *)
(* twice, though the messages of the drones repeat.                        *)
THEOREM TypeOKSiempre == Spec => []TypeOK
<1>1. ASSUME Inv
      PROVE  TypeOK
  <2>1. \A id \in DOMAIN hash : ToSet(hash[id]) \subseteq Drones
    BY <1>1 DEF Inv, DosDrones, ToSet
  <2>2. \A id \in Ids : resolutores[id] \in 0..MaxMensajes
    BY <1>1, MonitoreoAssumption DEF Inv, Tipado, Contados
  <2>3. {dron.fase, ia.fase, ui.fase, cierra.fase} \subseteq Fases
    BY <1>1 DEF Inv, Tipado, Fases, Espera
  <2>4. QED
    BY <1>1, <2>1, <2>2, <2>3 DEF Inv, Tipado, DosDrones, TypeOK
<1>2. QED
  BY InvSiempre, <1>1, PTL

(* What the server is told of an incident, by four threads that publish    *)
(* under the client's mutex after they changed other tables, makes sense:  *)
(* it begins once and first, and never becomes active after it is          *)
(* cancelled.                                                              *)
THEOREM OrdenPublicadoSiempre == Spec => []OrdenPublicado
<1>1. ASSUME OrdenPorLugar
      PROVE  OrdenPublicado
  <2>1. SUFFICES ASSUME NEW j \in 1..Len(publicado)
                 PROVE  LET antes == {publicado[i].estado :
                              i \in {k \in 1..(j - 1) : publicado[k].id = publicado[j].id}}
                        IN /\ publicado[j].estado = "pendiente" <=> antes = {}
                           /\ publicado[j].estado = "activo" => "cancelado" \notin antes
    BY DEF OrdenPublicado
  <2>2. QED
    BY <1>1 DEF OrdenPorLugar
<1>2. Inv => OrdenPorLugar
  BY DEF Inv
<1>3. QED
  BY InvSiempre, <1>1, <1>2, PTL

(* No incident is left marked as cancelled while it is in the list: only   *)
(* the callback of the drones does it, and takes it back before it lets go *)
(* of the drones of the incident.                                          *)
THEOREM CanceladoEsDePasoSiempre == Spec => []CanceladoEsDePaso
<1>1. Inv => CanceladoEsDePaso
  BY DEF Inv
<1>2. QED
  BY InvSiempre, <1>1, PTL
=============================================================================
