---------------------------- MODULE Canal_proofs ----------------------------
(* Proofs about Canal, for every number of clients, of messages and of     *)
(* header lines, and whatever the lines' lengths.                          *)
EXTENDS Canal, SequenceTheorems, TLAPS

Abierta ==
  {"PUB", "pub", "PUBmal", "HPUB", "HPUBmal", "OTRO", "cabecera", "payload"}
Lineas == [tipo : Abierta \cup {"vacia"}, de : Clientes, n : Nat]
Origenes == [de : Clientes \cup {"nadie"}, n : Nat]
Comandos ==
  [op : Abierta \cup {"SHUTDOWN"}, de : Clientes, n : Nat, payload : Origenes]
Hpubs ==
  [fase : {"cabecera", "vacio", "payload"}, de : Clientes, n : Nat,
   acum : Nat, cabecera : Seq(Origenes)]
Publicados ==
  [op : Publicaciones, de : Clientes, n : Nat, payload : Origenes,
   cabecera : Seq(Origenes)]

Tipado ==
  /\ cliente \in [Clientes -> {"abierto", "cerrado"}]
  /\ enviados \in [Clientes -> Nat]
  /\ oyente \in [Clientes -> {"lee", "fin"}]
  /\ vivo \in BOOLEAN
  /\ cable \in [Clientes -> Seq(Lineas)]
  /\ canal \in Seq(Comandos)
  /\ ejecutor = Libre \/ ejecutor \in Hpubs
  /\ publicado \in Seq(Publicados)

(* The publications on the wire of a client and those of his in the        *)
(* channel, told by where they are.                                        *)
PubsCable(c) == {i \in 1..Len(cable[c]) : cable[c][i].tipo \in Publicaciones}
PubsCanal(c) ==
  {i \in 1..Len(canal) : canal[i].op \in Publicaciones /\ canal[i].de = c}

(* The numbers of the publications of one client grow from the executor,   *)
(* which has the oldest, along the channel and then along his wire.        *)
Orden(c) ==
  /\ \A i, j \in PubsCable(c) : i < j => cable[c][i].n < cable[c][j].n
  /\ \A i, j \in PubsCanal(c) : i < j => canal[i].n < canal[j].n
  /\ \A i \in PubsCanal(c), j \in PubsCable(c) : canal[i].n < cable[c][j].n
  /\ ejecutor # Libre /\ ejecutor.de = c =>
       /\ \A i \in PubsCanal(c) : ejecutor.n < canal[i].n
       /\ \A j \in PubsCable(c) : ejecutor.n < cable[c][j].n

(* No number is above those already given.                                 *)
Dados ==
  /\ \A c \in Clientes : enviados[c] <= MaxMensajes[c]
  /\ \A c \in Clientes : \A i \in PubsCable(c) : cable[c][i].n <= enviados[c]
  /\ \A c \in Clientes : \A i \in PubsCanal(c) : canal[i].n <= enviados[c]
  /\ ejecutor # Libre => ejecutor.n <= enviados[ejecutor.de]

(* A line that starts with PUB is followed by its payload, unless the      *)
(* connection broke between the two.                                       *)
Completo(c) ==
  \A i \in 1..Len(cable[c]) :
    /\ cable[c][i].de = c
    /\ cable[c][i].tipo = "PUB" =>
         IF i = Len(cable[c]) THEN cliente[c] = "cerrado"
         ELSE cable[c][i + 1] = Linea("payload", c, cable[c][i].n)

PayloadPropio ==
  \A i \in 1..Len(canal) :
    canal[i].op = "PUB" => canal[i].payload = Origen(canal[i])

Contados ==
  ejecutor # Libre =>
    /\ ejecutor.acum <= BytesHeader
    /\ ejecutor.fase # "cabecera" => ejecutor.acum + 2 = BytesHeader

Inv ==
  /\ Tipado
  /\ \A c \in Clientes : Orden(c)
  /\ Dados
  /\ \A c \in Clientes : Completo(c)
  /\ PayloadPropio
  /\ Contados
  /\ PubIntegra

-----------------------------------------------------------------------------
LEMMA InitInv == Init => Inv
<1>1. SUFFICES ASSUME Init
               PROVE  Inv
  OBVIOUS
<1>2. Tipado
  BY <1>1 DEF Init, Tipado
<1>3. /\ \A c \in Clientes : PubsCable(c) = {} /\ PubsCanal(c) = {}
      /\ ejecutor = Libre
  BY <1>1 DEF Init, PubsCable, PubsCanal
<1>4. Dados
  BY <1>1, <1>3, CanalAssumption DEF Init, Dados
<1>5. QED
  BY <1>1, <1>2, <1>3, <1>4
  DEF Init, Inv, Orden, Completo, PayloadPropio, Contados, PubIntegra

(* What a client puts on the wire for one message: only the first line may *)
(* be a publication, and a PUB comes with its payload.                     *)
LEMMA MensajeLineas ==
  ASSUME NEW c \in Clientes, NEW tipo \in Tipos[c], NEW n \in Nat
  PROVE  LET m == Mensaje(tipo, c, n) IN
         /\ m \in Seq(Lineas)
         /\ Len(m) >= 1
         /\ \A i \in 1..Len(m) :
              /\ m[i].de = c /\ m[i].n = n
              /\ m[i].tipo \in Publicaciones => i = 1
              /\ m[i].tipo = "PUB" =>
                   Len(m) = 2 /\ m[2] = Linea("payload", c, n)
<1> DEFINE medio == [i \in 1..Cabeceras |-> Linea("cabecera", c, n)]
           fin == <<Linea("vacia", c, n), Linea("payload", c, n)>>
           hpub == <<Linea(tipo, c, n)>> \o medio \o fin
<1>1. CASE tipo \in {"PUB", "pub", "PUBmal"}
  <2> DEFINE a == Linea(tipo, c, n)
             b == Linea("payload", c, n)
  <2>1. Mensaje(tipo, c, n) = <<a, b>>
    BY <1>1 DEF Mensaje
  <2>2. a \in Lineas /\ b \in Lineas /\ a.de = c /\ a.n = n /\ b.de = c /\ b.n = n
    BY <1>1 DEF Linea, Lineas, Abierta
  <2>3. b.tipo \notin Publicaciones /\ b.tipo # "PUB"
    BY DEF Linea, Publicaciones
  <2> HIDE DEF a, b
  <2>4. QED
    BY <2>1, <2>2, <2>3 DEF b
<1>2. CASE tipo = "OTRO"
  BY <1>2 DEF Mensaje, Linea, Lineas, Publicaciones, Abierta
<1>3. CASE tipo \in {"HPUB", "HPUBmal"}
  <2>1. Mensaje(tipo, c, n) = hpub
    BY <1>3 DEF Mensaje
  <2>2. /\ medio \in Seq(Lineas) /\ Len(medio) = Cabeceras
        /\ \A i \in 1..Len(medio) : medio[i] = Linea("cabecera", c, n)
    BY CanalAssumption DEF Linea, Lineas, Abierta
  <2>3. /\ <<Linea(tipo, c, n)>> \in Seq(Lineas)
        /\ fin \in Seq(Lineas) /\ Len(fin) = 2
        /\ fin[1] = Linea("vacia", c, n) /\ fin[2] = Linea("payload", c, n)
    BY <1>3 DEF Linea, Lineas, Abierta
  <2> DEFINE uno == <<Linea(tipo, c, n)>>
             cuerpo == uno \o medio
  <2>4. /\ cuerpo \in Seq(Lineas) /\ Len(cuerpo) = Cabeceras + 1
        /\ cuerpo[1] = Linea(tipo, c, n)
        /\ \A i \in 2..Len(cuerpo) : cuerpo[i] = Linea("cabecera", c, n)
    <3>1. uno \in Seq(Lineas) /\ Len(uno) = 1 /\ uno[1] = Linea(tipo, c, n)
      BY <2>3
    <3> HIDE DEF uno, medio
    <3>2. /\ cuerpo \in Seq(Lineas) /\ Len(cuerpo) = Len(uno) + Len(medio)
          /\ \A i \in 1..Len(uno) + Len(medio) :
               cuerpo[i] = IF i <= Len(uno) THEN uno[i] ELSE medio[i - Len(uno)]
      BY <2>2, <3>1, ConcatProperties
    <3> HIDE DEF cuerpo
    <3>3. /\ cuerpo \in Seq(Lineas) /\ Len(cuerpo) = Cabeceras + 1
          /\ cuerpo[1] = Linea(tipo, c, n)
      BY <3>1, <3>2, <2>2, CanalAssumption
    <3>4. ASSUME NEW i \in 2..Len(cuerpo)
          PROVE  cuerpo[i] = Linea("cabecera", c, n)
      <4>1. i - 1 \in 1..Len(medio) /\ i \in 1..Len(uno) + Len(medio) /\ ~(i <= Len(uno))
        BY <3>1, <3>3, <2>2, CanalAssumption
      <4>2. cuerpo[i] = medio[i - 1]
        BY <4>1, <3>1, <3>2
      <4>3. QED
        BY <4>1, <4>2, <2>2
    <3>5. QED
      BY <3>3, <3>4
  <2> HIDE DEF cuerpo, medio
  <2>5. /\ hpub \in Seq(Lineas) /\ Len(hpub) = Cabeceras + 3
        /\ \A i \in 1..Cabeceras + 3 :
             hpub[i] = IF i <= Cabeceras + 1 THEN cuerpo[i]
                       ELSE fin[i - (Cabeceras + 1)]
    <3>1. hpub = cuerpo \o fin
      BY DEF cuerpo
    <3> HIDE DEF hpub, fin
    <3>2. /\ hpub \in Seq(Lineas) /\ Len(hpub) = Len(cuerpo) + Len(fin)
          /\ \A i \in 1..Len(cuerpo) + Len(fin) :
               hpub[i] = IF i <= Len(cuerpo) THEN cuerpo[i] ELSE fin[i - Len(cuerpo)]
      BY <3>1, <2>3, <2>4, ConcatProperties
    <3>3. QED
      BY <3>2, <2>3, <2>4, CanalAssumption
  <2> HIDE DEF hpub
  <2>6. \A i \in 1..Len(hpub) :
          \/ i = 1 /\ hpub[i] = Linea(tipo, c, n)
          \/ i > 1 /\ hpub[i] = Linea("cabecera", c, n)
          \/ i > 1 /\ hpub[i] = Linea("vacia", c, n)
          \/ i > 1 /\ hpub[i] = Linea("payload", c, n)
    <3>1. SUFFICES ASSUME NEW i \in 1..Cabeceras + 3
                   PROVE  \/ i = 1 /\ hpub[i] = Linea(tipo, c, n)
                          \/ i > 1 /\ hpub[i] = Linea("cabecera", c, n)
                          \/ i > 1 /\ hpub[i] = Linea("vacia", c, n)
                          \/ i > 1 /\ hpub[i] = Linea("payload", c, n)
      BY <2>5
    <3> HIDE DEF fin
    <3>2. CASE i = 1
      BY <3>2, <2>4, <2>5, CanalAssumption
    <3>3. CASE i \in 2..Cabeceras + 1
      BY <3>3, <2>4, <2>5, CanalAssumption
    <3>4. CASE i = Cabeceras + 2
      BY <3>4, <2>3, <2>5, CanalAssumption
    <3>5. CASE i = Cabeceras + 3
      BY <3>5, <2>3, <2>5, CanalAssumption
    <3>6. QED
      BY <3>2, <3>3, <3>4, <3>5, CanalAssumption
  <2>7. QED
    BY <1>3, <2>1, <2>5, <2>6, CanalAssumption DEF Linea, Publicaciones
<1>4. QED
  BY <1>1, <1>2, <1>3, CanalAssumption

-----------------------------------------------------------------------------
(* What each action does to the wires and to the channel.                  *)

Elementos ==
  /\ \A c \in Clientes :
       /\ enviados[c] \in Nat
       /\ cable[c] \in Seq(Lineas) /\ Len(cable[c]) \in Nat
       /\ \A i \in 1..Len(cable[c]) :
            cable[c][i] \in Lineas /\ cable[c][i].n \in Nat
       /\ \A i \in PubsCable(c) :
            /\ i \in 1..Len(cable[c]) /\ cable[c][i].n \in Nat
            /\ cable[c][i].tipo \in Publicaciones
       /\ \A i \in PubsCanal(c) :
            /\ i \in 1..Len(canal) /\ canal[i].n \in Nat
            /\ canal[i].op \in Publicaciones /\ canal[i].de = c
  /\ Len(canal) \in Nat
  /\ \A i \in 1..Len(canal) :
       canal[i] \in Comandos /\ canal[i].de \in Clientes /\ canal[i].n \in Nat
  /\ ejecutor # Libre =>
       ejecutor \in Hpubs /\ ejecutor.de \in Clientes /\ ejecutor.n \in Nat

LEMMA TiposDeElementos == Tipado => Elementos
<1> SUFFICES ASSUME Tipado
             PROVE  Elementos
  OBVIOUS
<1>1. \A c \in Clientes :
        /\ enviados[c] \in Nat
        /\ cable[c] \in Seq(Lineas) /\ Len(cable[c]) \in Nat
        /\ \A i \in 1..Len(cable[c]) : cable[c][i] \in Lineas
  BY DEF Tipado
<1>2. \A x \in Lineas : x.n \in Nat
  BY DEF Lineas
<1>3. Len(canal) \in Nat /\ \A i \in 1..Len(canal) : canal[i] \in Comandos
  BY DEF Tipado
<1>4. \A x \in Comandos : x.de \in Clientes /\ x.n \in Nat
  BY DEF Comandos
<1>5. \A x \in Hpubs : x.de \in Clientes /\ x.n \in Nat
  BY DEF Hpubs
<1>6. QED
  BY <1>1, <1>2, <1>3, <1>4, <1>5 DEF Tipado, PubsCable, PubsCanal, Elementos

(* Pendientes, told by places.                                             *)
EsPendiente(c, x) ==
  \/ \E i \in PubsCable(c) : x = cable[c][i].n
  \/ \E i \in PubsCanal(c) : x = canal[i].n
  \/ ejecutor # Libre /\ ejecutor.de = c /\ x = ejecutor.n

LEMMA PendientesPorLugar ==
  ASSUME NEW c \in Clientes, NEW x
  PROVE  /\ x \in Pendientes(c) <=> EsPendiente(c, x)
         /\ x \in Pendientes(c)' <=> EsPendiente(c, x)'
  BY DEF Pendientes, EsPendiente, PubsCable, PubsCanal

SinNuevas == \A c \in Clientes : Pendientes(c)' \subseteq Pendientes(c)

LEMMA EnviaInv ==
  ASSUME Inv, NEW c \in Clientes, Envia(c)
  PROVE  /\ Inv'
         /\ \A d \in Clientes \ {c} : Pendientes(d)' = Pendientes(d)
         /\ \/ Pendientes(c)' = Pendientes(c)
            \/ Pendientes(c)' = Pendientes(c) \cup {enviados[c] + 1}
<1> DEFINE n == enviados[c] + 1
           l == Len(cable[c])
<1>1. Elementos
  BY TiposDeElementos DEF Inv
<1>2. PICK tipo \in Tipos[c] :
        cable' = [cable EXCEPT ![c] = @ \o Mensaje(tipo, c, n)]
  BY DEF Envia
<1> DEFINE m == Mensaje(tipo, c, n)
<1>3. /\ cliente' = cliente /\ cliente[c] = "abierto" /\ oyente' = oyente
      /\ canal' = canal /\ ejecutor' = ejecutor /\ vivo' = vivo
      /\ publicado' = publicado
      /\ enviados' = [enviados EXCEPT ![c] = n]
      /\ enviados[c] < MaxMensajes[c]
  BY DEF Envia, delEjecutor
<1>4. n \in Nat /\ l \in Nat /\ cable[c] \in Seq(Lineas)
      /\ enviados[c] \in Nat
  BY DEF Inv, Tipado
<1>5. /\ m \in Seq(Lineas) /\ Len(m) \in Nat /\ Len(m) >= 1
      /\ \A i \in 1..Len(m) :
           /\ m[i].de = c /\ m[i].n = n
           /\ m[i].tipo \in Publicaciones => i = 1
           /\ m[i].tipo = "PUB" => Len(m) = 2 /\ m[2] = Linea("payload", c, n)
  BY <1>4, MensajeLineas
<1> HIDE DEF m
<1>6. /\ cable'[c] \in Seq(Lineas)
      /\ Len(cable'[c]) = l + Len(m)
      /\ \A i \in 1..l + Len(m) :
           cable'[c][i] = IF i <= l THEN cable[c][i] ELSE m[i - l]
      /\ \A d \in Clientes \ {c} : cable'[d] = cable[d]
      /\ cable' \in [Clientes -> Seq(Lineas)]
  <2>1. cable' = [cable EXCEPT ![c] = cable[c] \o m]
    BY <1>2 DEF m
  <2>2. /\ cable[c] \o m \in Seq(Lineas)
        /\ Len(cable[c] \o m) = l + Len(m)
        /\ \A i \in 1..l + Len(m) :
             (cable[c] \o m)[i] = IF i <= l THEN cable[c][i] ELSE m[i - l]
    BY <1>4, <1>5, ConcatProperties
  <2>3. QED
    BY <2>1, <2>2, <1>4 DEF Inv, Tipado
<1> HIDE DEF l
<1>7. Tipado'
  BY <1>3, <1>4, <1>6 DEF Inv, Tipado
<1>8. ASSUME NEW i \in PubsCable(c)'
      PROVE  \/ /\ i \in PubsCable(c) /\ i <= l
                /\ cable'[c][i] = cable[c][i]
             \/ i = l + 1 /\ cable'[c][i].n = n
  <2>1. i \in 1..l + Len(m) /\ cable'[c][i].tipo \in Publicaciones
    BY <1>6 DEF PubsCable
  <2>2. CASE i <= l
    BY <2>1, <2>2, <1>4, <1>5, <1>6 DEF PubsCable, l
  <2>3. CASE i > l
    <3>1. i - l \in 1..Len(m) /\ cable'[c][i] = m[i - l]
      BY <2>1, <2>3, <1>4, <1>5, <1>6
    <3>2. QED
      BY <2>1, <3>1, <1>4, <1>5
  <2>4. QED
    BY <2>1, <2>2, <2>3, <1>4, <1>5
<1>9. /\ \A d \in Clientes \ {c} : PubsCable(d)' = PubsCable(d)
      /\ \A d \in Clientes : PubsCanal(d)' = PubsCanal(d)
  BY <1>3, <1>6 DEF PubsCable, PubsCanal
<1>10. Dados'
  <2> USE <1>1 DEF Inv, Elementos
  <2>1. \A d \in Clientes :
          /\ enviados'[d] \in Nat /\ enviados[d] <= enviados'[d]
          /\ enviados'[d] <= MaxMensajes[d]
    <3>1. enviados' \in [Clientes -> Nat] /\ enviados'[c] = n
          /\ \A d \in Clientes \ {c} : enviados'[d] = enviados[d]
      BY <1>3, <1>4 DEF Tipado
    <3>2. \A d \in Clientes : MaxMensajes[d] \in Nat
      BY CanalAssumption
    <3>3. QED
      BY <3>1, <3>2, <1>3 DEF Dados
  <2>2. ASSUME NEW i \in PubsCable(c)'
        PROVE  cable'[c][i].n <= enviados'[c]
    <3>1. enviados'[c] = n
      BY <1>3 DEF Tipado
    <3>2. QED
      BY <3>1, <1>4, <1>8, <2>1 DEF Dados
  <2>3. ASSUME NEW d \in Clientes \ {c}, NEW i \in PubsCable(d)'
        PROVE  cable'[d][i].n <= enviados'[d]
    <3>1. i \in PubsCable(d) /\ cable'[d] = cable[d]
      BY <1>6, <1>9
    <3>2. cable[d][i].n <= enviados[d]
      BY <3>1 DEF Dados
    <3>3. QED
      BY <3>1, <3>2, <2>1
  <2>4. ASSUME NEW d \in Clientes, NEW i \in PubsCanal(d)'
        PROVE  canal'[i].n <= enviados'[d]
    BY <1>3, <1>9, <2>1 DEF Dados
  <2>5. ejecutor # Libre => ejecutor.n <= enviados'[ejecutor.de]
    <3>1. ASSUME ejecutor # Libre
          PROVE  /\ ejecutor.de \in Clientes /\ ejecutor.n \in Nat
                 /\ ejecutor.n <= enviados[ejecutor.de]
      BY <3>1 DEF Dados
    <3>2. QED
      BY <3>1, <2>1
  <2>6. QED
    BY <2>1, <2>2, <2>3, <2>4, <2>5, <1>3 DEF Dados
<1>11. \A d \in Clientes : Orden(d)'
  <2>1. ASSUME NEW d \in Clientes \ {c}
        PROVE  Orden(d)'
    <3>1. /\ Orden(d) /\ cable'[d] = cable[d]
          /\ PubsCable(d)' = PubsCable(d) /\ PubsCanal(d)' = PubsCanal(d)
      BY <1>6, <1>9 DEF Inv
    <3>2. QED
      BY <3>1, <1>3 DEF Orden
  <2> USE <1>1 DEF Inv, Elementos
  <2>2. /\ \A i \in PubsCable(c) : i \in 1..l /\ cable[c][i].n < n
        /\ \A i \in PubsCanal(c) : canal[i].n < n
        /\ ejecutor # Libre /\ ejecutor.de = c => ejecutor.n < n
    BY DEF Dados, l
  <2>3. \A i, j \in PubsCable(c)' : i < j => cable'[c][i].n < cable'[c][j].n
    <3>1. ASSUME NEW i \in PubsCable(c)', NEW j \in PubsCable(c)', i < j
          PROVE  cable'[c][i].n < cable'[c][j].n
      <4>1. i \in PubsCable(c) /\ i <= l /\ cable'[c][i] = cable[c][i]
        BY <3>1, <1>4, <1>8, <2>2
      <4>2. QED
        BY <3>1, <4>1, <1>8, <2>2 DEF Orden
    <3>2. QED
      BY <3>1
  <2>4. \A i \in PubsCanal(c)', j \in PubsCable(c)' : canal'[i].n < cable'[c][j].n
    BY <1>3, <1>8, <1>9, <2>2 DEF Orden
  <2>5. Orden(c)'
    BY <1>3, <1>8, <1>9, <2>2, <2>3, <2>4 DEF Orden
  <2>6. QED
    BY <2>1, <2>5
<1>12. \A d \in Clientes : Completo(d)'
  <2>1. ASSUME NEW d \in Clientes \ {c}
        PROVE  Completo(d)'
    BY <2>1, <1>3, <1>6 DEF Inv, Completo
  <2>2. ASSUME NEW i \in 1..l
        PROVE  /\ cable[c][i].de = c
               /\ cable[c][i].tipo = "PUB" =>
                    i # l /\ cable[c][i + 1] = Linea("payload", c, cable[c][i].n)
    BY <1>3 DEF Inv, Completo, l
  <2>3. ASSUME NEW i \in 1..l + Len(m)
        PROVE  /\ cable'[c][i].de = c
               /\ cable'[c][i].tipo = "PUB" =>
                    /\ i # l + Len(m)
                    /\ cable'[c][i + 1] = Linea("payload", c, cable'[c][i].n)
    <3>1. CASE i <= l
      <4>1. i \in 1..l /\ i + 1 \in 1..l + Len(m) /\ cable'[c][i] = cable[c][i]
        BY <3>1, <1>4, <1>5, <1>6
      <4>2. i # l => cable'[c][i + 1] = cable[c][i + 1]
        BY <3>1, <4>1, <1>4, <1>5, <1>6
      <4>3. QED
        BY <4>1, <4>2, <2>2, <1>4, <1>5
    <3>2. CASE i > l
      <4>1. i - l \in 1..Len(m) /\ cable'[c][i] = m[i - l]
        BY <3>2, <1>4, <1>5, <1>6
      <4>2. ASSUME m[i - l].tipo = "PUB"
            PROVE  i = l + 1 /\ Len(m) = 2 /\ cable'[c][i + 1] = m[2]
        <5>1. Len(m) = 2 /\ i - l = 1
          BY <4>1, <4>2, <1>5 DEF Publicaciones
        <5>2. i = l + 1 /\ i + 1 = l + 2 /\ i + 1 \in 1..l + Len(m)
          BY <5>1, <1>4
        <5>3. QED
          BY <5>1, <5>2, <1>4, <1>6
      <4>3. QED
        BY <4>1, <4>2, <1>4, <1>5
    <3>3. QED
      BY <3>1, <3>2, <1>4, <1>5
  <2>4. Completo(c)'
    BY <2>3, <1>6 DEF Completo
  <2>5. QED
    BY <2>1, <2>4
<1>13. PayloadPropio' /\ Contados' /\ PubIntegra'
  BY <1>3 DEF Inv, PayloadPropio, Contados, PubIntegra
<1>14. ASSUME NEW d \in Clientes \ {c}
       PROVE  Pendientes(d)' = Pendientes(d)
  <2>1. cable'[d] = cable[d] /\ PubsCable(d)' = PubsCable(d)
    BY <1>6, <1>9
  <2>2. ASSUME NEW x
        PROVE  EsPendiente(d, x)' <=> EsPendiente(d, x)
    BY <2>1, <1>3, <1>9 DEF EsPendiente
  <2>3. QED
    BY <2>2, PendientesPorLugar
<1>15. \/ Pendientes(c)' = Pendientes(c)
       \/ Pendientes(c)' = Pendientes(c) \cup {n}
  <2>1. ASSUME NEW i \in PubsCable(c)
        PROVE  i \in PubsCable(c)' /\ cable'[c][i] = cable[c][i]
    BY <1>1, <1>4, <1>5, <1>6 DEF PubsCable, Elementos, l
  <2>2. ASSUME NEW x, EsPendiente(c, x)
        PROVE  EsPendiente(c, x)'
    BY <2>1, <2>2, <1>3, <1>9 DEF EsPendiente
  <2>3. ASSUME NEW x, EsPendiente(c, x)'
        PROVE  EsPendiente(c, x) \/ x = n
    BY <2>3, <1>3, <1>8, <1>9 DEF EsPendiente
  <2>4. /\ Pendientes(c) \subseteq Pendientes(c)'
        /\ Pendientes(c)' \subseteq Pendientes(c) \cup {n}
    BY <2>2, <2>3, PendientesPorLugar
  <2>5. QED
    BY <2>4
<1>16. QED
  BY <1>7, <1>10, <1>11, <1>12, <1>13, <1>14, <1>15 DEF Inv

LEMMA CierraInv ==
  ASSUME Inv, NEW c \in Clientes, Cierra(c)
  PROVE  Inv' /\ SinNuevas
<1>1. Elementos
  BY TiposDeElementos DEF Inv
<1>2. PICK k \in 0..Len(cable[c]) : cable' = [cable EXCEPT ![c] = SubSeq(@, 1, k)]
  BY DEF Cierra
<1>3. /\ cliente' = [cliente EXCEPT ![c] = "cerrado"]
      /\ enviados' = enviados /\ oyente' = oyente
      /\ canal' = canal /\ ejecutor' = ejecutor /\ vivo' = vivo
      /\ publicado' = publicado
  BY DEF Cierra, delEjecutor
<1>4. /\ cable'[c] \in Seq(Lineas) /\ Len(cable'[c]) = k
      /\ k \in Nat /\ k <= Len(cable[c])
      /\ \A i \in 1..k : cable'[c][i] = cable[c][i]
      /\ \A d \in Clientes \ {c} : cable'[d] = cable[d]
      /\ cable' \in [Clientes -> Seq(Lineas)]
  <2> DEFINE s == SubSeq(cable[c], 1, k)
  <2>1. /\ k \in Nat /\ k <= Len(cable[c])
        /\ \A i \in 1..k : cable[c][i] \in Lineas
    BY <1>1 DEF Elementos
  <2>2. s \in Seq(Lineas) /\ Len(s) = k /\ \A i \in 1..k : s[i] = cable[c][i]
    BY <2>1, SubSeqProperties
  <2> HIDE DEF s
  <2>3. cable' = [cable EXCEPT ![c] = s]
    BY <1>2 DEF s
  <2>4. QED
    BY <2>1, <2>2, <2>3 DEF Inv, Tipado
<1>5. /\ \A i \in PubsCable(c)' : i \in PubsCable(c) /\ cable'[c][i] = cable[c][i]
      /\ \A d \in Clientes \ {c} : PubsCable(d)' = PubsCable(d)
      /\ \A d \in Clientes : PubsCanal(d)' = PubsCanal(d)
  BY <1>1, <1>3, <1>4 DEF PubsCable, PubsCanal, Elementos
<1>6. Tipado'
  BY <1>3, <1>4 DEF Inv, Tipado
<1>7. \A d \in Clientes : Orden(d)'
  <2>1. Orden(c)'
    BY <1>3, <1>5 DEF Inv, Orden
  <2>2. ASSUME NEW d \in Clientes \ {c}
        PROVE  Orden(d)'
    BY <1>3, <1>4, <1>5 DEF Inv, Orden
  <2>3. QED
    BY <2>1, <2>2
<1>8. Dados'
  <2>1. ASSUME NEW d \in Clientes, NEW i \in PubsCable(d)'
        PROVE  i \in PubsCable(d) /\ cable'[d][i] = cable[d][i]
    BY <1>4, <1>5
  <2>2. QED
    BY <2>1, <1>3, <1>5 DEF Inv, Dados
<1>9. \A d \in Clientes : Completo(d)'
  <2>1. ASSUME NEW d \in Clientes \ {c}
        PROVE  Completo(d)'
    <3>1. cable'[d] = cable[d] /\ cliente'[d] = cliente[d]
      BY <1>3, <1>4 DEF Inv, Tipado
    <3>2. QED
      BY <3>1 DEF Inv, Completo
  <2>2. cliente'[c] = "cerrado"
    BY <1>3 DEF Inv, Tipado
  <2>3. Completo(c)'
    <3>1. ASSUME NEW i \in 1..k
          PROVE  /\ cable'[c][i].de = c
                 /\ cable'[c][i].tipo = "PUB" /\ i # k =>
                      cable'[c][i + 1] = Linea("payload", c, cable'[c][i].n)
      <4>1. /\ i \in 1..Len(cable[c]) /\ cable'[c][i] = cable[c][i]
            /\ i # k => i # Len(cable[c]) /\ cable'[c][i + 1] = cable[c][i + 1]
        BY <1>1, <1>4 DEF Elementos
      <4>2. QED
        BY <4>1 DEF Inv, Completo
    <3>2. QED
      BY <3>1, <2>2, <1>4 DEF Completo
  <2>4. QED
    BY <2>1, <2>3
<1>10. SinNuevas
  <2>1. ASSUME NEW d \in Clientes, NEW i \in PubsCable(d)'
        PROVE  i \in PubsCable(d) /\ cable'[d][i] = cable[d][i]
    BY <1>4, <1>5
  <2>2. ASSUME NEW d \in Clientes, NEW x, EsPendiente(d, x)'
        PROVE  EsPendiente(d, x)
    BY <2>1, <2>2, <1>3, <1>5 DEF EsPendiente
  <2>3. QED
    BY <2>2, PendientesPorLugar DEF SinNuevas
<1>11. QED
  BY <1>3, <1>6, <1>7, <1>8, <1>9, <1>10
  DEF Inv, PayloadPropio, Contados, PubIntegra

(* Every command is what a line said, and a PUB has its own payload.       *)
LEMMA OyenteLeeInv ==
  ASSUME Inv, NEW c \in Clientes, OyenteLee(c)
  PROVE  Inv' /\ SinNuevas
<1> DEFINE l == Len(cable[c])
           a == Atomo(c)
           linea == cable[c][1]
           cmd == Comando(linea, Payload(c))
<1>0. Elementos
  BY TiposDeElementos DEF Inv
<1>1. /\ l \in Nat /\ a \in {1, 2} /\ a <= l
      /\ linea = Head(cable[c]) /\ linea \in Lineas /\ linea.de = c
      /\ linea.n \in Nat /\ linea.tipo \in Abierta \cup {"vacia"}
  <2>1. l \in Nat /\ a \in {1, 2} /\ a <= l /\ linea = Head(cable[c])
    BY <1>0 DEF OyenteLee, Atomo, Elementos
  <2>2. 1 \in 1..l
    BY <2>1
  <2>3. QED
    BY <2>1, <2>2, <1>0 DEF Elementos, Inv, Completo, Lineas
<1>2. /\ cliente' = cliente /\ enviados' = enviados /\ oyente' = oyente
      /\ ejecutor' = ejecutor /\ vivo' = vivo /\ publicado' = publicado
      /\ canal' = IF linea.tipo = "vacia" THEN canal ELSE Append(canal, cmd)
  BY <1>1 DEF OyenteLee, delCliente, delEjecutor, Encola
<1>3. /\ cable'[c] \in Seq(Lineas) /\ Len(cable'[c]) = l - a
      /\ \A i \in 1..l - a : i + a \in 1..l /\ cable'[c][i] = cable[c][i + a]
      /\ \A d \in Clientes \ {c} : cable'[d] = cable[d]
      /\ cable' \in [Clientes -> Seq(Lineas)]
  <2> DEFINE s == SubSeq(cable[c], a + 1, l)
  <2>1. a + 1 \in Int /\ l \in Int /\ \A i \in a + 1..l : cable[c][i] \in Lineas
    BY <1>0, <1>1 DEF Elementos
  <2>2. /\ s \in Seq(Lineas) /\ Len(s) = l - a
        /\ \A i \in 1..l - a : s[i] = cable[c][i + a]
    <3> HIDE DEF l, a
    <3>1. /\ s \in Seq(Lineas) /\ Len(s) = IF a + 1 <= l THEN l - (a + 1) + 1 ELSE 0
          /\ \A i \in 1..l - (a + 1) + 1 : s[i] = cable[c][a + 1 + i - 1]
      BY <2>1, SubSeqProperties
    <3> HIDE DEF s
    <3>2. l - (a + 1) + 1 = l - a /\ \A i \in 1..l - a : a + 1 + i - 1 = i + a
      BY <1>1
    <3>3. QED
      BY <3>1, <3>2, <1>1
  <2> HIDE DEF s
  <2>3. cable' = [cable EXCEPT ![c] = s]
    BY DEF s, OyenteLee
  <2>4. QED
    BY <1>1, <2>2, <2>3 DEF Inv, Tipado
<1>4. /\ Len(canal) \in Nat /\ canal' \in Seq(Comandos)
      /\ \A i \in 1..Len(canal) : canal'[i] = canal[i]
      /\ \/ canal' = canal /\ linea.tipo = "vacia"
         \/ /\ Len(canal') = Len(canal) + 1
            /\ canal'[Len(canal) + 1] = cmd
            /\ linea.tipo # "vacia"
  <2>1. canal \in Seq(Comandos) /\ Len(canal) \in Nat
    BY DEF Inv, Tipado
  <2>2. CASE linea.tipo = "vacia"
    BY <2>1, <2>2, <1>2
  <2>3. CASE linea.tipo # "vacia"
    <3>1. Payload(c) \in Origenes
      <4>1. CASE a = 2
        <5>1. cable[c][2] \in Lineas
          BY <4>1, <1>0, <1>1 DEF Elementos
        <5>2. QED
          BY <4>1, <5>1 DEF Payload, Lineas, Origenes
      <4>2. CASE a # 2
        BY <4>2 DEF Payload, Nada, Origenes
      <4>3. QED
        BY <4>1, <4>2
    <3>2. cmd \in Comandos
      BY <3>1, <2>3, <1>1 DEF Comando, Comandos, Lineas
    <3> HIDE DEF cmd
    <3>3. canal' = Append(canal, cmd)
      BY <2>3, <1>2
    <3>4. QED
      BY <2>1, <2>3, <3>2, <3>3, AppendProperties
  <2>4. QED
    BY <2>2, <2>3
<1>5. Tipado'
  BY <1>2, <1>3, <1>4 DEF Inv, Tipado
<1>6. linea.tipo = "PUB" =>
        a = 2 /\ cable[c][2] = Linea("payload", c, linea.n)
  <2>1. SUFFICES ASSUME linea.tipo = "PUB"
                 PROVE  a = 2 /\ cable[c][2] = Linea("payload", c, linea.n)
    OBVIOUS
  <2>2. a = 2
    BY <2>1, <1>1 DEF Atomo
  <2> HIDE DEF a
  <2>4. \A i \in 1..l : cable[c][i].tipo = "PUB" =>
          IF i = l THEN cliente[c] = "cerrado"
          ELSE cable[c][i + 1] = Linea("payload", c, cable[c][i].n)
    BY DEF Inv, Completo
  <2> HIDE DEF l, linea
  <2>3. 1 \in 1..l /\ 1 # l
    BY <2>2, <1>1
  <2>5. cable[c][1 + 1] = Linea("payload", c, cable[c][1].n)
    BY <2>1, <2>3, <2>4 DEF linea
  <2>6. QED
    BY <2>2, <2>5 DEF linea
<1>7. PayloadPropio'
  <2>1. cmd.op = linea.tipo /\ Origen(cmd) = [de |-> c, n |-> linea.n]
        /\ cmd.payload = Payload(c)
    BY <1>1 DEF Comando, Origen
  <2>2. linea.tipo = "PUB" => Payload(c) = [de |-> c, n |-> linea.n]
    BY <1>6 DEF Payload, Linea
  <2> HIDE DEF cmd
  <2>3. ASSUME NEW i \in 1..Len(canal'), canal'[i].op = "PUB"
        PROVE  canal'[i].payload = Origen(canal'[i])
    BY <2>1, <2>2, <2>3, <1>4 DEF Inv, PayloadPropio
  <2>4. QED
    BY <2>3 DEF PayloadPropio, Origen
<1>8. \A d \in Clientes : Completo(d)'
  <2>1. ASSUME NEW d \in Clientes \ {c}
        PROVE  Completo(d)'
    BY <2>1, <1>2, <1>3 DEF Inv, Completo
  <2>2. ASSUME NEW i \in 1..Len(cable'[c])
        PROVE  /\ cable'[c][i].de = c
               /\ cable'[c][i].tipo = "PUB" =>
                    IF i = Len(cable'[c]) THEN cliente'[c] = "cerrado"
                    ELSE cable'[c][i + 1] = Linea("payload", c, cable'[c][i].n)
    <3> HIDE DEF l, a
    <3>1. /\ i + a \in 1..l /\ cable'[c][i] = cable[c][i + a]
          /\ i = Len(cable'[c]) <=> i + a = l
          /\ i # Len(cable'[c]) => cable'[c][i + 1] = cable[c][i + a + 1]
      BY <1>1, <1>3
    <3>2. QED
      BY <3>1, <1>2 DEF Inv, Completo, l
  <2>3. Completo(c)'
    BY <2>2 DEF Completo
  <2>4. QED
    BY <2>1, <2>3
<1> HIDE DEF l, a, linea
<1>9. /\ linea.tipo \in Publicaciones => 1 \in PubsCable(c) /\ cable[c][1] = linea
      /\ \A i \in PubsCable(c) : i \in Nat /\ 1 <= i
      /\ \A i \in PubsCable(c)' :
           i + a \in PubsCable(c) /\ cable'[c][i] = cable[c][i + a]
      /\ \A d \in Clientes \ {c} : PubsCable(d)' = PubsCable(d)
  BY <1>0, <1>1, <1>3 DEF PubsCable, Elementos, l, linea
<1>10. \A d \in Clientes : \A i \in PubsCanal(d)' :
         \/ i \in PubsCanal(d) /\ canal'[i] = canal[i]
         \/ /\ i = Len(canal) + 1 /\ d = c
            /\ linea.tipo \in Publicaciones /\ canal'[i].n = linea.n
  <2>1. cmd.op = linea.tipo /\ cmd.de = c /\ cmd.n = linea.n
    BY <1>1 DEF Comando
  <2> HIDE DEF cmd
  <2>2. SUFFICES ASSUME NEW d \in Clientes, NEW i \in PubsCanal(d)'
                 PROVE  \/ i \in PubsCanal(d) /\ canal'[i] = canal[i]
                        \/ /\ i = Len(canal) + 1 /\ d = c
                           /\ linea.tipo \in Publicaciones /\ canal'[i].n = linea.n
    OBVIOUS
  <2>3. i \in 1..Len(canal') /\ canal'[i].op \in Publicaciones /\ canal'[i].de = d
    BY DEF PubsCanal
  <2>4. QED
    BY <2>1, <2>3, <1>4 DEF PubsCanal
<1>11. \A d \in Clientes : Orden(d)'
  <2>1. ASSUME NEW d \in Clientes \ {c}
        PROVE  Orden(d)'
    <3>1. /\ Orden(d) /\ cable'[d] = cable[d] /\ PubsCable(d)' = PubsCable(d)
          /\ \A i \in PubsCanal(d)' : i \in PubsCanal(d) /\ canal'[i] = canal[i]
      BY <1>3, <1>9, <1>10 DEF Inv
    <3>2. QED
      BY <3>1, <1>2 DEF Orden
  <2> USE <1>0 DEF Inv, Elementos
  <2>2. \A i, j \in PubsCable(c)' : i < j => cable'[c][i].n < cable'[c][j].n
    <3>1. SUFFICES ASSUME NEW i \in PubsCable(c)', NEW j \in PubsCable(c)', i < j
                   PROVE  cable'[c][i].n < cable'[c][j].n
      OBVIOUS
    <3>2. i \in Nat /\ j \in Nat
      BY <1>3 DEF PubsCable
    <3>3. i + a < j + a
      BY <3>1, <3>2, <1>1
    <3>4. QED
      BY <3>3, <1>9 DEF Orden
  <2>3. linea.tipo \in Publicaciones =>
          /\ \A i \in PubsCable(c)' : linea.n < cable'[c][i].n
          /\ \A i \in PubsCanal(c) : canal[i].n < linea.n
          /\ ejecutor # Libre /\ ejecutor.de = c => ejecutor.n < linea.n
    <3>1. ASSUME linea.tipo \in Publicaciones, NEW i \in PubsCable(c)'
          PROVE  linea.n < cable'[c][i].n
      <4>1. i \in Nat /\ 1 <= i
        BY <1>1, <1>3 DEF PubsCable
      <4>2. 1 < i + a
        BY <4>1, <1>1
      <4>3. QED
        BY <3>1, <4>2, <1>9 DEF Orden
    <3>2. QED
      BY <3>1, <1>9 DEF Orden
  <2>4. \A i, j \in PubsCanal(c)' : i < j => canal'[i].n < canal'[j].n
    <3>1. SUFFICES ASSUME NEW i \in PubsCanal(c)', NEW j \in PubsCanal(c)', i < j
                   PROVE  canal'[i].n < canal'[j].n
      OBVIOUS
    <3>2. i \in PubsCanal(c) /\ canal'[i] = canal[i]
      <4>1. i \in 1..Len(canal') /\ j \in 1..Len(canal')
        BY DEF PubsCanal
      <4>2. i # Len(canal) + 1
        BY <4>1, <3>1, <1>4
      <4>3. QED
        BY <4>2, <1>10
    <3>3. QED
      BY <3>1, <3>2, <2>3, <1>10 DEF Orden
  <2>5. \A i \in PubsCanal(c)', j \in PubsCable(c)' : canal'[i].n < cable'[c][j].n
    BY <2>3, <1>9, <1>10 DEF Orden
  <2>6. ejecutor' # Libre /\ ejecutor'.de = c =>
          /\ \A i \in PubsCanal(c)' : ejecutor'.n < canal'[i].n
          /\ \A j \in PubsCable(c)' : ejecutor'.n < cable'[c][j].n
    BY <2>3, <1>2, <1>9, <1>10 DEF Orden
  <2>7. Orden(c)'
    BY <2>2, <2>4, <2>5, <2>6 DEF Orden
  <2>8. QED
    BY <2>1, <2>7
<1>12. Dados'
  <2>1. linea.tipo \in Publicaciones => linea.n <= enviados[c]
    BY <1>9 DEF Inv, Dados
  <2>2. ASSUME NEW d \in Clientes, NEW i \in PubsCanal(d)'
        PROVE  canal'[i].n <= enviados[d]
    BY <2>1, <1>10 DEF Inv, Dados
  <2>3. ASSUME NEW d \in Clientes, NEW i \in PubsCable(d)'
        PROVE  cable'[d][i].n <= enviados[d]
    BY <1>3, <1>9 DEF Inv, Dados
  <2>4. QED
    BY <2>2, <2>3, <1>2 DEF Inv, Dados
<1>13. SinNuevas
  <2>1. ASSUME NEW d \in Clientes, NEW i \in PubsCable(d)'
        PROVE  \E j \in PubsCable(d) : cable'[d][i].n = cable[d][j].n
    <3>1. CASE d = c
      BY <3>1, <2>1, <1>9
    <3>2. CASE d # c
      <4>1. i \in PubsCable(d) /\ cable'[d] = cable[d]
        BY <3>2, <2>1, <1>3, <1>9
      <4>2. QED
        BY <4>1
    <3>3. QED
      BY <3>1, <3>2
  <2>2. ASSUME NEW d \in Clientes, NEW i \in PubsCanal(d)'
        PROVE  \/ i \in PubsCanal(d) /\ canal'[i].n = canal[i].n
               \/ \E j \in PubsCable(d) : canal'[i].n = cable[d][j].n
    BY <1>9, <1>10
  <2>3. ASSUME NEW d \in Clientes, NEW x, EsPendiente(d, x)'
        PROVE  EsPendiente(d, x)
    <3>1. CASE \E i \in PubsCable(d)' : x = cable'[d][i].n
      BY <3>1, <2>1 DEF EsPendiente
    <3>2. CASE \E i \in PubsCanal(d)' : x = canal'[i].n
      BY <3>2, <2>2 DEF EsPendiente
    <3>3. CASE ejecutor # Libre /\ ejecutor.de = d /\ x = ejecutor.n
      BY <3>3 DEF EsPendiente
    <3>4. QED
      BY <2>3, <3>1, <3>2, <3>3, <1>2 DEF EsPendiente
  <2>4. QED
    BY <2>3, PendientesPorLugar DEF SinNuevas
<1>14. QED
  BY <1>2, <1>5, <1>7, <1>8, <1>11, <1>12, <1>13
  DEF Inv, Contados, PubIntegra

LEMMA OyenteTerminaInv ==
  ASSUME Inv, NEW c \in Clientes, OyenteTermina(c)
  PROVE  Inv' /\ SinNuevas
<1> DEFINE cmd == [op |-> "SHUTDOWN", de |-> c, n |-> 0, payload |-> Nada]
<1>1. Elementos
  BY TiposDeElementos DEF Inv
<1>2. /\ cliente' = cliente /\ enviados' = enviados
      /\ oyente' = [oyente EXCEPT ![c] = "fin"]
      /\ ejecutor' = ejecutor /\ vivo' = vivo /\ publicado' = publicado
      /\ canal' = Append(canal, cmd)
  BY DEF OyenteTermina, delCliente, delEjecutor, Encola
<1>3. /\ cable' \in [Clientes -> Seq(Lineas)] /\ cable'[c] = << >>
      /\ \A d \in Clientes \ {c} : cable'[d] = cable[d]
  BY DEF OyenteTermina, Inv, Tipado
<1>4. cmd \in Comandos /\ cmd.op \notin Publicaciones
  BY DEF Comandos, Abierta, Origenes, Nada, Publicaciones
<1> HIDE DEF cmd
<1>5. /\ canal' \in Seq(Comandos) /\ Len(canal') = Len(canal) + 1
      /\ \A i \in 1..Len(canal) : canal'[i] = canal[i]
      /\ canal'[Len(canal) + 1] = cmd
  BY <1>2, <1>4, AppendProperties DEF Inv, Tipado
<1>6. Tipado'
  BY <1>2, <1>3, <1>5 DEF Inv, Tipado
<1>7. /\ \A d \in Clientes : \A i \in PubsCanal(d)' :
           i \in PubsCanal(d) /\ canal'[i] = canal[i]
      /\ PubsCable(c)' = {}
      /\ \A d \in Clientes \ {c} : PubsCable(d)' = PubsCable(d)
  BY <1>1, <1>3, <1>4, <1>5 DEF PubsCable, PubsCanal, Elementos
<1>8. \A d \in Clientes : Orden(d)' /\ Completo(d)'
  <2>1. ASSUME NEW d \in Clientes \ {c}
        PROVE  Orden(d)' /\ Completo(d)'
    <3>1. cable'[d] = cable[d] /\ PubsCable(d)' = PubsCable(d)
      BY <1>3, <1>7
    <3>2. Orden(d)'
      BY <1>2, <1>7, <3>1 DEF Inv, Orden
    <3>3. Completo(d)'
      BY <1>2, <3>1 DEF Inv, Completo
    <3>4. QED
      BY <3>2, <3>3
  <2>2. Orden(c)' /\ Completo(c)'
    <3>1. Orden(c)'
      BY <1>2, <1>7 DEF Inv, Orden
    <3>2. Len(cable'[c]) = 0
      BY <1>3
    <3>3. Completo(c)'
      BY <3>2 DEF Completo
    <3>4. QED
      BY <3>1, <3>3
  <2>3. QED
    BY <2>1, <2>2
<1>9. Dados'
  <2>1. ASSUME NEW d \in Clientes, NEW i \in PubsCable(d)'
        PROVE  i \in PubsCable(d) /\ cable'[d] = cable[d]
    BY <1>3, <1>7
  <2>2. QED
    BY <2>1, <1>2, <1>7 DEF Inv, Dados
<1>10. PayloadPropio'
  BY <1>1, <1>4, <1>5
  DEF Inv, PayloadPropio, Origen, Elementos, Publicaciones
<1>11. SinNuevas
  <2>1. ASSUME NEW d \in Clientes, NEW i \in PubsCable(d)'
        PROVE  i \in PubsCable(d) /\ cable'[d][i] = cable[d][i]
    BY <1>3, <1>7
  <2>2. ASSUME NEW d \in Clientes, NEW x, EsPendiente(d, x)'
        PROVE  EsPendiente(d, x)
    BY <2>1, <2>2, <1>2, <1>7 DEF EsPendiente
  <2>3. QED
    BY <2>2, PendientesPorLugar DEF SinNuevas
<1>12. QED
  BY <1>2, <1>6, <1>8, <1>9, <1>10, <1>11 DEF Inv, Contados, PubIntegra

-----------------------------------------------------------------------------
(* The executor.  What it takes is the oldest element of the channel.      *)

LEMMA RecibeCanal ==
  ASSUME Inv, Recibe
  PROVE  /\ Head(canal) = canal[1] /\ 1 \in 1..Len(canal)
         /\ canal[1] \in Comandos
         /\ canal' \in Seq(Comandos) /\ Len(canal') = Len(canal) - 1
         /\ \A i \in 1..Len(canal') :
              i + 1 \in 1..Len(canal) /\ canal'[i] = canal[i + 1]
         /\ \A c \in Clientes : \A i \in PubsCanal(c)' :
              /\ i \in Nat /\ 1 <= i /\ canal'[i] = canal[i + 1]
              /\ i + 1 \in PubsCanal(c)
         /\ \A c \in Clientes : PubsCable(c)' = PubsCable(c)
         /\ cliente' = cliente /\ enviados' = enviados
         /\ cable' = cable /\ oyente' = oyente /\ vivo
<1>1. canal \in Seq(Comandos) /\ canal # << >>
  BY DEF Inv, Tipado, Recibe
<1>2. /\ Head(canal) = canal[1] /\ 1 \in 1..Len(canal) /\ canal[1] \in Comandos
      /\ Len(canal) \in Nat
  BY <1>1
<1>3. /\ canal' \in Seq(Comandos) /\ Len(canal') = Len(canal) - 1
      /\ \A i \in 1..Len(canal') : canal'[i] = canal[i + 1]
  BY <1>1, HeadTailProperties DEF Recibe
<1>4. \A c \in Clientes : PubsCable(c)' = PubsCable(c)
  BY DEF Recibe, PubsCable
<1>5. \A i \in 1..Len(canal') : i + 1 \in 1..Len(canal)
  BY <1>2, <1>3
<1>6. QED
  BY <1>2, <1>3, <1>4, <1>5 DEF Recibe, delCliente, PubsCanal

(* After it the executor is free, or goes on with the same message, or has *)
(* begun with the one it took: the rest is younger in every case.          *)
EjecutorSigue ==
  \/ ejecutor' = Libre
  \/ /\ ejecutor # Libre
     /\ ejecutor'.de = ejecutor.de /\ ejecutor'.n = ejecutor.n
  \/ /\ Head(canal).op \in Publicaciones
     /\ ejecutor'.de = Head(canal).de /\ ejecutor'.n = Head(canal).n

LEMMA RecibeInv ==
  ASSUME Inv, Recibe, EjecutorSigue
  PROVE  /\ \A c \in Clientes : Orden(c)' /\ Completo(c)'
         /\ Dados'
         /\ PayloadPropio'
         /\ SinNuevas
<1>1. Elementos
  BY TiposDeElementos DEF Inv
<1>2. ASSUME Head(canal).op \in Publicaciones
      PROVE  1 \in PubsCanal(Head(canal).de) /\ Head(canal).de \in Clientes
  BY <1>2, <1>1, RecibeCanal DEF PubsCanal, Elementos
<1>3. ASSUME NEW c \in Clientes
      PROVE  Orden(c)'
  <2>1. Orden(c)
    BY DEF Inv
  <2>2. ASSUME NEW i \in PubsCanal(c)'
        PROVE  /\ i \in Nat /\ i + 1 \in PubsCanal(c)
               /\ canal'[i] = canal[i + 1]
    BY RecibeCanal
  <2>3. /\ \A i, j \in PubsCanal(c)' : i < j => canal'[i].n < canal'[j].n
        /\ \A i \in PubsCanal(c)', j \in PubsCable(c)' :
             canal'[i].n < cable'[c][j].n
    <3>1. cable' = cable /\ PubsCable(c)' = PubsCable(c)
      BY RecibeCanal
    <3>2. ASSUME NEW i \in PubsCanal(c)', NEW j \in PubsCanal(c)', i < j
          PROVE  canal'[i].n < canal'[j].n
      <4>1. i + 1 < j + 1
        BY <2>2, <3>2
      <4>2. QED
        BY <4>1, <2>1, <2>2 DEF Orden
    <3>3. QED
      BY <2>1, <2>2, <3>1, <3>2 DEF Orden
  <2>4. ASSUME ejecutor' # Libre, ejecutor'.de = c
        PROVE  /\ \A i \in PubsCanal(c)' : ejecutor'.n < canal'[i].n
               /\ \A j \in PubsCable(c)' : ejecutor'.n < cable'[c][j].n
    <3>1. CASE ejecutor # Libre /\ ejecutor'.de = ejecutor.de /\ ejecutor'.n = ejecutor.n
      BY <3>1, <2>1, <2>4, RecibeCanal DEF Orden
    <3>2. CASE /\ Head(canal).op \in Publicaciones
               /\ ejecutor'.de = Head(canal).de /\ ejecutor'.n = Head(canal).n
      <4>1. 1 \in PubsCanal(c) /\ ejecutor'.n = canal[1].n
        BY <3>2, <2>4, <1>2, RecibeCanal
      <4>2. ASSUME NEW i \in PubsCanal(c)'
            PROVE  i + 1 \in PubsCanal(c) /\ 1 < i + 1 /\ canal'[i] = canal[i + 1]
        BY RecibeCanal
      <4>3. QED
        BY <4>1, <4>2, <2>1, RecibeCanal DEF Orden
    <3>3. QED
      BY <3>1, <3>2, <2>4 DEF EjecutorSigue
  <2>5. QED
    BY <2>1, <2>2, <2>3, <2>4, RecibeCanal DEF Orden
<1>4. ASSUME NEW c \in Clientes
      PROVE  Completo(c)'
  BY RecibeCanal DEF Inv, Completo
<1>5. Dados'
  <2>1. ASSUME ejecutor' # Libre
        PROVE  ejecutor'.n <= enviados[ejecutor'.de]
    <3>1. CASE ejecutor # Libre /\ ejecutor'.de = ejecutor.de /\ ejecutor'.n = ejecutor.n
      BY <3>1 DEF Inv, Dados
    <3>2. CASE /\ Head(canal).op \in Publicaciones
               /\ ejecutor'.de = Head(canal).de /\ ejecutor'.n = Head(canal).n
      BY <3>2, <1>2, RecibeCanal DEF Inv, Dados
    <3>3. QED
      BY <3>1, <3>2, <2>1 DEF EjecutorSigue
  <2>2. QED
    BY <2>1, RecibeCanal DEF Inv, Dados
<1>6. PayloadPropio'
  BY RecibeCanal DEF Inv, PayloadPropio, Origen
<1>7. SinNuevas
  <2>1. ASSUME NEW d \in Clientes, NEW x, EsPendiente(d, x)'
        PROVE  EsPendiente(d, x)
    <3>1. CASE ejecutor' # Libre /\ ejecutor'.de = d /\ x = ejecutor'.n
      BY <3>1, <1>2, RecibeCanal DEF EjecutorSigue, EsPendiente
    <3>2. CASE \E i \in PubsCable(d)' : x = cable'[d][i].n
      BY <3>2, RecibeCanal DEF EsPendiente
    <3>3. CASE \E i \in PubsCanal(d)' : x = canal'[i].n
      BY <3>3, RecibeCanal DEF EsPendiente
    <3>4. QED
      BY <2>1, <3>1, <3>2, <3>3 DEF EsPendiente
  <2>2. QED
    BY <2>1, PendientesPorLugar DEF SinNuevas
<1>8. QED
  BY <1>3, <1>4, <1>5, <1>6, <1>7

(* Nothing about the wires changes; what is left to see is the executor's  *)
(* own state.                                                              *)
LEMMA EjecutaInv ==
  ASSUME Inv, Recibe, EjecutorSigue,
         ejecutor' = Libre \/ ejecutor' \in Hpubs, vivo' \in BOOLEAN,
         publicado' \in Seq(Publicados), Contados', PubIntegra'
  PROVE  Inv' /\ SinNuevas
<1>1. Tipado'
  BY RecibeCanal DEF Inv, Tipado
<1>2. QED
  BY <1>1, RecibeInv DEF Inv

LEMMA EjPubInv ==
  ASSUME Inv, EjPub
  PROVE  Inv' /\ SinNuevas
<1> DEFINE m == canal[1]
           p == Publicacion("PUB", m.de, m.n, m.payload, << >>)
<1>1. /\ Recibe /\ m = Head(canal) /\ m \in Comandos /\ m.op = "PUB"
      /\ 1 \in 1..Len(canal)
      /\ ejecutor = Libre /\ ejecutor' = Libre /\ vivo' = vivo
      /\ publicado' = Append(publicado, p)
  BY RecibeCanal DEF EjPub
<1>2. p \in Publicados /\ p.op = "PUB" /\ p.payload = Origen(p)
  <2>1. m.payload = Origen(m)
    BY <1>1 DEF Inv, PayloadPropio
  <2>2. QED
    BY <1>1, <2>1 DEF Publicados, Publicacion, Origen, Comandos, Publicaciones
<1> HIDE DEF p
<1>3. /\ publicado' \in Seq(Publicados) /\ Len(publicado') = Len(publicado) + 1
      /\ \A i \in 1..Len(publicado) : publicado'[i] = publicado[i]
      /\ publicado'[Len(publicado) + 1] = p
      /\ Len(publicado) \in Nat
  BY <1>1, <1>2, AppendProperties DEF Inv, Tipado
<1>4. PubIntegra'
  BY <1>2, <1>3 DEF Inv, PubIntegra, Origen
<1>5. QED
  BY <1>1, <1>3, <1>4, EjecutaInv DEF Inv, Tipado, EjecutorSigue, Contados

LEMMA SinHpubInv ==
  ASSUME Inv, EjPanico \/ EjRechaza \/ EjOtro
  PROVE  Inv' /\ SinNuevas
  BY EjecutaInv
  DEF EjPanico, EjRechaza, EjOtro, delEjecutor, Inv, Tipado, EjecutorSigue, Contados, PubIntegra

LEMMA EjHpubInv ==
  ASSUME Inv, EjHpub
  PROVE  Inv' /\ SinNuevas
<1>1. /\ Recibe /\ Head(canal) \in Comandos /\ Head(canal).op = "HPUB"
      /\ ejecutor' = [fase |-> "cabecera", de |-> Head(canal).de,
                      n |-> Head(canal).n, acum |-> 0, cabecera |-> << >>]
      /\ vivo' = vivo /\ publicado' = publicado
  BY RecibeCanal DEF EjHpub
<1>2. ejecutor' \in Hpubs /\ ejecutor'.acum = 0 /\ ejecutor'.fase = "cabecera"
  BY <1>1 DEF Hpubs, Comandos
<1>3. EjecutorSigue
  BY <1>1 DEF EjecutorSigue, Publicaciones
<1>4. BytesHeader \in Nat
  BY CanalAssumption DEF BytesHeader
<1>5. QED
  BY <1>1, <1>2, <1>3, <1>4, EjecutaInv
  DEF Inv, Tipado, Contados, PubIntegra

LEMMA LargoNat ==
  ASSUME NEW m \in Comandos
  PROVE  LargoDe(m) \in Nat
  BY CanalAssumption DEF Comandos, Abierta, LargoDe

LEMMA EjCabeceraInv ==
  ASSUME Inv, EjCabecera
  PROVE  Inv' /\ SinNuevas
<1> DEFINE m == Head(canal)
           acum == ejecutor.acum + LargoDe(m) + 2
<1>1. /\ Recibe /\ m \in Comandos /\ vivo' = vivo /\ publicado' = publicado
      /\ ejecutor.fase = "cabecera"
      /\ ejecutor' =
           IF acum + 2 > BytesHeader
           THEN [ejecutor EXCEPT !.acum = BytesHeader]
           ELSE [ejecutor EXCEPT
                   !.fase = IF acum + 2 = BytesHeader THEN "vacio" ELSE @,
                   !.acum = acum,
                   !.cabecera = Append(@, Origen(m))]
  BY RecibeCanal DEF EjCabecera
<1>2. ejecutor \in Hpubs /\ ejecutor # Libre
  BY <1>1 DEF Inv, Tipado, Libre
<1>3. BytesHeader \in Nat /\ LargoDe(m) \in Nat /\ Origen(m) \in Origenes
  <2>1. BytesHeader \in Nat
    BY CanalAssumption DEF BytesHeader
  <2>2. Origen(m) \in Origenes
    BY <1>1 DEF Origen, Origenes, Comandos
  <2>3. QED
    BY <2>1, <2>2, <1>1, LargoNat
<1>4. acum \in Nat
  BY <1>2, <1>3 DEF Hpubs
<1>5. Append(ejecutor.cabecera, Origen(m)) \in Seq(Origenes)
  BY <1>2, <1>3 DEF Hpubs
<1> DEFINE h == Append(ejecutor.cabecera, Origen(m))
<1> HIDE DEF acum, m, h
<1>6. /\ ejecutor' \in Hpubs /\ ejecutor'.de = ejecutor.de
      /\ ejecutor'.n = ejecutor.n
      /\ ejecutor'.acum <= BytesHeader
      /\ ejecutor'.fase # "cabecera" => ejecutor'.acum + 2 = BytesHeader
  <2>1. CASE acum + 2 > BytesHeader
    <3>1. ejecutor' = [ejecutor EXCEPT !.acum = BytesHeader]
      BY <2>1, <1>1
    <3>2. QED
      BY <3>1, <1>1, <1>2, <1>3 DEF Hpubs
  <2>2. CASE acum + 2 = BytesHeader
    <3>1. ejecutor' = [ejecutor EXCEPT !.fase = "vacio", !.acum = acum,
                         !.cabecera = h]
      BY <2>2, <1>1, <1>3, <1>4 DEF h
    <3>2. h \in Seq(Origenes)
      BY <1>5 DEF h
    <3>3. /\ ejecutor' \in Hpubs /\ ejecutor'.de = ejecutor.de
          /\ ejecutor'.n = ejecutor.n
          /\ ejecutor'.fase = "vacio" /\ ejecutor'.acum = acum
      BY <3>1, <3>2, <1>2, <1>4 DEF Hpubs
    <3>4. QED
      BY <3>3, <2>2, <1>3, <1>4
  <2>3. CASE acum + 2 < BytesHeader
    <3>1. ejecutor' = [ejecutor EXCEPT !.fase = ejecutor.fase, !.acum = acum,
                         !.cabecera = h]
      <4>1. ~(acum + 2 > BytesHeader) /\ acum + 2 # BytesHeader
        BY <2>3, <1>3, <1>4
      <4>2. QED
        BY <4>1, <1>1 DEF h
    <3>2. h \in Seq(Origenes) /\ ejecutor.fase \in {"cabecera", "vacio", "payload"}
      BY <1>2, <1>5 DEF h, Hpubs
    <3>3. /\ ejecutor' \in Hpubs /\ ejecutor'.de = ejecutor.de
          /\ ejecutor'.n = ejecutor.n
          /\ ejecutor'.fase = ejecutor.fase /\ ejecutor'.acum = acum
      BY <3>1, <3>2, <1>2, <1>4 DEF Hpubs
    <3>4. QED
      BY <3>3, <2>3, <1>1, <1>3, <1>4
  <2>4. QED
    BY <2>1, <2>2, <2>3, <1>3, <1>4
<1>7. QED
  BY <1>1, <1>2, <1>6, EjecutaInv
  DEF Inv, Tipado, EjecutorSigue, Contados, PubIntegra

LEMMA EjVacioInv ==
  ASSUME Inv, EjVacio
  PROVE  Inv' /\ SinNuevas
<1>1. /\ Recibe /\ vivo' = vivo /\ publicado' = publicado
      /\ ejecutor.fase = "vacio"
      /\ ejecutor' = [ejecutor EXCEPT !.fase = "payload"]
  BY DEF EjVacio
<1>2. ejecutor \in Hpubs /\ ejecutor # Libre
  BY <1>1 DEF Inv, Tipado, Libre
<1>3. /\ ejecutor' \in Hpubs /\ ejecutor'.de = ejecutor.de
      /\ ejecutor'.n = ejecutor.n /\ ejecutor'.acum = ejecutor.acum
  BY <1>1, <1>2 DEF Hpubs
<1>4. QED
  BY <1>1, <1>2, <1>3, EjecutaInv
  DEF Inv, Tipado, EjecutorSigue, Contados, PubIntegra

LEMMA EjPayloadInv ==
  ASSUME Inv, EjPayload
  PROVE  Inv' /\ SinNuevas
<1> DEFINE p == Publicacion("HPUB", ejecutor.de, ejecutor.n,
                            Origen(Head(canal)), ejecutor.cabecera)
<1>1. /\ Recibe /\ Head(canal) \in Comandos /\ vivo' = vivo
      /\ ejecutor.fase = "payload" /\ ejecutor' = Libre
      /\ publicado' = Append(publicado, p)
  BY RecibeCanal DEF EjPayload
<1>2. ejecutor \in Hpubs
  BY <1>1 DEF Inv, Tipado, Libre
<1>3. p \in Publicados /\ p.op = "HPUB"
  BY <1>1, <1>2
  DEF Hpubs, Publicados, Publicacion, Publicaciones, Comandos, Origen, Origenes
<1> HIDE DEF p
<1>4. /\ publicado' \in Seq(Publicados) /\ Len(publicado') = Len(publicado) + 1
      /\ \A i \in 1..Len(publicado) : publicado'[i] = publicado[i]
      /\ publicado'[Len(publicado) + 1] = p
      /\ Len(publicado) \in Nat
  BY <1>1, <1>3, AppendProperties DEF Inv, Tipado
<1>5. PubIntegra'
  BY <1>3, <1>4 DEF Inv, PubIntegra, Origen
<1>6. QED
  BY <1>1, <1>4, <1>5, EjecutaInv DEF Inv, Tipado, EjecutorSigue, Contados

-----------------------------------------------------------------------------
LEMMA NextInv == Inv /\ [Next]_vars => Inv'
<1>1. SUFFICES ASSUME Inv, [Next]_vars
               PROVE  Inv'
  OBVIOUS
<1>2. CASE Ejecuta
  BY <1>1, <1>2, EjPubInv, SinHpubInv, EjHpubInv, EjCabeceraInv, EjVacioInv,
     EjPayloadInv DEF Ejecuta
<1>3. CASE \E c \in Clientes : Envia(c) \/ Cierra(c) \/ Oyente(c)
  BY <1>1, <1>3, EnviaInv, CierraInv, OyenteLeeInv, OyenteTerminaInv DEF Oyente
<1>4. CASE UNCHANGED vars
  <2>1. /\ cliente' = cliente /\ enviados' = enviados /\ cable' = cable
        /\ oyente' = oyente /\ canal' = canal /\ ejecutor' = ejecutor
        /\ vivo' = vivo /\ publicado' = publicado
    BY <1>4 DEF vars
  <2>2. \A c \in Clientes :
          PubsCable(c)' = PubsCable(c) /\ PubsCanal(c)' = PubsCanal(c)
    BY <2>1 DEF PubsCable, PubsCanal
  <2>3. Tipado' /\ PayloadPropio' /\ Contados' /\ PubIntegra'
    BY <1>1, <2>1 DEF Inv, Tipado, PayloadPropio, Contados, PubIntegra
  <2>4. (\A c \in Clientes : Orden(c)' /\ Completo(c)') /\ Dados'
    BY <1>1, <2>1, <2>2 DEF Inv, Orden, Dados, Completo
  <2>5. QED
    BY <2>3, <2>4 DEF Inv
<1>5. QED
  BY <1>1, <1>2, <1>3, <1>4 DEF Next

LEMMA InvSiempre == Spec => []Inv
  BY InitInv, NextInv, PTL DEF Spec

(* The tables are typed, and the bytes that the executor counts while it   *)
(* takes the headers of an HPUB never pass those announced.                *)
THEOREM TypeOKSiempre == Spec => []TypeOK
<1>1. Inv => TypeOK
  BY CanalAssumption DEF Inv, Tipado, Dados, Contados, Hpubs, TypeOK
<1>2. QED
  BY InvSiempre, <1>1, PTL

(* However the lines of the clients mix in the channel, and whatever an    *)
(* HPUB takes out of it, a PUB is published with its own payload.          *)
THEOREM PubIntegraSiempre == Spec => []PubIntegra
<1>1. Inv => PubIntegra
  BY DEF Inv
<1>2. QED
  BY InvSiempre, <1>1, PTL

-----------------------------------------------------------------------------
(* The refinement: what each step does to the publications pending and to  *)
(* those published.                                                        *)

LEMMA PierdeSinNuevas ==
  ASSUME SinNuevas
  PROVE  Promesa!PuedePerder
<1> DEFINE p == [c \in Clientes |-> Pendientes(c)]
<1>1. ASSUME NEW c \in Clientes
      PROVE  p'[c] \subseteq p[c] /\ p'[c] \in SUBSET UNION {p[d] : d \in Clientes}
  <2>1. p'[c] = Pendientes(c)' /\ p[c] = Pendientes(c)
    OBVIOUS
  <2>2. p[c] \in {p[d] : d \in Clientes}
    OBVIOUS
  <2>3. QED
    BY <2>1, <2>2 DEF SinNuevas
<1>2. p' \in [Clientes -> SUBSET UNION {p[d] : d \in Clientes}]
  BY <1>1
<1>3. QED
  BY <1>1, <1>2 DEF Promesa!PuedePerder

(* Nothing is published and nothing new is pending.                        *)
LEMMA PasoPierde ==
  ASSUME SinNuevas, enviados' = enviados, publicado' = publicado
  PROVE  Promesa!Next
  BY PierdeSinNuevas DEF Promesa!Next, Promesa!Pierde

LEMMA PasoEnvia ==
  ASSUME Inv, NEW c \in Clientes, Envia(c)
  PROVE  Promesa!Next
<1> DEFINE p == [d \in Clientes |-> Pendientes(d)]
<1>1. enviados' = [enviados EXCEPT ![c] = @ + 1] /\ publicado' = publicado
  BY DEF Envia, delEjecutor
<1>2. \/ p' = [p EXCEPT ![c] = @ \cup {enviados[c] + 1}]
      \/ p' = p
  <2>1. CASE Pendientes(c)' = Pendientes(c)
    <3>1. \A d \in Clientes : Pendientes(d)' = Pendientes(d)
      BY <2>1, EnviaInv
    <3>2. QED
      BY <3>1
  <2>2. CASE Pendientes(c)' = Pendientes(c) \cup {enviados[c] + 1}
    <3>1. \A d \in Clientes \ {c} : Pendientes(d)' = Pendientes(d)
      BY EnviaInv
    <3>2. QED
      BY <3>1, <2>2
  <2>3. QED
    BY <2>1, <2>2, EnviaInv
<1>3. Promesa!Envia(c)
  BY <1>1, <1>2 DEF Promesa!Envia
<1>4. QED
  BY <1>3 DEF Promesa!Next

(* The publication that comes out is the oldest of its client.             *)
LEMMA PasoPublica ==
  ASSUME Inv, SinNuevas, enviados' = enviados,
         NEW c \in Clientes, NEW n \in Pendientes(c),
         \A x \in Pendientes(c) : n <= x,
         n \notin Pendientes(c)',
         NEW p \in Publicados, p.de = c, p.n = n,
         publicado' = Append(publicado, p)
  PROVE  Promesa!Next
<1> DEFINE pub == [i \in 1..Len(publicado) |-> Origen(publicado[i])]
<1>1. pub' = Append(pub, [de |-> c, n |-> n])
  <2> DEFINE l == Len(publicado)
  <2>1. /\ publicado \in Seq(Publicados) /\ l \in Nat
        /\ Len(publicado') = l + 1
        /\ \A i \in 1..l : publicado'[i] = publicado[i]
        /\ publicado'[l + 1] = p
    BY AppendProperties DEF Inv, Tipado
  <2> DEFINE O == [de : Clientes, n : Nat]
  <2>2. \A q \in Publicados : Origen(q) \in O
    BY DEF Publicados, Origen
  <2>3. Origen(p) = [de |-> c, n |-> n] /\ Origen(p) \in O
    BY <2>2 DEF Origen
  <2>4. pub \in Seq(O) /\ Len(pub) = l
    BY <2>1, <2>2
  <2>5. /\ Append(pub, Origen(p)) \in Seq(O)
        /\ Len(Append(pub, Origen(p))) = l + 1
        /\ \A i \in 1..l : Append(pub, Origen(p))[i] = pub[i]
        /\ Append(pub, Origen(p))[l + 1] = Origen(p)
    BY <2>3, <2>4, AppendProperties
  <2>6. /\ pub' \in Seq(O) /\ Len(pub') = l + 1
        /\ \A i \in 1..l : pub'[i] = pub[i]
        /\ pub'[l + 1] = Origen(p)
    <3>1. pub' = [i \in 1..l + 1 |-> Origen(publicado'[i])]
      BY <2>1
    <3>2. \A i \in 1..l + 1 : publicado'[i] \in Publicados
      BY <2>1
    <3>3. pub' \in Seq(O) /\ Len(pub') = l + 1
      BY <3>1, <3>2, <2>1, <2>2
    <3>4. QED
      BY <3>1, <3>3, <2>1
  <2> HIDE DEF pub, O
  <2>7. QED
    BY <2>1, <2>3, <2>5, <2>6, SeqEqual
<1>2. Promesa!Publica(c, n)
  BY <1>1, PierdeSinNuevas DEF Promesa!Publica
<1>3. QED
  BY <1>2 DEF Promesa!Next

LEMMA EjPubPaso ==
  ASSUME Inv, EjPub
  PROVE  Promesa!Next
<1>1. Elementos
  BY TiposDeElementos DEF Inv
<1>2. PICK m \in Comandos : m = canal[1]
  BY RecibeCanal DEF EjPub
<1> DEFINE p == Publicacion("PUB", m.de, m.n, m.payload, << >>)
<1>3. /\ Recibe /\ m = Head(canal) /\ m.op = "PUB"
      /\ 1 \in 1..Len(canal) /\ canal[1] = m
      /\ ejecutor = Libre /\ ejecutor' = Libre
      /\ publicado' = Append(publicado, p)
  BY <1>2, RecibeCanal DEF EjPub
<1>4. p \in Publicados /\ p.de = m.de /\ p.n = m.n /\ m.de \in Clientes
  BY <1>3 DEF Publicados, Publicacion, Comandos, Publicaciones
<1> HIDE DEF p
<1>5. 1 \in PubsCanal(m.de) /\ m.n \in Nat
  BY <1>1, <1>3 DEF PubsCanal, Publicaciones, Elementos
<1>6. ASSUME NEW i \in PubsCanal(m.de), i # 1
      PROVE  m.n < canal[i].n
  BY <1>1, <1>3, <1>4, <1>5, <1>6 DEF Inv, Orden, Elementos
<1>7. ASSUME NEW j \in PubsCable(m.de)
      PROVE  m.n < cable[m.de][j].n
  BY <1>3, <1>4, <1>5 DEF Inv, Orden
<1>8. m.n \in Pendientes(m.de)
  BY <1>3, <1>4, <1>5, PendientesPorLugar DEF EsPendiente
<1>9. ASSUME NEW x \in Pendientes(m.de)
      PROVE  m.n <= x
  <2>1. EsPendiente(m.de, x)
    BY <1>4, PendientesPorLugar
  <2>2. CASE \E i \in PubsCable(m.de) : x = cable[m.de][i].n
    BY <2>2, <1>1, <1>4, <1>5, <1>7 DEF Elementos
  <2>3. CASE \E i \in PubsCanal(m.de) : x = canal[i].n
    BY <2>3, <1>1, <1>3, <1>4, <1>5, <1>6 DEF Elementos
  <2>4. QED
    BY <2>1, <2>2, <2>3, <1>3 DEF EsPendiente
<1>10. m.n \notin Pendientes(m.de)'
  <2>1. ASSUME EsPendiente(m.de, m.n)'
        PROVE  FALSE
    <3>1. CASE \E i \in PubsCable(m.de)' : m.n = cable'[m.de][i].n
      <4>1. PICK j \in PubsCable(m.de) : m.n = cable[m.de][j].n
        BY <3>1, <1>3, <1>4, RecibeCanal
      <4>2. QED
        BY <4>1, <1>5, <1>7
    <3>2. CASE \E i \in PubsCanal(m.de)' : m.n = canal'[i].n
      <4>1. PICK i \in PubsCanal(m.de)' : m.n = canal'[i].n
        BY <3>2
      <4>2. i + 1 \in PubsCanal(m.de) /\ i + 1 # 1 /\ m.n = canal[i + 1].n
        BY <4>1, <1>3, <1>4, RecibeCanal
      <4>3. QED
        BY <4>2, <1>5, <1>6
    <3>3. QED
      BY <2>1, <3>1, <3>2, <1>3 DEF EsPendiente
  <2>2. EsPendiente(m.de, m.n)' <=> m.n \in Pendientes(m.de)'
    BY <1>4, PendientesPorLugar DEF EsPendiente
  <2>3. QED
    BY <2>1, <2>2
<1>11. SinNuevas /\ enviados' = enviados
  BY <1>3, EjPubInv, RecibeCanal
<1>12. QED
  BY <1>3, <1>4, <1>8, <1>9, <1>10, <1>11, PasoPublica

LEMMA EjPayloadPaso ==
  ASSUME Inv, EjPayload
  PROVE  Promesa!Next
<1>1. Elementos
  BY TiposDeElementos DEF Inv
<1>2. PICK e \in Hpubs : e = ejecutor
  BY DEF EjPayload, Inv, Tipado, Libre
<1>3. PICK m \in Comandos : m = Head(canal)
  BY RecibeCanal DEF EjPayload
<1> DEFINE p == Publicacion("HPUB", e.de, e.n, Origen(m), e.cabecera)
<1>4. /\ Recibe /\ ejecutor = e /\ ejecutor # Libre /\ ejecutor' = Libre
      /\ publicado' = Append(publicado, p)
  BY <1>2, <1>3 DEF EjPayload, Libre
<1>5. p \in Publicados /\ p.de = e.de /\ p.n = e.n /\ e.de \in Clientes /\ e.n \in Nat
  BY DEF Publicados, Publicacion, Comandos, Publicaciones, Hpubs, Origen, Origenes
<1> HIDE DEF p
<1>6. /\ \A i \in PubsCanal(e.de) : e.n < canal[i].n
      /\ \A j \in PubsCable(e.de) : e.n < cable[e.de][j].n
  BY <1>4, <1>5 DEF Inv, Orden
<1>7. e.n \in Pendientes(e.de)
  BY <1>4, <1>5, PendientesPorLugar DEF EsPendiente
<1>8. ASSUME NEW x \in Pendientes(e.de)
      PROVE  e.n <= x
  <2>1. EsPendiente(e.de, x)
    BY <1>5, PendientesPorLugar
  <2>2. CASE \E i \in PubsCable(e.de) : x = cable[e.de][i].n
    BY <2>2, <1>1, <1>5, <1>6 DEF Elementos
  <2>3. CASE \E i \in PubsCanal(e.de) : x = canal[i].n
    BY <2>3, <1>1, <1>5, <1>6 DEF Elementos
  <2>4. QED
    BY <2>1, <2>2, <2>3, <1>4, <1>5 DEF EsPendiente
<1>9. e.n \notin Pendientes(e.de)'
  <2>1. ASSUME EsPendiente(e.de, e.n)'
        PROVE  FALSE
    <3>1. CASE \E i \in PubsCable(e.de)' : e.n = cable'[e.de][i].n
      <4>1. PICK j \in PubsCable(e.de) : e.n = cable[e.de][j].n
        BY <3>1, <1>4, <1>5, RecibeCanal
      <4>2. QED
        BY <4>1, <1>5, <1>6
    <3>2. CASE \E i \in PubsCanal(e.de)' : e.n = canal'[i].n
      <4>1. PICK i \in PubsCanal(e.de)' : e.n = canal'[i].n
        BY <3>2
      <4>2. i + 1 \in PubsCanal(e.de) /\ e.n = canal[i + 1].n
        BY <4>1, <1>4, <1>5, RecibeCanal
      <4>3. QED
        BY <4>2, <1>5, <1>6
    <3>3. QED
      BY <2>1, <3>1, <3>2, <1>4 DEF EsPendiente
  <2>2. EsPendiente(e.de, e.n)' <=> e.n \in Pendientes(e.de)'
    BY <1>5, PendientesPorLugar DEF EsPendiente
  <2>3. QED
    BY <2>1, <2>2
<1>10. SinNuevas /\ enviados' = enviados
  BY <1>4, EjPayloadInv, RecibeCanal
<1>11. QED
  BY <1>4, <1>5, <1>7, <1>8, <1>9, <1>10, PasoPublica

LEMMA PasoPromesa == Inv /\ [Next]_vars => [Promesa!Next]_(Promesa!vars)
<1>1. SUFFICES ASSUME Inv, [Next]_vars
               PROVE  [Promesa!Next]_(Promesa!vars)
  OBVIOUS
<1>2. CASE EjPub \/ EjPayload
  BY <1>1, <1>2, EjPubPaso, EjPayloadPaso
<1>3. CASE EjPanico \/ EjRechaza \/ EjOtro \/ EjHpub \/ EjCabecera \/ EjVacio
  <2>1. SinNuevas
    BY <1>1, <1>3, SinHpubInv, EjHpubInv, EjCabeceraInv, EjVacioInv
  <2>2. enviados' = enviados /\ publicado' = publicado
    BY <1>3
    DEF EjPanico, EjRechaza, EjOtro, EjHpub, EjCabecera, EjVacio, Recibe, delCliente, delEjecutor
  <2>3. QED
    BY <2>1, <2>2, PasoPierde
<1>4. ASSUME NEW c \in Clientes, Envia(c)
      PROVE  Promesa!Next
  BY <1>1, <1>4, PasoEnvia
<1>5. ASSUME NEW c \in Clientes, Cierra(c) \/ Oyente(c)
      PROVE  Promesa!Next
  <2>1. SinNuevas
    BY <1>1, <1>5, CierraInv, OyenteLeeInv, OyenteTerminaInv DEF Oyente
  <2>2. enviados' = enviados /\ publicado' = publicado
    BY <1>5 DEF Cierra, Oyente, OyenteLee, OyenteTermina, delCliente, delEjecutor
  <2>3. QED
    BY <2>1, <2>2, PasoPierde
<1>6. CASE UNCHANGED vars
  <2>1. /\ enviados' = enviados /\ cable' = cable /\ canal' = canal
        /\ ejecutor' = ejecutor /\ publicado' = publicado
    BY <1>6 DEF vars
  <2>2. UNCHANGED Promesa!vars
    BY <2>1 DEF Promesa!vars, Pendientes
  <2>3. QED
    BY <2>2
<1>7. QED
  BY <1>1, <1>2, <1>3, <1>4, <1>5, <1>6 DEF Next, Ejecuta

(* The threads, the channel and the HPUB that eats elements of it keep the *)
(* promise of Publicaciones: the publications of a client come out in the  *)
(* order he sent them, each at most once, whatever is lost on the way.     *)
THEOREM ImplementaSiempre == Spec => ImplementaPublicaciones
<1>1. Init => Promesa!Init
  <2>1. SUFFICES ASSUME Init
                 PROVE  Promesa!Init
    OBVIOUS
  <2>2. \A c \in Clientes : Pendientes(c) = {}
    BY <2>1 DEF Init, Pendientes
  <2>3. [i \in 1..Len(publicado) |-> Origen(publicado[i])] = << >>
    BY <2>1 DEF Init
  <2>4. QED
    BY <2>1, <2>2, <2>3 DEF Init, Promesa!Init
<1>2. QED
  BY InvSiempre, <1>1, PasoPromesa, PTL
  DEF Spec, ImplementaPublicaciones, Promesa!Spec

-----------------------------------------------------------------------------
(* The order that Publicaciones promises.  It is not inductive: a client   *)
(* may have a message pending that is older than one already published,    *)
(* unless what is pending is always newer than what came out, and what was *)
(* sent newer than both.  e, p and q are what was sent, what is pending    *)
(* and what came out.                                                      *)
Numerados == [de : Clientes, n : Nat]

EnOrden(q) ==
  \A i, j \in 1..Len(q) : (i < j /\ q[i].de = q[j].de) => q[i].n < q[j].n

AlDia(e, p, q) ==
  /\ e \in [Clientes -> Nat]
  /\ p \in [Clientes -> SUBSET Nat]
  /\ q \in Seq(Numerados)
  /\ \A c \in Clientes : \A n \in p[c] : n <= e[c]
  /\ \A i \in 1..Len(q) :
       /\ q[i].n <= e[q[i].de]
       /\ \A n \in p[q[i].de] : q[i].n < n
  /\ EnOrden(q)

LEMMA Numerado ==
  ASSUME NEW e, NEW p, NEW q, AlDia(e, p, q), NEW i \in 1..Len(q)
  PROVE  q[i].de \in Clientes /\ q[i].n \in Nat
<1>1. q[i] \in Numerados
  BY ElementOfSeq DEF AlDia
<1>2. QED
  BY <1>1 DEF Numerados

LEMMA AlDiaEnvia ==
  ASSUME NEW e, NEW p, NEW q, AlDia(e, p, q), NEW c \in Clientes, NEW e2, NEW p2,
         e2 = [e EXCEPT ![c] = @ + 1],
         p2 = [p EXCEPT ![c] = @ \cup {e[c] + 1}] \/ p2 = p
  PROVE  AlDia(e2, p2, q)
<1>1. e2 \in [Clientes -> Nat] /\ p2 \in [Clientes -> SUBSET Nat]
  BY DEF AlDia
<1>2. \A d \in Clientes : e[d] <= e2[d]
  BY DEF AlDia
<1>3. ASSUME NEW d \in Clientes, NEW n \in p2[d]
      PROVE  n <= e2[d] /\ (n \in p[d] \/ n = e[d] + 1)
  BY DEF AlDia
<1>4. ASSUME NEW i \in 1..Len(q)
      PROVE  /\ q[i].n <= e2[q[i].de]
             /\ \A n \in p2[q[i].de] : q[i].n < n
  <2>1. q[i].de \in Clientes /\ q[i].n \in Nat
    BY Numerado
  <2>2. /\ q[i].n <= e[q[i].de]
        /\ \A n \in p[q[i].de] : q[i].n < n
        /\ e[q[i].de] \in Nat /\ e2[q[i].de] \in Nat
    BY <1>1, <2>1 DEF AlDia
  <2>3. QED
    BY <1>2, <1>3, <2>1, <2>2
<1>5. QED
  BY <1>1, <1>3, <1>4 DEF AlDia

LEMMA AlDiaPierde ==
  ASSUME NEW e, NEW p, NEW q, AlDia(e, p, q), NEW p2,
         p2 \in [Clientes -> SUBSET UNION {p[c] : c \in Clientes}],
         \A c \in Clientes : p2[c] \subseteq p[c]
  PROVE  AlDia(e, p2, q)
<1>1. UNION {p[c] : c \in Clientes} \subseteq Nat
  BY DEF AlDia
<1>2. p2 \in [Clientes -> SUBSET Nat]
  BY <1>1
<1>3. \A i \in 1..Len(q) : \A n \in p2[q[i].de] : q[i].n < n
  BY Numerado DEF AlDia
<1>4. QED
  BY <1>2, <1>3 DEF AlDia

LEMMA AlDiaPublica ==
  ASSUME NEW e, NEW p, NEW q, AlDia(e, p, q), NEW c \in Clientes, NEW n \in p[c],
         \A m \in p[c] : n <= m, NEW p2,
         AlDia(e, p2, q), \A d \in Clientes : p2[d] \subseteq p[d], n \notin p2[c],
         NEW q2, q2 = Append(q, [de |-> c, n |-> n])
  PROVE  AlDia(e, p2, q2)
<1> DEFINE ultimo == Len(q) + 1
<1>1. n \in Nat /\ n <= e[c]
  BY DEF AlDia
<1>2. /\ q2 \in Seq(Numerados) /\ Len(q) \in Nat
      /\ Len(q2) = ultimo
      /\ q2[ultimo] = [de |-> c, n |-> n]
      /\ \A i \in 1..Len(q) : q2[i] = q[i]
  <2>1. q \in Seq(Numerados) /\ [de |-> c, n |-> n] \in Numerados
    BY <1>1 DEF AlDia, Numerados
  <2>2. QED
    BY <2>1, AppendProperties, LenProperties
<1>3. q2[ultimo].de = c /\ q2[ultimo].n = n
  BY <1>2
<1>4. \A i \in 1..Len(q2) : i \in 1..Len(q) \/ i = ultimo
  BY <1>2
<1>5. ASSUME NEW m \in p2[c]
      PROVE  n < m
  <2>1. m \in Nat /\ n <= m /\ m # n
    BY DEF AlDia
  <2>2. QED
    BY <2>1, <1>1
<1>6. ASSUME NEW i \in 1..Len(q)
      PROVE  /\ q[i].n <= e[q[i].de]
             /\ \A m \in p2[q[i].de] : q[i].n < m
             /\ q[i].de = c => q[i].n < n
  BY DEF AlDia
<1>7. \A i \in 1..Len(q2) :
        /\ q2[i].n <= e[q2[i].de]
        /\ \A m \in p2[q2[i].de] : q2[i].n < m
  BY <1>1, <1>2, <1>3, <1>4, <1>5, <1>6
<1>8. EnOrden(q2)
  <2>1. SUFFICES ASSUME NEW i \in 1..Len(q2), NEW j \in 1..Len(q2),
                        i < j, q2[i].de = q2[j].de
                 PROVE  q2[i].n < q2[j].n
    BY DEF EnOrden
  <2>2. i \in 1..Len(q)
    BY <1>2, <1>4, <2>1
  <2>3. CASE j \in 1..Len(q)
    BY <2>1, <2>2, <2>3, <1>2 DEF AlDia, EnOrden
  <2>4. CASE j = ultimo
    BY <2>1, <2>2, <2>4, <1>2, <1>3, <1>6
  <2>5. QED
    BY <1>4, <2>3, <2>4
<1>9. QED
  BY <1>2, <1>7, <1>8 DEF AlDia

PromesaAlDia ==
  AlDia(enviados, [c \in Clientes |-> Pendientes(c)],
        [i \in 1..Len(publicado) |-> Origen(publicado[i])])

LEMMA PromesaInicial == Promesa!Init => PromesaAlDia
  BY DEF Promesa!Init, PromesaAlDia, AlDia, EnOrden

LEMMA PromesaSigue ==
  PromesaAlDia /\ [Promesa!Next]_(Promesa!vars) => PromesaAlDia'
<1> DEFINE P == [c \in Clientes |-> Pendientes(c)]
           Q == [i \in 1..Len(publicado) |-> Origen(publicado[i])]
<1>1. SUFFICES ASSUME PromesaAlDia, [Promesa!Next]_(Promesa!vars)
               PROVE  AlDia(enviados', P', Q')
  BY DEF PromesaAlDia
<1>2. AlDia(enviados, P, Q)
  BY <1>1 DEF PromesaAlDia
<1>3. CASE UNCHANGED Promesa!vars
  <2>1. enviados' = enviados /\ P' = P /\ Q' = Q
    BY <1>3 DEF Promesa!vars
  <2>2. QED
    BY <1>2, <2>1
<1>4. ASSUME NEW c \in Clientes, Promesa!Envia(c)
      PROVE  AlDia(enviados', P', Q')
  <2>1. /\ enviados' = [enviados EXCEPT ![c] = @ + 1]
        /\ P' = [P EXCEPT ![c] = @ \cup {enviados[c] + 1}] \/ P' = P
        /\ Q' = Q
    BY <1>4 DEF Promesa!Envia
  <2> HIDE DEF P, Q
  <2>2. AlDia(enviados', P', Q)
    BY <1>2, <2>1, AlDiaEnvia
  <2>3. QED
    BY <2>1, <2>2
<1>5. ASSUME Promesa!PuedePerder
      PROVE  AlDia(enviados, P', Q) /\ \A d \in Clientes : P'[d] \subseteq P[d]
  <2>1. /\ P' \in [Clientes -> SUBSET UNION {P[c] : c \in Clientes}]
        /\ \A c \in Clientes : P'[c] \subseteq P[c]
    BY <1>5 DEF Promesa!PuedePerder
  <2> HIDE DEF P, Q
  <2>2. QED
    BY <1>2, <2>1, AlDiaPierde
<1>6. CASE Promesa!Pierde
  <2>1. enviados' = enviados /\ Q' = Q /\ Promesa!PuedePerder
    BY <1>6 DEF Promesa!Pierde
  <2>2. QED
    BY <2>1, <1>5
<1>7. ASSUME NEW c \in Clientes, NEW n \in P[c], Promesa!Publica(c, n)
      PROVE  AlDia(enviados', P', Q')
  <2>1. /\ n \in P[c] /\ \A m \in P[c] : n <= m
        /\ Q' = Append(Q, [de |-> c, n |-> n])
        /\ Promesa!PuedePerder /\ n \notin P'[c]
        /\ enviados' = enviados
    BY <1>7 DEF Promesa!Publica
  <2>2. AlDia(enviados, P', Q) /\ \A d \in Clientes : P'[d] \subseteq P[d]
    BY <1>5, <2>1
  <2> HIDE DEF P, Q
  <2>3. AlDia(enviados, P', Q')
    BY <1>2, <2>1, <2>2, AlDiaPublica
  <2>4. QED
    BY <2>1, <2>3
<1>8. QED
  BY <1>1, <1>3, <1>4, <1>6, <1>7 DEF Promesa!Next

(* What Publicaciones promises is order: whatever is lost, no publication  *)
(* overtakes an earlier one of the same client, and none comes out twice.  *)
THEOREM PublicacionesEnOrden == Promesa!Spec => []Promesa!OrdenPorCliente
<1>1. PromesaAlDia => Promesa!OrdenPorCliente
  BY DEF PromesaAlDia, AlDia, EnOrden, Promesa!OrdenPorCliente
<1>2. QED
  BY PromesaInicial, PromesaSigue, <1>1, PTL DEF Promesa!Spec

(* So the publications of one client leave the channel in the order he     *)
(* sent them, none twice, whatever was lost.                               *)
THEOREM OrdenEnElCanal == Spec => []Promesa!OrdenPorCliente
<1>1. QED
  BY ImplementaSiempre, PublicacionesEnOrden, PTL DEF ImplementaPublicaciones
=============================================================================
