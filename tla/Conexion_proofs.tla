--------------------------- MODULE Conexion_proofs ---------------------------
(* Proofs about Conexion, for any set of connections, any limit and any    *)
(* number of commands.                                                     *)
EXTENDS Conexion, FiniteSetTheorems, SequenceTheorems, TLAPS

Textos == {"INFO", "+OK", "-ERR", "PING", "STALE", "SHUTDOWN"}
Mensajes == [op : Operaciones, c : Clientes]

Tipado ==
  /\ cliente \in [Clientes -> {"fuera", "espera", "abierto", "cerrado"}]
  /\ pubs \in [Clientes -> 0..(MaxPubs + 1)]
  /\ debe \in [Clientes -> BOOLEAN]
  /\ entrada \in [Clientes -> Seq(Lineas)]
  /\ salida \in [Clientes -> Seq(Textos)]
  /\ acepta \in [fase : {"libre", "caido"}]
                \cup [fase : {"saluda", "inserta"}, c : Clientes]
  /\ count_connections \in 0..MAX_CONNECTIONS
  /\ oyente \in [Clientes -> {"no", "lee", "corta", "sale", "fin"}]
  /\ ping \in [Clientes -> {"no", "arranca", "espera", "duerme", "corta", "fin"}]
  /\ bandera \in [Clientes -> BOOLEAN]
  /\ pongs \in [Clientes -> 0..1]
  /\ canal \in Seq(Mensajes)
  /\ clientes_map \subseteq Clientes
  /\ permisos \subseteq Clientes

(* Where a message of a connection is in the channel, and where an answer  *)
(* to a ping is on its way.                                                *)
En(i, op, c) == i \in 1..Len(canal) /\ canal[i] = [op |-> op, c |-> c]
Hay(op, c) == \E i \in Nat : En(i, op, c)
Contesta(i, c) == i \in 1..Len(entrada[c]) /\ entrada[c][i] = "PONG"
Contestado(c) == \E i \in Nat : Contesta(i, c)

(* A ping and its answer are one thing that goes round: in the channel,    *)
(* owed by the client, on its way back, or in the hands of the ping thread.*)
UnaVuelta ==
  \A c \in Clientes :
    /\ \A i, j \in Nat : En(i, "SEND_PING", c) /\ En(j, "SEND_PING", c) => i = j
    /\ \A i, j \in Nat : Contesta(i, c) /\ Contesta(j, c) => i = j
    /\ Hay("SEND_PING", c) => ~debe[c] /\ ~Contestado(c) /\ pongs[c] = 0
    /\ debe[c] => ~Contestado(c) /\ pongs[c] = 0
    /\ Contestado(c) => pongs[c] = 0
    /\ ping[c] \in {"no", "arranca", "duerme"} =>
         ~Hay("SEND_PING", c) /\ ~debe[c] /\ ~Contestado(c) /\ pongs[c] = 0

Conectados == {c \in Clientes : oyente[c] # "no"}

(* The counter lags behind the connections by the one being accepted.      *)
Contados ==
  /\ IsFiniteSet(Conectados)
  /\ Cardinality(Conectados) <= MAX_CONNECTIONS
  /\ acepta.fase = "libre" => Cardinality(Conectados) = count_connections
  /\ acepta.fase \in {"saluda", "inserta"} =>
       Cardinality(Conectados) = count_connections + 1

(* What has not begun yet of a connection.                                 *)
Comienzo ==
  \A c \in Clientes :
    /\ oyente[c] = "no" <=> ping[c] = "no"
    /\ oyente[c] = "no" => salida[c] = << >> /\ c \notin clientes_map
    /\ Atendida(c) => ping[c] = "arranca" /\ c \notin clientes_map
    /\ Atendida(c) /\ acepta.fase = "inserta" => "INFO" \in Escrito(c)
    /\ c \in clientes_map => "INFO" \in Escrito(c)
    /\ "SHUTDOWN" \in Escrito(c) => c \notin clientes_map /\ ~Atendida(c)

(* x was written to c, if c can still be written to.                       *)
Listo(x, c) == c \in clientes_map => x \in Escrito(c)

(* The messages y in the channel follow a message op, or what it writes.   *)
Sigue(y, op, x, c) ==
  \A i \in Nat : En(i, y, c) => Listo(x, c) \/ \E j \in Nat : j < i /\ En(j, op, c)

(* The order of the cut, before it is written.                             *)
Cortes ==
  \A c \in Clientes :
    /\ ping[c] \in {"no", "arranca"} =>
         /\ ~Hay("SEND_PING", c) /\ ~Hay("STALE", c)
         /\ cliente[c] # "cerrado" => ~Hay("SHUTDOWN", c)
    /\ ping[c] \in {"espera", "duerme", "corta"} =>
         Listo("PING", c) \/ Hay("SEND_PING", c)
    /\ Sigue("STALE", "SEND_PING", "PING", c)
    /\ oyente[c] = "corta" => cliente[c] = "cerrado"
    /\ ping[c] = "corta" => Listo("STALE", c) \/ Hay("STALE", c)
    /\ cliente[c] # "cerrado" => Sigue("SHUTDOWN", "STALE", "STALE", c)

Inv == Tipado /\ UnaVuelta /\ Contados /\ Comienzo /\ Cortes /\ OrdenDelCorte

-----------------------------------------------------------------------------
(* The channel                                                             *)

LEMMA Encolado ==
  ASSUME canal \in Seq(Mensajes), NEW z \in Operaciones, NEW d \in Clientes,
         Encola(z, d)
  PROVE  /\ canal' \in Seq(Mensajes)
         /\ \A i, op, c : En(i, op, c) => En(i, op, c)' /\ i <= Len(canal)
         /\ \A i, op, c : En(i, op, c)' =>
              En(i, op, c) \/ (op = z /\ c = d /\ i = Len(canal) + 1)
         /\ \E i \in Nat : En(i, z, d)'
<1> DEFINE m == [op |-> z, c |-> d]
           n == Len(canal)
<1>1. m \in Mensajes /\ canal' = Append(canal, m) /\ m.op = z /\ m.c = d
  BY DEF Mensajes, Encola
<1>2. /\ canal' \in Seq(Mensajes) /\ n \in Nat /\ Len(canal') = n + 1
      /\ \A i \in 1..n : canal'[i] = canal[i]
      /\ canal'[n + 1] = m
  BY <1>1, AppendProperties
<1>3. ASSUME NEW i, NEW op, NEW c, En(i, op, c)'
      PROVE  En(i, op, c) \/ (op = z /\ c = d /\ i = n + 1)
  <2>1. CASE i \in 1..n
    BY <1>2, <1>3, <2>1 DEF En
  <2>2. CASE i = n + 1
    <3>1. [op |-> op, c |-> c] = m
      BY <1>2, <1>3, <2>2 DEF En
    <3>2. [op |-> op, c |-> c].op = m.op /\ [op |-> op, c |-> c].c = m.c
      BY <3>1
    <3>3. QED
      BY <3>2, <1>1, <2>2
  <2>3. QED
    BY <1>2, <1>3, <2>1, <2>2 DEF En
<1>4. ASSUME NEW i, NEW op, NEW c, En(i, op, c)
      PROVE  En(i, op, c)' /\ i <= n
  <2>1. i \in 1..n /\ i \in 1..(n + 1) /\ canal'[i] = [op |-> op, c |-> c]
    BY <1>2, <1>4 DEF En
  <2>2. QED
    BY <2>1, <1>2 DEF En
<1>5. \E i \in Nat : En(i, z, d)'
  <2>1. PICK i \in Nat : i = n + 1
    BY <1>2
  <2>2. i \in 1..(n + 1) /\ canal'[i] = m
    BY <2>1, <1>2
  <2>3. En(i, z, d)'
    BY <2>2, <1>2 DEF En
  <2>4. QED
    BY <2>3
<1>6. QED
  BY <1>2, <1>3, <1>4, <1>5

LEMMA Haberes ==
  ASSUME canal \in Seq(Mensajes), NEW z \in Operaciones, NEW d \in Clientes,
         Encola(z, d)
  PROVE  /\ \A op, c : Hay(op, c) => Hay(op, c)'
         /\ \A op, c : Hay(op, c)' => Hay(op, c) \/ (op = z /\ c = d)
         /\ Hay(z, d)'
         /\ \A y, op, x, c :
              /\ Sigue(y, op, x, c) /\ (Listo(x, c) => Listo(x, c)')
              /\ y = z /\ c = d => Listo(x, c)' \/ Hay(op, c)
              => Sigue(y, op, x, c)'
<1>1. Len(canal) \in Nat /\ Len(canal) + 1 \in Nat
  BY LenProperties
<1>2. /\ \A op, c : Hay(op, c) => Hay(op, c)'
      /\ \A op, c : Hay(op, c)' => Hay(op, c) \/ (op = z /\ c = d)
      /\ Hay(z, d)'
  BY <1>1, Encolado DEF Hay
<1>3. ASSUME NEW y, NEW op, NEW x, NEW c,
             Sigue(y, op, x, c), Listo(x, c) => Listo(x, c)',
             y = z /\ c = d => Listo(x, c)' \/ Hay(op, c)
      PROVE  Sigue(y, op, x, c)'
  <2>1. SUFFICES ASSUME NEW i \in Nat, En(i, y, c)', ~Listo(x, c)'
                 PROVE  \E j \in Nat : j < i /\ En(j, op, c)'
    BY DEF Sigue
  <2>2. CASE En(i, y, c)
    <3>1. PICK j \in Nat : j < i /\ En(j, op, c)
      BY <1>3, <2>1, <2>2 DEF Sigue
    <3>2. QED
      BY <3>1, Encolado
  <2>3. CASE y = z /\ c = d /\ i = Len(canal) + 1
    <3>1. PICK j \in Nat : En(j, op, c)
      BY <1>3, <2>1, <2>3 DEF Hay
    <3>2. En(j, op, c)' /\ j <= Len(canal)
      BY <3>1, Encolado
    <3>3. QED
      BY <3>2, <2>3, <1>1
  <2>4. QED
    BY <2>1, <2>2, <2>3, Encolado
<1>4. QED
  BY <1>2, <1>3

LEMMA Quieto ==
  ASSUME canal' = canal
  PROVE  /\ \A i, op, c : En(i, op, c)' <=> En(i, op, c)
         /\ \A op, c : Hay(op, c)' <=> Hay(op, c)
         /\ \A y, op, x, c : Sigue(y, op, x, c) /\ (Listo(x, c) => Listo(x, c)')
                               => Sigue(y, op, x, c)'
<1>1. /\ \A i, op, c : En(i, op, c)' <=> En(i, op, c)
      /\ \A op, c : Hay(op, c)' <=> Hay(op, c)
  BY DEF En, Hay
<1>2. QED
  BY <1>1 DEF Sigue

LEMMA Sacado ==
  ASSUME canal \in Seq(Mensajes), canal # << >>, canal' = Tail(canal)
  PROVE  /\ canal' \in Seq(Mensajes)
         /\ Head(canal) \in Mensajes
         /\ \A i \in Nat : \A op, c : En(i, op, c)' <=> i >= 1 /\ En(i + 1, op, c)
         /\ \A op, c : En(1, op, c) <=> Head(canal) = [op |-> op, c |-> c]
         /\ \A i \in Nat : \A op, c : En(i, op, c) => i >= 1
<1>1. /\ canal' \in Seq(Mensajes) /\ Len(canal) \in Nat \ {0}
      /\ Len(canal') = Len(canal) - 1
      /\ \A i \in 1..Len(canal') : canal'[i] = canal[i + 1]
      /\ Head(canal) = canal[1] /\ canal[1] \in Mensajes
  BY HeadTailProperties, EmptySeq, LenProperties
<1>2. QED
  BY <1>1 DEF En

LEMMA Quedan ==
  ASSUME canal \in Seq(Mensajes), canal # << >>, canal' = Tail(canal)
  PROVE  /\ \A op, c : Hay(op, c)' => Hay(op, c)
         /\ \A op, c : Hay(op, c) => Hay(op, c)' \/ Head(canal) = [op |-> op, c |-> c]
         /\ \A y, op, x, c :
              /\ Sigue(y, op, x, c) /\ (Listo(x, c) => Listo(x, c)')
              /\ Head(canal) = [op |-> op, c |-> c] => Listo(x, c)'
              => Sigue(y, op, x, c)'
<1>1. ASSUME NEW i \in Nat, NEW op, NEW c, En(i, op, c), i # 1
      PROVE  i - 1 \in Nat /\ En(i - 1, op, c)'
  <2>1. i - 1 \in Nat /\ i - 1 >= 1 /\ (i - 1) + 1 = i
    BY <1>1, Sacado
  <2>2. QED
    BY <2>1, <1>1, Sacado
<1>2. /\ \A op, c : Hay(op, c)' => Hay(op, c)
      /\ \A op, c : Hay(op, c) => Hay(op, c)' \/ Head(canal) = [op |-> op, c |-> c]
  <2>1. ASSUME NEW op, NEW c, NEW i \in Nat, En(i, op, c)'
        PROVE  i + 1 \in Nat /\ En(i + 1, op, c)
    BY <2>1, Sacado
  <2>2. ASSUME NEW op, NEW c, NEW i \in Nat, En(i, op, c),
               Head(canal) # [op |-> op, c |-> c]
        PROVE  \E j \in Nat : En(j, op, c)'
    <3>1. i # 1
      BY <2>2, Sacado
    <3>2. QED
      BY <2>2, <3>1, <1>1
  <2>3. QED
    BY <2>1, <2>2 DEF Hay
<1>3. ASSUME NEW y, NEW op, NEW x, NEW c,
             Sigue(y, op, x, c), Listo(x, c) => Listo(x, c)',
             Head(canal) = [op |-> op, c |-> c] => Listo(x, c)'
      PROVE  Sigue(y, op, x, c)'
  <2>1. SUFFICES ASSUME NEW i \in Nat, En(i, y, c)', ~Listo(x, c)'
                 PROVE  \E j \in Nat : j < i /\ En(j, op, c)'
    BY DEF Sigue
  <2>2. En(i + 1, y, c) /\ i + 1 \in Nat
    BY <2>1, Sacado
  <2>3. PICK j \in Nat : j < i + 1 /\ En(j, op, c)
    BY <1>3, <2>1, <2>2 DEF Sigue
  <2>4. j # 1
    BY <1>3, <2>1, <2>3, Sacado
  <2>5. j - 1 \in Nat /\ En(j - 1, op, c)' /\ j - 1 < i
    BY <1>1, <2>3, <2>4
  <2>6. QED
    BY <2>5
<1>4. QED
  BY <1>2, <1>3

-----------------------------------------------------------------------------
(* What is written                                                         *)

LEMMA Escritura ==
  ASSUME salida \in [Clientes -> Seq(Textos)], NEW d \in Clientes,
         NEW t \in Textos, Escribe(d, t), "SHUTDOWN" \notin Escrito(d)
  PROVE  /\ salida' \in [Clientes -> Seq(Textos)]
         /\ \A c \in Clientes : c # d => salida'[c] = salida[c]
         /\ Escrito(d)' = Escrito(d) \cup {t}
         /\ \A x, y : Antes(d, x, y) /\ (y = t => x \in Escrito(d))
                        => Antes(d, x, y)'
         /\ t = "SHUTDOWN" => Last(salida[d])' = "SHUTDOWN"
<1> DEFINE s == salida[d]
<1>1. s \in Seq(Textos) /\ Escrito(d) = {s[i] : i \in 1..Len(s)}
  BY DEF Escrito, ToSet
<1>2. CASE t \in Escrito(d)
  <2>1. salida' = salida
    BY <1>2 DEF Escribe, Escrito
  <2>2. t # "SHUTDOWN"
    BY <1>2
  <2>3. QED
    BY <1>2, <2>1, <2>2 DEF Escrito, Antes
<1>3. CASE t \notin Escrito(d)
  <2> DEFINE w == Append(s, t)
  <2>1. /\ salida' = [salida EXCEPT ![d] = w]
        /\ salida'[d] = w
    BY <1>3 DEF Escribe, Escrito
  <2>2. /\ w \in Seq(Textos) /\ Len(s) \in Nat /\ Len(w) = Len(s) + 1
        /\ \A i \in 1..Len(s) : w[i] = s[i]
        /\ w[Len(s) + 1] = t
    BY <1>1, AppendProperties
  <2> HIDE DEF w
  <2>3. /\ salida' \in [Clientes -> Seq(Textos)]
        /\ \A c \in Clientes : c # d => salida'[c] = salida[c]
    BY <2>1, <2>2
  <2>4. Escrito(d)' = {w[i] : i \in 1..Len(w)}
    <3>1. Escrito(d)' = ToSet(w)
      BY <2>1 DEF Escrito
    <3>2. DOMAIN w = 1..Len(w)
      BY <2>2
    <3>3. QED
      BY <3>1, <3>2 DEF ToSet
  <2>5. Escrito(d)' = Escrito(d) \cup {t}
    BY <1>1, <2>2, <2>4
  <2>6. ASSUME NEW x, NEW y, Antes(d, x, y), y = t => x \in Escrito(d)
        PROVE  Antes(d, x, y)'
    <3>1. SUFFICES ASSUME NEW j \in 1..Len(w), w[j] = y
                   PROVE  \E i \in 1..(j - 1) : w[i] = x
      BY <2>1 DEF Antes
    <3>2. CASE j \in 1..Len(s)
      <4>1. s[j] = y
        BY <2>2, <3>1, <3>2
      <4>2. PICK i \in 1..(j - 1) : s[i] = x
        BY <2>6, <3>2, <4>1 DEF Antes
      <4>3. w[i] = x
        BY <2>2, <3>2, <4>2
      <4>4. QED
        BY <4>3
    <3>3. CASE j = Len(s) + 1
      <4>1. PICK i \in 1..Len(s) : s[i] = x
        BY <1>1, <2>2, <2>6, <3>1, <3>3
      <4>2. i \in 1..(j - 1) /\ w[i] = x
        BY <4>1, <2>2, <3>3
      <4>3. QED
        BY <4>2
    <3>4. QED
      BY <2>2, <3>2, <3>3
  <2>7. Last(salida[d])' = t
    BY <2>1, <2>2 DEF Last
  <2>8. QED
    BY <2>3, <2>5, <2>6, <2>7
<1>4. QED
  BY <1>2, <1>3

-----------------------------------------------------------------------------
(* What a step that leaves one of the tables alone keeps                   *)

LEMMA SalidaIgual ==
  ASSUME salida' = salida
  PROVE  /\ \A c : Escrito(c)' = Escrito(c)
         /\ clientes_map' = clientes_map => \A x, c : Listo(x, c)' <=> Listo(x, c)
         /\ OrdenDelCorte /\ (\A c \in Clientes : cliente[c] = "cerrado" => cliente'[c] = "cerrado")
              => OrdenDelCorte'
<1>1. /\ \A c : Escrito(c)' = Escrito(c)
      /\ \A c, x, y : Antes(c, x, y)' <=> Antes(c, x, y)
      /\ \A c : Last(salida[c])' = Last(salida[c])
  BY DEF Escrito, Antes
<1>2. QED
  BY <1>1 DEF Listo, OrdenDelCorte

LEMMA VueltaIgual ==
  ASSUME UnaVuelta, canal' = canal, debe' = debe, entrada' = entrada, pongs' = pongs,
         \A c \in Clientes : ping'[c] \in {"no", "arranca", "duerme"} =>
                             ping[c] \in {"no", "arranca", "duerme"}
  PROVE  UnaVuelta'
<1>1. /\ \A c : Contestado(c)' <=> Contestado(c)
      /\ \A i, c : Contesta(i, c)' <=> Contesta(i, c)
  BY DEF Contestado, Contesta
<1>2. QED
  BY <1>1, Quieto DEF UnaVuelta

LEMMA ContadosIgual ==
  ASSUME Contados, count_connections' = count_connections,
         acepta'.fase = "caido" \/ acepta'.fase = acepta.fase
           \/ {acepta.fase, acepta'.fase} = {"saluda", "inserta"},
         \A c \in Clientes : oyente'[c] = "no" <=> oyente[c] = "no"
  PROVE  Contados'
<1>1. Conectados' = Conectados
  BY DEF Conectados
<1>2. QED
  BY <1>1 DEF Contados

-----------------------------------------------------------------------------
LEMMA InitInv == Init => Inv
<1>1. SUFFICES ASSUME Init
               PROVE  Inv
  OBVIOUS
<1>2. Tipado
  BY <1>1, ConexionAssumption DEF Init, Tipado
<1>3. \A i, op, c : ~En(i, op, c)
  BY <1>1 DEF Init, En
<1>4. \A c \in Clientes : \A i : ~Contesta(i, c)
  BY <1>1 DEF Init, Contesta
<1>5. UnaVuelta
  BY <1>1, <1>3, <1>4 DEF Init, UnaVuelta, Hay, Contestado
<1>6. Contados
  <2>1. Conectados = {}
    BY <1>1 DEF Init, Conectados
  <2>2. QED
    BY <1>1, <2>1, FS_EmptySet, ConexionAssumption DEF Init, Contados
<1>7. \A c \in Clientes : Escrito(c) = {} /\ Len(salida[c]) = 0
  BY <1>1 DEF Init, Escrito, ToSet
<1>8. Comienzo
  BY <1>1, <1>7 DEF Init, Comienzo, Atendida
<1>9. Cortes
  BY <1>1, <1>3 DEF Init, Cortes, Hay, Sigue, Listo
<1>10. OrdenDelCorte
  BY <1>7 DEF OrdenDelCorte, Antes
<1>11. QED
  BY <1>2, <1>5, <1>6, <1>8, <1>9, <1>10 DEF Inv

-----------------------------------------------------------------------------
(* The client                                                              *)

LEMMA ConectaInv ==
  ASSUME Inv, NEW c \in Clientes, Conecta(c)
  PROVE  Inv'
<1>1. Tipado'
  BY DEF Inv, Tipado, Conecta, delPing
<1>2. UnaVuelta'
  BY VueltaIgual DEF Inv, Conecta, delPing
<1>3. Contados'
  BY ContadosIgual DEF Inv, Conecta
<1>4. /\ \A d \in Clientes : cliente[d] = "cerrado" => cliente'[d] = "cerrado"
      /\ \A d \in Clientes : cliente'[d] # "cerrado" => cliente[d] # "cerrado"
  BY DEF Inv, Tipado, Conecta
<1>5. Comienzo'
  BY SalidaIgual DEF Inv, Comienzo, Conecta, Atendida, delPing
<1>6. Cortes'
  BY <1>4, SalidaIgual, Quieto DEF Inv, Cortes, Conecta, delPing
<1>7. OrdenDelCorte'
  BY <1>4, SalidaIgual DEF Inv, Conecta
<1>8. QED
  BY <1>1, <1>2, <1>3, <1>5, <1>6, <1>7 DEF Inv

LEMMA CierraInv ==
  ASSUME Inv, NEW c \in Clientes, Cierra(c)
  PROVE  Inv'
<1>1. Tipado'
  BY DEF Inv, Tipado, Cierra, delPing
<1>2. UnaVuelta'
  BY VueltaIgual DEF Inv, Cierra, delPing
<1>3. Contados'
  BY ContadosIgual DEF Inv, Cierra
<1>4. /\ \A d \in Clientes : cliente[d] = "cerrado" => cliente'[d] = "cerrado"
      /\ \A d \in Clientes : cliente'[d] # "cerrado" => cliente[d] # "cerrado"
  BY DEF Inv, Tipado, Cierra
<1>5. Comienzo'
  BY SalidaIgual DEF Inv, Comienzo, Cierra, Atendida, delPing
<1>6. Cortes'
  BY <1>4, SalidaIgual, Quieto DEF Inv, Cortes, Cierra, delPing
<1>7. OrdenDelCorte'
  BY <1>4, SalidaIgual DEF Inv, Cierra
<1>8. QED
  BY <1>1, <1>2, <1>3, <1>5, <1>6, <1>7 DEF Inv

(* A line joins the ones on their way.                                     *)
LEMMA Mandado ==
  ASSUME Inv, NEW c \in Clientes, NEW linea \in Lineas, Manda(c, linea)
  PROVE  /\ entrada' \in [Clientes -> Seq(Lineas)]
         /\ \A i, d : d \in Clientes /\ d # c => (Contesta(i, d)' <=> Contesta(i, d))
         /\ \A i : Contesta(i, c)' => Contesta(i, c) \/ (linea = "PONG" /\ i = Len(entrada[c]) + 1)
<1> DEFINE s == entrada[c]
           w == Append(s, linea)
<1>1. /\ entrada \in [Clientes -> Seq(Lineas)] /\ s \in Seq(Lineas)
      /\ entrada' = [entrada EXCEPT ![c] = w]
  BY DEF Inv, Tipado, Manda
<1>2. /\ w \in Seq(Lineas) /\ Len(s) \in Nat /\ Len(w) = Len(s) + 1
      /\ \A i \in 1..Len(s) : w[i] = s[i]
      /\ w[Len(s) + 1] = linea
  BY <1>1, AppendProperties
<1>3. entrada'[c] = w
  BY <1>1
<1> HIDE DEF w
<1>4. entrada' \in [Clientes -> Seq(Lineas)]
  BY <1>1, <1>2
<1>5. \A i, d : d \in Clientes /\ d # c => (Contesta(i, d)' <=> Contesta(i, d))
  BY <1>1 DEF Contesta
<1>6. \A i : Contesta(i, c)' => Contesta(i, c) \/ (linea = "PONG" /\ i = Len(s) + 1)
  BY <1>2, <1>3 DEF Contesta
<1>7. QED
  BY <1>4, <1>5, <1>6

(* Nothing of the server changes; and a client answers a ping it owes.     *)
LEMMA MandaInv ==
  ASSUME Inv, NEW c \in Clientes, NEW linea \in Lineas, Manda(c, linea),
         pubs' \in [Clientes -> 0..(MaxPubs + 1)],
         \/ linea # "PONG" /\ debe' = debe
         \/ linea = "PONG" /\ debe[c] /\ debe' = [debe EXCEPT ![c] = FALSE]
  PROVE  Inv'
<1>1. Tipado'
  BY Mandado DEF Inv, Tipado, Manda, delPing
<1>2. UnaVuelta'
  <2>1. /\ \A i, op, d : En(i, op, d)' <=> En(i, op, d)
        /\ \A op, d : Hay(op, d)' <=> Hay(op, d)
    BY Quieto DEF Manda
  <2>2. ping' = ping /\ pongs' = pongs /\ debe \in [Clientes -> BOOLEAN]
    BY DEF Manda, delPing, Inv, Tipado
  <2>3. \A d \in Clientes : d # c =>
          /\ debe'[d] = debe[d] /\ (Contestado(d)' <=> Contestado(d))
          /\ \A i : Contesta(i, d)' <=> Contesta(i, d)
    BY <2>2, Mandado DEF Contestado
  <2>4. CASE linea # "PONG"
    <3>1. /\ \A i : Contesta(i, c)' => Contesta(i, c)
          /\ Contestado(c)' => Contestado(c)
          /\ debe'[c] = debe[c]
      BY <2>4, Mandado DEF Contestado
    <3>2. QED
      BY <2>1, <2>2, <2>3, <3>1 DEF Inv, UnaVuelta
  <2>5. CASE linea = "PONG"
    <3>1. /\ ~debe'[c] /\ ~Contestado(c) /\ pongs[c] = 0 /\ ~Hay("SEND_PING", c)
          /\ ping[c] \notin {"no", "arranca", "duerme"}
      BY <2>2, <2>5 DEF Inv, UnaVuelta
    <3>2. \A i \in Nat : Contesta(i, c)' => i = Len(entrada[c]) + 1
      BY <3>1, Mandado DEF Contestado
    <3>3. QED
      BY <2>1, <2>2, <2>3, <3>1, <3>2 DEF Inv, UnaVuelta
  <2>6. QED
    BY <2>4, <2>5
<1>3. Contados'
  BY ContadosIgual DEF Inv, Manda
<1>4. Comienzo'
  BY SalidaIgual DEF Inv, Comienzo, Manda, Atendida, delPing
<1>5. Cortes'
  BY SalidaIgual, Quieto DEF Inv, Cortes, Manda, delPing
<1>6. OrdenDelCorte'
  BY SalidaIgual DEF Inv, Manda
<1>7. QED
  BY <1>1, <1>2, <1>3, <1>4, <1>5, <1>6 DEF Inv

LEMMA ClienteInv ==
  ASSUME Inv, NEW c \in Clientes, Cliente(c)
  PROVE  Inv'
<1>1. pubs \in [Clientes -> 0..(MaxPubs + 1)] /\ MaxPubs \in Nat
  BY ConexionAssumption DEF Inv, Tipado
<1>2. CASE MandaConnect(c)
  BY <1>1, <1>2, MandaInv DEF MandaConnect, Lineas
<1>3. CASE MandaPub(c)
  <2>1. PICK linea \in {"PUB", "ILEGIBLE"} : Manda(c, linea)
    BY <1>3 DEF MandaPub
  <2>2. pubs' \in [Clientes -> 0..(MaxPubs + 1)] /\ debe' = debe
    BY <1>1, <1>3 DEF MandaPub
  <2>3. QED
    BY <2>1, <2>2, MandaInv DEF Lineas
<1>4. CASE MandaPong(c)
  BY <1>1, <1>4, MandaInv DEF MandaPong, Lineas
<1>5. QED
  BY <1>2, <1>3, <1>4, ConectaInv, CierraInv DEF Cliente

-----------------------------------------------------------------------------
(* The accept loop                                                         *)

LEMMA AceptaFallaInv ==
  ASSUME Inv, NEW c \in Clientes, AceptaFalla(c)
  PROVE  Inv'
<1>1. Tipado'
  BY DEF Inv, Tipado, AceptaFalla, delCliente, delPing
<1>2. UnaVuelta'
  BY VueltaIgual DEF Inv, AceptaFalla, delCliente, delPing
<1>3. Contados'
  BY ContadosIgual DEF Inv, AceptaFalla
<1>4. Comienzo'
  BY SalidaIgual DEF Inv, Comienzo, AceptaFalla, Atendida, delPing
<1>5. Cortes'
  BY SalidaIgual, Quieto DEF Inv, Cortes, AceptaFalla, delCliente, delPing
<1>6. OrdenDelCorte'
  BY SalidaIgual DEF Inv, AceptaFalla, delCliente
<1>7. QED
  BY <1>1, <1>2, <1>3, <1>4, <1>5, <1>6 DEF Inv

LEMMA RechazaInv ==
  ASSUME Inv, NEW c \in Clientes, Rechaza(c)
  PROVE  Inv'
<1>1. Tipado'
  BY DEF Inv, Tipado, Rechaza, delPing
<1>2. UnaVuelta'
  BY VueltaIgual DEF Inv, Rechaza, delPing
<1>3. Contados'
  BY ContadosIgual DEF Inv, Rechaza
<1>4. /\ \A d \in Clientes : cliente[d] = "cerrado" => cliente'[d] = "cerrado"
      /\ \A d \in Clientes : cliente'[d] # "cerrado" => cliente[d] # "cerrado"
  BY DEF Inv, Tipado, Rechaza
<1>5. Comienzo'
  BY SalidaIgual DEF Inv, Comienzo, Rechaza, Atendida, Entrante, delPing
<1>6. Cortes'
  BY <1>4, SalidaIgual, Quieto DEF Inv, Cortes, Rechaza, delPing
<1>7. OrdenDelCorte'
  BY <1>4, SalidaIgual DEF Inv, Rechaza
<1>8. QED
  BY <1>1, <1>2, <1>3, <1>5, <1>6, <1>7 DEF Inv

(* The connection that starts was not counted, and there is room for it.   *)
LEMMA LanzaInv ==
  ASSUME Inv, NEW c \in Clientes, Lanza(c)
  PROVE  Inv'
<1>1. /\ acepta.fase = "libre" /\ oyente[c] = "no" /\ ping[c] = "no"
      /\ salida[c] = << >> /\ c \notin clientes_map
      /\ acepta'.fase = "saluda" /\ acepta'.c = c
      /\ ping' = [ping EXCEPT ![c] = "arranca"]
      /\ oyente' = [oyente EXCEPT ![c] = "lee"]
      /\ ping \in [Clientes -> {"no", "arranca", "espera", "duerme", "corta", "fin"}]
      /\ oyente \in [Clientes -> {"no", "lee", "corta", "sale", "fin"}]
  BY DEF Inv, Tipado, Comienzo, Lanza, Entrante
<1>2. Tipado'
  BY DEF Inv, Tipado, Lanza, delPing
<1>3. UnaVuelta'
  BY <1>1, VueltaIgual DEF Inv, Lanza
<1>4. Contados'
  <2>1. Conectados' = Conectados \cup {c} /\ c \notin Conectados
    BY <1>1 DEF Conectados
  <2>2. /\ IsFiniteSet(Conectados') /\ Cardinality(Conectados') = Cardinality(Conectados) + 1
        /\ Cardinality(Conectados) = count_connections
    BY <1>1, <2>1, FS_AddElement DEF Inv, Contados
  <2>3. /\ count_connections \in Nat /\ MAX_CONNECTIONS \in Nat
        /\ count_connections < MAX_CONNECTIONS /\ count_connections' = count_connections
    BY ConexionAssumption DEF Inv, Tipado, Lanza
  <2>4. QED
    BY <1>1, <2>2, <2>3 DEF Contados
<1>5. /\ \A d \in Clientes : cliente[d] = "cerrado" <=> cliente'[d] = "cerrado"
  BY DEF Inv, Tipado, Lanza
<1>6. Comienzo'
  <2>1. Escrito(c) = {}
    BY <1>1 DEF Escrito, ToSet
  <2>2. \A d \in Clientes : Atendida(d)' <=> d = c
    BY <1>1 DEF Atendida
  <2>3. /\ \A d : Escrito(d)' = Escrito(d)
        /\ clientes_map' = clientes_map /\ salida' = salida
    BY SalidaIgual DEF Lanza
  <2>4. QED
    BY <1>1, <2>1, <2>2, <2>3 DEF Inv, Comienzo
<1>7. Cortes'
  BY <1>1, <1>5, SalidaIgual, Quieto DEF Inv, Cortes, Lanza
<1>8. OrdenDelCorte'
  BY <1>5, SalidaIgual DEF Inv, Lanza
<1>9. QED
  BY <1>2, <1>3, <1>4, <1>6, <1>7, <1>8 DEF Inv

(* What is written to d adds to what was, in the order of the cut.         *)
LEMMA OrdenEscrito ==
  ASSUME Inv, NEW d \in Clientes, NEW t \in Textos, Escribe(d, t),
         "SHUTDOWN" \notin Escrito(d), cliente' = cliente,
         t = "PING" => "INFO" \in Escrito(d),
         t = "STALE" => "PING" \in Escrito(d),
         t = "SHUTDOWN" /\ cliente[d] # "cerrado" => "STALE" \in Escrito(d)
  PROVE  /\ OrdenDelCorte'
         /\ salida' \in [Clientes -> Seq(Textos)]
         /\ Escrito(d)' = Escrito(d) \cup {t}
         /\ \A c \in Clientes : c # d => salida'[c] = salida[c] /\ Escrito(c)' = Escrito(c)
<1>1. /\ salida' \in [Clientes -> Seq(Textos)]
      /\ \A c \in Clientes : c # d => salida'[c] = salida[c]
      /\ Escrito(d)' = Escrito(d) \cup {t}
      /\ \A x, y : Antes(d, x, y) /\ (y = t => x \in Escrito(d)) => Antes(d, x, y)'
      /\ t = "SHUTDOWN" => Last(salida[d])' = "SHUTDOWN"
  BY Escritura DEF Inv, Tipado
<1>2. \A c \in Clientes : c # d =>
        /\ Escrito(c)' = Escrito(c) /\ Last(salida[c])' = Last(salida[c])
        /\ \A x, y : Antes(c, x, y)' <=> Antes(c, x, y)
  BY <1>1 DEF Escrito, Antes
<1>3. /\ Antes(d, "INFO", "PING")' /\ Antes(d, "PING", "STALE")'
      /\ cliente'[d] # "cerrado" => Antes(d, "STALE", "SHUTDOWN")'
      /\ "SHUTDOWN" \in Escrito(d)' => Last(salida[d])' = "SHUTDOWN"
  BY <1>1 DEF Inv, OrdenDelCorte
<1>4. OrdenDelCorte'
  BY <1>2, <1>3 DEF Inv, OrdenDelCorte
<1>5. QED
  BY <1>1, <1>2, <1>4

LEMMA SaludaInv ==
  ASSUME Inv, Saluda
  PROVE  Inv'
<1>1. PICK s \in Clientes :
        acepta = [fase |-> "saluda", c |-> s] /\ Atendida(s) /\ acepta.c = s
  BY DEF Inv, Tipado, Saluda, Atendida
<1>2. CASE acepta'.fase = "caido" /\ salida' = salida
  <2>1. Tipado'
    BY <1>1, <1>2 DEF Inv, Tipado, Saluda, delCliente, delPing
  <2>2. UnaVuelta'
    BY VueltaIgual DEF Inv, Saluda, delCliente, delPing
  <2>3. Contados'
    BY <1>2, ContadosIgual DEF Inv, Saluda
  <2>4. Comienzo'
    BY <1>2, SalidaIgual DEF Inv, Comienzo, Saluda, Atendida, delPing
  <2>5. Cortes'
    BY <1>2, SalidaIgual, Quieto DEF Inv, Cortes, Saluda, delCliente, delPing
  <2>6. OrdenDelCorte'
    BY <1>2, SalidaIgual DEF Inv, Saluda, delCliente
  <2>7. QED
    BY <2>1, <2>2, <2>3, <2>4, <2>5, <2>6 DEF Inv
<1>3. CASE acepta' = [acepta EXCEPT !.fase = "inserta"] /\ Escribe(s, "INFO")
  <2>1. acepta' = [fase |-> "inserta", c |-> s]
    BY <1>1, <1>3
  <2>2. "SHUTDOWN" \notin Escrito(s) /\ cliente' = cliente
    BY <1>1 DEF Inv, Comienzo, Saluda, delCliente
  <2>3. /\ OrdenDelCorte'
        /\ salida' \in [Clientes -> Seq(Textos)]
        /\ Escrito(s)' = Escrito(s) \cup {"INFO"}
        /\ \A c \in Clientes : c # s => salida'[c] = salida[c] /\ Escrito(c)' = Escrito(c)
    BY <1>3, <2>2, OrdenEscrito DEF Textos
  <2>4. Tipado'
    BY <1>1, <2>1, <2>3 DEF Inv, Tipado, Saluda, delCliente, delPing
  <2>5. UnaVuelta'
    BY VueltaIgual DEF Inv, Saluda, delCliente, delPing
  <2>6. Contados'
    BY <1>1, <2>1, ContadosIgual DEF Inv, Saluda
  <2>7. Comienzo'
    BY <1>1, <2>1, <2>3 DEF Inv, Comienzo, Saluda, Atendida, delPing
  <2>8. Cortes'
    <3>1. \A x, c : c \in Clientes => (Listo(x, c) => Listo(x, c)')
      BY <2>3 DEF Listo, Saluda
    <3>2. QED
      BY <3>1, Quieto DEF Inv, Cortes, Saluda, delCliente, delPing
  <2>9. QED
    BY <2>4, <2>5, <2>6, <2>7, <2>8, <2>3 DEF Inv
<1>4. QED
  BY <1>1, <1>2, <1>3 DEF Saluda

(* A connection enters the map before its ping thread has said anything.   *)
LEMMA InsertaInv ==
  ASSUME Inv, Inserta
  PROVE  Inv'
<1>1. PICK s \in Clientes :
        /\ acepta = [fase |-> "inserta", c |-> s] /\ Atendida(s)
        /\ ping[s] = "arranca" /\ "INFO" \in Escrito(s)
        /\ "SHUTDOWN" \notin Escrito(s) /\ oyente[s] # "no"
        /\ acepta' = [fase |-> "libre"] /\ clientes_map' = clientes_map \cup {s}
  BY DEF Inv, Tipado, Comienzo, Inserta, Atendida
<1>2. Tipado'
  <2>1. count_connections' \in 0..MAX_CONNECTIONS
    BY <1>1, FS_CardinalityType, ConexionAssumption DEF Inv, Tipado, Contados, Inserta
  <2>2. QED
    BY <1>1, <2>1 DEF Inv, Tipado, Inserta, delCliente, delPing
<1>3. UnaVuelta'
  BY VueltaIgual DEF Inv, Inserta, delCliente, delPing
<1>4. Contados'
  <2>1. Conectados' = Conectados
    BY DEF Conectados, Inserta
  <2>2. QED
    BY <1>1, <2>1 DEF Inv, Contados, Inserta
<1>5. /\ \A c : Escrito(c)' = Escrito(c)
      /\ \A c : ~Atendida(c)'
  BY <1>1, SalidaIgual DEF Inserta, Atendida
<1>6. Comienzo'
  BY <1>1, <1>5 DEF Inv, Comienzo, Inserta, delPing
<1>7. Cortes'
  <2>1. \A x, c : c # s => (Listo(x, c)' <=> Listo(x, c))
    BY <1>1, <1>5 DEF Listo
  <2>2. /\ ~Hay("SEND_PING", s)' /\ ~Hay("STALE", s)'
        /\ cliente[s] # "cerrado" => ~Hay("SHUTDOWN", s)'
    BY <1>1, Quieto DEF Inv, Cortes, Inserta
  <2>3. /\ Sigue("STALE", "SEND_PING", "PING", s)'
        /\ cliente[s] # "cerrado" => Sigue("SHUTDOWN", "STALE", "STALE", s)'
    BY <2>2 DEF Sigue, Hay
  <2>4. /\ ping' = ping /\ cliente' = cliente /\ oyente' = oyente
        /\ \A op, c : Hay(op, c)' <=> Hay(op, c)
        /\ \A y, op, x, c : Sigue(y, op, x, c) /\ (Listo(x, c) => Listo(x, c)')
                              => Sigue(y, op, x, c)'
    BY Quieto DEF Inserta, delCliente, delPing
  <2>5. QED
    BY <1>1, <2>1, <2>2, <2>3, <2>4 DEF Inv, Cortes
<1>8. OrdenDelCorte'
  BY SalidaIgual DEF Inv, Inserta, delCliente
<1>9. QED
  BY <1>2, <1>3, <1>4, <1>6, <1>7, <1>8 DEF Inv

-----------------------------------------------------------------------------
(* The listening thread                                                    *)

LEMMA Leido ==
  ASSUME Inv, NEW c \in Clientes, entrada[c] # << >>,
         entrada' = [entrada EXCEPT ![c] = Tail(@)]
  PROVE  /\ entrada' \in [Clientes -> Seq(Lineas)]
         /\ Head(entrada[c]) \in Lineas
         /\ \A i, d : d \in Clientes /\ d # c => (Contesta(i, d)' <=> Contesta(i, d))
         /\ \A i \in Nat : Contesta(i, c)' => Contesta(i + 1, c)
         /\ Head(entrada[c]) = "PONG" => Contesta(1, c)
<1> DEFINE s == entrada[c]
           w == Tail(s)
<1>1. /\ entrada \in [Clientes -> Seq(Lineas)] /\ s \in Seq(Lineas) /\ s # << >>
      /\ entrada' = [entrada EXCEPT ![c] = w]
  BY DEF Inv, Tipado
<1>2. /\ w \in Seq(Lineas) /\ Len(s) \in Nat \ {0} /\ Len(w) = Len(s) - 1
      /\ \A i \in 1..Len(w) : w[i] = s[i + 1]
      /\ Head(s) = s[1] /\ s[1] \in Lineas
  BY <1>1, HeadTailProperties, EmptySeq, LenProperties
<1>3. entrada'[c] = w
  BY <1>1
<1> HIDE DEF w
<1>4. entrada' \in [Clientes -> Seq(Lineas)]
  BY <1>1, <1>2
<1>5. \A i, d : d \in Clientes /\ d # c => (Contesta(i, d)' <=> Contesta(i, d))
  BY <1>1 DEF Contesta
<1>6. \A i \in Nat : Contesta(i, c)' => Contesta(i + 1, c)
  BY <1>2, <1>3 DEF Contesta
<1>7. Head(s) = "PONG" => Contesta(1, c)
  BY <1>2 DEF Contesta
<1>8. QED
  BY <1>2, <1>4, <1>5, <1>6, <1>7

(* What passes through the channel without being a ping or a cut.          *)
LEMMA OtraCosa ==
  ASSUME Inv, NEW c \in Clientes, NEW z \in {"CONNECT", "PUB", "-ERR"}, Encola(z, c)
  PROVE  /\ canal' \in Seq(Mensajes)
         /\ \A i, op, d : op \notin {"CONNECT", "PUB", "-ERR"} => (En(i, op, d)' <=> En(i, op, d))
         /\ \A op, d : op \notin {"CONNECT", "PUB", "-ERR"} => (Hay(op, d)' <=> Hay(op, d))
         /\ \A y, op, x, d : y \notin {"CONNECT", "PUB", "-ERR"} =>
              (Sigue(y, op, x, d) /\ (Listo(x, d) => Listo(x, d)') => Sigue(y, op, x, d)')
<1>1. z \in Operaciones /\ canal \in Seq(Mensajes)
  BY DEF Operaciones, Inv, Tipado
<1>2. QED
  BY <1>1, Encolado, Haberes

LEMMA OyenteLeeInv ==
  ASSUME Inv, NEW c \in Clientes, OyenteLee(c)
  PROVE  Inv'
<1>1. /\ ping' = ping /\ salida' = salida /\ clientes_map' = clientes_map
      /\ acepta' = acepta /\ cliente' = cliente /\ debe' = debe
      /\ oyente' = oyente \/ oyente' = [oyente EXCEPT ![c] = "sale"]
      /\ oyente \in [Clientes -> {"no", "lee", "corta", "sale", "fin"}]
      /\ oyente[c] = "lee" /\ entrada[c] # << >>
      /\ entrada' = [entrada EXCEPT ![c] = Tail(@)]
  BY DEF OyenteLee, Inv, Tipado
<1>2. /\ canal' \in Seq(Mensajes)
      /\ \A i, op, d : op \notin {"CONNECT", "PUB", "-ERR"} => (En(i, op, d)' <=> En(i, op, d))
      /\ \A op, d : op \notin {"CONNECT", "PUB", "-ERR"} => (Hay(op, d)' <=> Hay(op, d))
      /\ \A y, op, x, d : y \notin {"CONNECT", "PUB", "-ERR"} =>
           (Sigue(y, op, x, d) /\ (Listo(x, d) => Listo(x, d)') => Sigue(y, op, x, d)')
  <2>1. CASE canal' = canal
    BY <2>1, Quieto DEF Inv, Tipado
  <2>2. CASE \E z \in {"CONNECT", "PUB", "-ERR"} : Encola(z, c)
    BY <2>2, OtraCosa
  <2>3. QED
    BY <2>1, <2>2 DEF OyenteLee
<1>3. \/ pongs' = pongs
      \/ /\ Head(entrada[c]) = "PONG"
         /\ pongs' = [pongs EXCEPT ![c] = @ + 1]
  BY DEF OyenteLee
<1>4. \A i \in Nat : Contesta(i, c)' => i + 1 \in Nat /\ Contesta(i + 1, c)
  <2>1. \A i \in Nat : Contesta(i, c)' => Contesta(i + 1, c)
    BY <1>1, Leido
  <2>2. QED
    BY <2>1
<1>5. ASSUME pongs' = pongs
      PROVE  Tipado' /\ UnaVuelta'
  <2>1. Tipado'
    BY <1>1, <1>2, <1>5, Leido DEF Inv, Tipado, OyenteLee
  <2>2. UnaVuelta'
    <3>1. \A d \in Clientes : Contestado(d)' => Contestado(d)
      BY <1>1, <1>4, Leido DEF Contestado
    <3>2. \A d \in Clientes : \A i, j \in Nat : Contesta(i, d)' /\ Contesta(j, d)' => i = j
      <4>1. \A i, j \in Nat : Contesta(i, c)' /\ Contesta(j, c)' => i + 1 = j + 1
        BY <1>4 DEF Inv, UnaVuelta
      <4>2. \A i, j \in Nat : Contesta(i, c)' /\ Contesta(j, c)' => i = j
        BY <4>1
      <4>3. \A d \in Clientes : d # c =>
              \A i, j \in Nat : Contesta(i, d)' /\ Contesta(j, d)' => i = j
        <5>1. \A d \in Clientes :
                \A i, j \in Nat : Contesta(i, d) /\ Contesta(j, d) => i = j
          BY DEF Inv, UnaVuelta
        <5>2. \A d \in Clientes : d # c =>
                \A i \in Nat : Contesta(i, d)' => Contesta(i, d)
          BY <1>1, Leido
        <5>3. QED
          BY <5>1, <5>2
      <4>4. QED
        BY <4>2, <4>3
    <3>3. QED
      BY <1>1, <1>2, <1>5, <3>1, <3>2 DEF Inv, UnaVuelta
  <2>3. QED
    BY <2>1, <2>2
<1>6. ASSUME Head(entrada[c]) = "PONG", pongs' = [pongs EXCEPT ![c] = @ + 1]
      PROVE  Tipado' /\ UnaVuelta'
  <2>1. /\ Contesta(1, c) /\ Contestado(c) /\ ~Hay("SEND_PING", c) /\ ~debe[c]
        /\ pongs[c] = 0 /\ ping[c] \notin {"no", "arranca", "duerme"}
    BY <1>1, <1>6, Leido DEF Contestado, Inv, UnaVuelta
  <2>2. Tipado'
    BY <1>1, <1>2, <1>6, <2>1, Leido DEF Inv, Tipado, OyenteLee
  <2>3. UnaVuelta'
    <3>1. \A i \in Nat : ~Contesta(i, c)'
      <4>1. ASSUME NEW i \in Nat, Contesta(i, c)'
            PROVE  FALSE
        <5>1. i + 1 = 1
          BY <1>4, <2>1, <4>1 DEF Inv, UnaVuelta
        <5>2. i = 0
          BY <5>1
        <5>3. QED
          BY <4>1, <5>2 DEF Contesta
      <4>2. QED
        BY <4>1
    <3>2. ~Contestado(c)'
      BY <3>1 DEF Contestado
    <3>3. \A d \in Clientes : d # c =>
            /\ Contestado(d)' <=> Contestado(d)
            /\ \A i \in Nat : Contesta(i, d)' <=> Contesta(i, d)
            /\ pongs'[d] = pongs[d]
      BY <1>1, <1>6, Leido DEF Contestado, Inv, Tipado
    <3>4. QED
      BY <1>1, <1>2, <2>1, <3>1, <3>2, <3>3 DEF Inv, UnaVuelta
  <2>4. QED
    BY <2>2, <2>3
<1>7. Contados'
  BY <1>1, ContadosIgual DEF Inv, OyenteLee
<1>8. Comienzo'
  BY <1>1, SalidaIgual DEF Inv, Comienzo, Atendida
<1>9. Cortes'
  BY <1>1, <1>2, SalidaIgual DEF Inv, Cortes
<1>10. OrdenDelCorte'
  BY <1>1, SalidaIgual DEF Inv
<1>11. QED
  BY <1>3, <1>5, <1>6, <1>7, <1>8, <1>9, <1>10 DEF Inv

LEMMA OyenteVeElFinInv ==
  ASSUME Inv, NEW c \in Clientes, OyenteVeElFin(c)
  PROVE  Inv'
<1>1. Tipado'
  BY DEF Inv, Tipado, OyenteVeElFin, delCliente, delPing
<1>2. UnaVuelta'
  BY VueltaIgual DEF Inv, OyenteVeElFin, delCliente, delPing
<1>3. \A d \in Clientes : oyente'[d] = "no" <=> oyente[d] = "no"
  BY DEF Inv, Tipado, OyenteVeElFin
<1>4. Contados'
  BY <1>3, ContadosIgual DEF Inv, OyenteVeElFin
<1>5. Comienzo'
  BY <1>3, SalidaIgual DEF Inv, Comienzo, OyenteVeElFin, Atendida, delPing
<1>6. Cortes'
  <2>1. \A d \in Clientes : oyente'[d] = "corta" => cliente[d] = "cerrado"
    BY DEF Inv, Tipado, Cortes, OyenteVeElFin
  <2>2. QED
    BY <2>1, SalidaIgual, Quieto DEF Inv, Cortes, OyenteVeElFin, delCliente, delPing
<1>7. OrdenDelCorte'
  BY SalidaIgual DEF Inv, OyenteVeElFin, delCliente
<1>8. QED
  BY <1>1, <1>2, <1>4, <1>5, <1>6, <1>7 DEF Inv

(* The client that is cut here has closed.                                 *)
LEMMA OyenteCortaInv ==
  ASSUME Inv, NEW c \in Clientes, OyenteCorta(c)
  PROVE  Inv'
<1>1. /\ cliente[c] = "cerrado" /\ Encola("SHUTDOWN", c)
      /\ "SHUTDOWN" \in Operaciones /\ canal \in Seq(Mensajes)
      /\ cliente' = cliente /\ ping' = ping
  BY DEF Inv, Tipado, Cortes, OyenteCorta, Operaciones, delCliente
<1>2. Tipado'
  BY <1>1, Encolado DEF Inv, Tipado, OyenteCorta, delCliente
<1>3. UnaVuelta'
  <2>1. \A i, d : En(i, "SEND_PING", d)' <=> En(i, "SEND_PING", d)
    BY <1>1, Encolado
  <2>2. \A d : Hay("SEND_PING", d)' <=> Hay("SEND_PING", d)
    BY <2>1 DEF Hay
  <2>3. /\ \A i, d : Contesta(i, d)' <=> Contesta(i, d)
        /\ \A d : Contestado(d)' <=> Contestado(d)
    BY DEF Contesta, Contestado, OyenteCorta, delCliente
  <2>4. QED
    BY <1>1, <2>1, <2>2, <2>3 DEF Inv, UnaVuelta, OyenteCorta, delCliente
<1>4. \A d \in Clientes : /\ oyente'[d] = "no" <=> oyente[d] = "no"
                          /\ oyente'[d] = "corta" => oyente[d] = "corta"
  BY DEF Inv, Tipado, OyenteCorta
<1>5. Contados'
  BY <1>4, ContadosIgual DEF Inv, OyenteCorta
<1>6. Comienzo'
  BY <1>1, <1>4, SalidaIgual DEF Inv, Comienzo, OyenteCorta, Atendida
<1>7. Cortes'
  <2>1. \A x, d : Listo(x, d)' <=> Listo(x, d)
    BY SalidaIgual DEF OyenteCorta
  <2>2. QED
    BY <1>1, <1>4, <2>1, Haberes DEF Inv, Cortes
<1>8. OrdenDelCorte'
  BY SalidaIgual DEF Inv, OyenteCorta, delCliente
<1>9. QED
  BY <1>2, <1>3, <1>5, <1>6, <1>7, <1>8 DEF Inv

LEMMA OyenteTerminaInv ==
  ASSUME Inv, NEW c \in Clientes, OyenteTermina(c)
  PROVE  Inv'
<1>1. clientes_map' \subseteq clientes_map
  BY DEF OyenteTermina, QuitarCliente
<1>2. Tipado'
  BY <1>1 DEF Inv, Tipado, OyenteTermina, delCliente, delPing
<1>3. UnaVuelta'
  BY VueltaIgual DEF Inv, OyenteTermina, delCliente, delPing
<1>4. \A d \in Clientes : /\ oyente'[d] = "no" <=> oyente[d] = "no"
                          /\ oyente'[d] = "corta" => oyente[d] = "corta"
  BY DEF Inv, Tipado, OyenteTermina
<1>5. Contados'
  BY <1>4, ContadosIgual DEF Inv, OyenteTermina
<1>6. Comienzo'
  BY <1>1, <1>4, SalidaIgual DEF Inv, Comienzo, OyenteTermina, Atendida, delPing
<1>7. Cortes'
  <2>1. \A x, d : Listo(x, d) => Listo(x, d)'
    BY <1>1, SalidaIgual DEF Listo, OyenteTermina
  <2>2. QED
    BY <1>4, <2>1, Quieto DEF Inv, Cortes, OyenteTermina, delCliente, delPing
<1>8. OrdenDelCorte'
  BY SalidaIgual DEF Inv, OyenteTermina, delCliente
<1>9. QED
  BY <1>2, <1>3, <1>5, <1>6, <1>7, <1>8 DEF Inv

-----------------------------------------------------------------------------
(* The ping thread                                                         *)

(* A new ping starts the round that nothing was left of.                   *)
LEMMA PingMiraInv ==
  ASSUME Inv, NEW c \in Clientes, PingMira(c)
  PROVE  Inv'
<1>1. /\ salida' = salida /\ clientes_map' = clientes_map /\ acepta' = acepta
      /\ cliente' = cliente /\ oyente' = oyente /\ debe' = debe /\ entrada' = entrada
      /\ pongs' = pongs /\ ping[c] \in {"arranca", "duerme"} /\ ~Atendida(c)
      /\ canal \in Seq(Mensajes) /\ "SEND_PING" \in Operaciones
      /\ ping \in [Clientes -> {"no", "arranca", "espera", "duerme", "corta", "fin"}]
  BY DEF PingMira, Inv, Tipado, Comienzo, delCliente, Operaciones
<1>2. \/ canal' = canal /\ ping' = [ping EXCEPT ![c] = "fin"]
      \/ Encola("SEND_PING", c) /\ ping' = [ping EXCEPT ![c] = "espera"]
  BY DEF PingMira
<1>3. canal' \in Seq(Mensajes)
  BY <1>1, <1>2, Encolado
<1>4. Tipado'
  BY <1>1, <1>2, <1>3 DEF Inv, Tipado, PingMira, delCliente
<1>5. UnaVuelta'
  <2>1. CASE canal' = canal /\ ping' = [ping EXCEPT ![c] = "fin"]
    BY <1>1, <2>1, VueltaIgual DEF Inv
  <2>2. CASE Encola("SEND_PING", c) /\ ping' = [ping EXCEPT ![c] = "espera"]
    <3>1. /\ \A i, d : d # c => (En(i, "SEND_PING", d)' <=> En(i, "SEND_PING", d))
          /\ \A d : d # c => (Hay("SEND_PING", d)' <=> Hay("SEND_PING", d))
      BY <1>1, <2>2, Encolado DEF Hay
    <3>2. ~Hay("SEND_PING", c) /\ ~debe[c] /\ ~Contestado(c) /\ pongs[c] = 0
      BY <1>1 DEF Inv, UnaVuelta
    <3>3. \A i \in Nat : En(i, "SEND_PING", c)' => i = Len(canal) + 1
      BY <1>1, <2>2, <3>2, Encolado DEF Hay
    <3>4. /\ \A i, d : Contesta(i, d)' <=> Contesta(i, d)
          /\ \A d : Contestado(d)' <=> Contestado(d)
      BY <1>1 DEF Contesta, Contestado
    <3>5. QED
      BY <1>1, <2>2, <3>1, <3>2, <3>3, <3>4 DEF Inv, UnaVuelta
  <2>3. QED
    BY <1>2, <2>1, <2>2
<1>6. Contados'
  BY <1>1, ContadosIgual DEF Inv, PingMira
<1>7. Comienzo'
  BY <1>1, <1>2, SalidaIgual DEF Inv, Comienzo, Atendida
<1>8. Cortes'
  <2>1. \A x, d : Listo(x, d)' <=> Listo(x, d)
    BY <1>1, SalidaIgual
  <2>2. CASE canal' = canal /\ ping' = [ping EXCEPT ![c] = "fin"]
    BY <1>1, <2>1, <2>2, Quieto DEF Inv, Cortes
  <2>3. CASE Encola("SEND_PING", c) /\ ping' = [ping EXCEPT ![c] = "espera"]
    BY <1>1, <2>1, <2>3, Haberes DEF Inv, Cortes
  <2>4. QED
    BY <1>2, <2>2, <2>3
<1>9. OrdenDelCorte'
  BY <1>1, SalidaIgual DEF Inv
<1>10. QED
  BY <1>4, <1>5, <1>6, <1>7, <1>8, <1>9 DEF Inv

(* The answer that is taken is the only thing left of the round.           *)
LEMMA PingRecibeInv ==
  ASSUME Inv, NEW c \in Clientes, PingRecibe(c)
  PROVE  Inv'
<1>1. pongs[c] = 1 /\ pongs \in [Clientes -> 0..1]
  BY DEF PingRecibe, Inv, Tipado
<1>2. /\ ping[c] = "espera" /\ pongs[c] = 1
      /\ ping' = [ping EXCEPT ![c] = "duerme"] /\ pongs' = [pongs EXCEPT ![c] = 0]
      /\ ping \in [Clientes -> {"no", "arranca", "espera", "duerme", "corta", "fin"}]
      /\ pongs \in [Clientes -> 0..1]
  BY <1>1 DEF PingRecibe, Inv, Tipado
<1>3. Tipado'
  BY <1>2 DEF Inv, Tipado, PingRecibe, delCliente
<1>4. UnaVuelta'
  <2>1. /\ ~Hay("SEND_PING", c) /\ ~debe[c] /\ ~Contestado(c)
    BY <1>2 DEF Inv, UnaVuelta
  <2>2. /\ \A i, d : Contesta(i, d)' <=> Contesta(i, d)
        /\ \A d : Contestado(d)' <=> Contestado(d)
    BY DEF Contesta, Contestado, PingRecibe, delCliente
  <2>3. QED
    BY <1>2, <2>1, <2>2, Quieto DEF Inv, UnaVuelta, PingRecibe, delCliente
<1>5. Contados'
  BY ContadosIgual DEF Inv, PingRecibe
<1>6. Comienzo'
  BY <1>2, SalidaIgual DEF Inv, Comienzo, PingRecibe, Atendida
<1>7. Cortes'
  BY <1>2, SalidaIgual, Quieto DEF Inv, Cortes, PingRecibe, delCliente
<1>8. OrdenDelCorte'
  BY SalidaIgual DEF Inv, PingRecibe, delCliente
<1>9. QED
  BY <1>3, <1>4, <1>5, <1>6, <1>7, <1>8 DEF Inv

LEMMA PingSeCansaInv ==
  ASSUME Inv, NEW c \in Clientes, PingSeCansa(c)
  PROVE  Inv'
<1>1. /\ salida' = salida /\ clientes_map' = clientes_map /\ acepta' = acepta
      /\ cliente' = cliente /\ oyente' = oyente /\ debe' = debe /\ entrada' = entrada
      /\ pongs' = pongs /\ ping[c] = "espera"
      /\ canal \in Seq(Mensajes) /\ "STALE" \in Operaciones
      /\ ping \in [Clientes -> {"no", "arranca", "espera", "duerme", "corta", "fin"}]
  BY DEF PingSeCansa, Inv, Tipado, delCliente, Operaciones
<1>2. \/ canal' = canal /\ ping' = [ping EXCEPT ![c] = "fin"]
      \/ Encola("STALE", c) /\ ping' = [ping EXCEPT ![c] = "corta"]
  BY DEF PingSeCansa
<1>3. /\ canal' \in Seq(Mensajes)
      /\ \A i, d : En(i, "SEND_PING", d)' <=> En(i, "SEND_PING", d)
  BY <1>1, <1>2, Encolado, Quieto
<1>4. Tipado'
  BY <1>1, <1>2, <1>3 DEF Inv, Tipado, PingSeCansa, delCliente
<1>5. UnaVuelta'
  <2>1. /\ \A i, d : Contesta(i, d)' <=> Contesta(i, d)
        /\ \A d : Contestado(d)' <=> Contestado(d)
        /\ \A d : Hay("SEND_PING", d)' <=> Hay("SEND_PING", d)
    BY <1>1, <1>3 DEF Contesta, Contestado, Hay
  <2>2. QED
    BY <1>1, <1>2, <1>3, <2>1 DEF Inv, UnaVuelta
<1>6. Contados'
  BY <1>1, ContadosIgual DEF Inv, PingSeCansa
<1>7. Comienzo'
  BY <1>1, <1>2, SalidaIgual DEF Inv, Comienzo, Atendida
<1>8. Cortes'
  <2>1. \A x, d : Listo(x, d)' <=> Listo(x, d)
    BY <1>1, SalidaIgual
  <2>2. CASE canal' = canal /\ ping' = [ping EXCEPT ![c] = "fin"]
    BY <1>1, <2>1, <2>2, Quieto DEF Inv, Cortes
  <2>3. CASE Encola("STALE", c) /\ ping' = [ping EXCEPT ![c] = "corta"]
    BY <1>1, <2>1, <2>3, Haberes DEF Inv, Cortes
  <2>4. QED
    BY <1>2, <2>2, <2>3
<1>9. OrdenDelCorte'
  BY <1>1, SalidaIgual DEF Inv
<1>10. QED
  BY <1>4, <1>5, <1>6, <1>7, <1>8, <1>9 DEF Inv

LEMMA PingCortaInv ==
  ASSUME Inv, NEW c \in Clientes, PingCorta(c)
  PROVE  Inv'
<1>1. /\ salida' = salida /\ clientes_map' = clientes_map /\ acepta' = acepta
      /\ cliente' = cliente /\ oyente' = oyente /\ debe' = debe /\ entrada' = entrada
      /\ pongs' = pongs /\ ping[c] = "corta" /\ Encola("SHUTDOWN", c)
      /\ ping' = [ping EXCEPT ![c] = "fin"]
      /\ canal \in Seq(Mensajes) /\ "SHUTDOWN" \in Operaciones
      /\ ping \in [Clientes -> {"no", "arranca", "espera", "duerme", "corta", "fin"}]
  BY DEF PingCorta, Inv, Tipado, delCliente, Operaciones
<1>2. /\ canal' \in Seq(Mensajes)
      /\ \A i, d : En(i, "SEND_PING", d)' <=> En(i, "SEND_PING", d)
  BY <1>1, Encolado
<1>3. Tipado'
  BY <1>1, <1>2 DEF Inv, Tipado, PingCorta, delCliente
<1>4. UnaVuelta'
  <2>1. /\ \A i, d : Contesta(i, d)' <=> Contesta(i, d)
        /\ \A d : Contestado(d)' <=> Contestado(d)
        /\ \A d : Hay("SEND_PING", d)' <=> Hay("SEND_PING", d)
    BY <1>1, <1>2 DEF Contesta, Contestado, Hay
  <2>2. QED
    BY <1>1, <1>2, <2>1 DEF Inv, UnaVuelta
<1>5. Contados'
  BY <1>1, ContadosIgual DEF Inv, PingCorta
<1>6. Comienzo'
  BY <1>1, SalidaIgual DEF Inv, Comienzo, Atendida
<1>7. Cortes'
  <2>1. \A x, d : Listo(x, d)' <=> Listo(x, d)
    BY <1>1, SalidaIgual
  <2>2. QED
    BY <1>1, <2>1, Haberes DEF Inv, Cortes
<1>8. OrdenDelCorte'
  BY <1>1, SalidaIgual DEF Inv
<1>9. QED
  BY <1>3, <1>4, <1>5, <1>6, <1>7, <1>8 DEF Inv

-----------------------------------------------------------------------------
(* The executor                                                            *)

(* What the message at the head makes the executor write, and what must    *)
(* have been written already.                                              *)
LEMMA Escrituras ==
  ASSUME Inv, NEW op \in Operaciones, NEW d \in Clientes, NEW t \in Textos,
         canal # << >>, Head(canal) = [op |-> op, c |-> d], EscribeSiEsta(d, t),
         cliente' = cliente, clientes_map' \subseteq clientes_map,
         op = "SHUTDOWN" => d \notin clientes_map',
         t = "PING" <=> op = "SEND_PING", t = "STALE" <=> op = "STALE",
         t = "SHUTDOWN" => op = "SHUTDOWN"
  PROVE  /\ OrdenDelCorte'
         /\ salida' \in [Clientes -> Seq(Textos)]
         /\ \A c \in Clientes : Escrito(c) \subseteq Escrito(c)'
         /\ \A c \in Clientes : "SHUTDOWN" \in Escrito(c)' =>
              "SHUTDOWN" \in Escrito(c) \/ c \in clientes_map \ clientes_map'
         /\ \A c \in Clientes : c \notin clientes_map => salida'[c] = salida[c]
         /\ \A x, c : c \in Clientes /\ Listo(x, c) => Listo(x, c)'
         /\ Listo(t, d)'
<1>1. canal \in Seq(Mensajes) /\ salida \in [Clientes -> Seq(Textos)]
  BY DEF Inv, Tipado
<1>2. En(1, op, d) /\ \A j \in Nat : \A y, c : En(j, y, c) => j >= 1
  <2>1. Len(canal) \in Nat \ {0} /\ Head(canal) = canal[1]
    BY <1>1, EmptySeq, LenProperties, HeadTailProperties
  <2>2. QED
    BY <2>1 DEF En
<1>3. CASE d \in clientes_map
  <2>1. Escribe(d, t) /\ "SHUTDOWN" \notin Escrito(d) /\ "INFO" \in Escrito(d)
    BY <1>3 DEF EscribeSiEsta, Inv, Comienzo
  <2>2. t = "STALE" => "PING" \in Escrito(d)
    BY <1>3, <1>2 DEF Inv, Cortes, Sigue, Listo
  <2>3. t = "SHUTDOWN" /\ cliente[d] # "cerrado" => "STALE" \in Escrito(d)
    BY <1>3, <1>2 DEF Inv, Cortes, Sigue, Listo
  <2>4. /\ OrdenDelCorte'
        /\ salida' \in [Clientes -> Seq(Textos)]
        /\ Escrito(d)' = Escrito(d) \cup {t}
        /\ \A c \in Clientes : c # d => salida'[c] = salida[c] /\ Escrito(c)' = Escrito(c)
    BY <2>1, <2>2, <2>3, OrdenEscrito
  <2>5. QED
    BY <1>3, <2>4 DEF Listo
<1>4. CASE d \notin clientes_map
  <2>1. salida' = salida
    BY <1>4 DEF EscribeSiEsta
  <2>2. QED
    BY <1>1, <1>4, <2>1, SalidaIgual DEF Inv, Listo
<1>5. QED
  BY <1>3, <1>4

LEMMA EjecutaInv ==
  ASSUME Inv, Ejecuta
  PROVE  Inv'
<1>1. /\ canal \in Seq(Mensajes) /\ canal # << >> /\ canal' = Tail(canal)
      /\ cliente' = cliente /\ oyente' = oyente /\ ping' = ping /\ acepta' = acepta
      /\ entrada' = entrada /\ pongs' = pongs /\ count_connections' = count_connections
  BY DEF Ejecuta, delPing, Inv, Tipado
<1>2. PICK op \in Operaciones, d \in Clientes : Head(canal) = [op |-> op, c |-> d]
  BY <1>1, Sacado DEF Mensajes
<1>3. Head(canal).op = op /\ Head(canal).c = d
  BY <1>2
<1>4. PICK t \in Textos :
        /\ EscribeSiEsta(d, t)
        /\ t = "PING" <=> op = "SEND_PING"
        /\ t = "STALE" <=> op = "STALE"
        /\ t = "SHUTDOWN" <=> op = "SHUTDOWN"
  <2>1. \/ op = "CONNECT" /\ EjConnect(d)
        \/ op = "PUB" /\ EjPub(d)
        \/ op = "SEND_PING" /\ EjPing(d)
        \/ op \in {"-ERR", "STALE"} /\ EjError(d, op)
        \/ op = "SHUTDOWN" /\ EjShutdown(d)
    BY <1>3 DEF Ejecuta
  <2>2. CASE op = "PUB" /\ EjPub(d)
    <3>1. PICK t \in {"+OK", "-ERR"} : t = IF d \in permisos THEN "+OK" ELSE "-ERR"
      OBVIOUS
    <3>2. EscribeSiEsta(d, t)
      BY <2>2, <3>1 DEF EjPub
    <3>3. QED
      BY <2>2, <3>2 DEF Textos
  <2>3. CASE op = "CONNECT" /\ EjConnect(d)
    BY <2>3 DEF EjConnect, Textos
  <2>4. CASE op = "SEND_PING" /\ EjPing(d)
    BY <2>4 DEF EjPing, Textos
  <2>5. CASE op \in {"-ERR", "STALE"} /\ EjError(d, op)
    BY <2>5 DEF EjError, Textos
  <2>6. CASE op = "SHUTDOWN" /\ EjShutdown(d)
    BY <2>6 DEF EjShutdown, Textos
  <2>7. QED
    BY <2>1, <2>2, <2>3, <2>4, <2>5, <2>6
<1>5. /\ clientes_map' \subseteq clientes_map
      /\ op = "SHUTDOWN" => d \notin clientes_map'
      /\ permisos' \subseteq Clientes
      /\ debe' = debe \/ (op = "SEND_PING" /\ debe' = [debe EXCEPT ![d] = @ \/ d \in clientes_map])
  BY <1>3 DEF Ejecuta, EjConnect, EjPub, EjPing, EjError, EjShutdown, Inv, Tipado
<1>6. /\ OrdenDelCorte'
      /\ salida' \in [Clientes -> Seq(Textos)]
      /\ \A c \in Clientes : Escrito(c) \subseteq Escrito(c)'
      /\ \A c \in Clientes : "SHUTDOWN" \in Escrito(c)' =>
           "SHUTDOWN" \in Escrito(c) \/ c \in clientes_map \ clientes_map'
      /\ \A c \in Clientes : c \notin clientes_map => salida'[c] = salida[c]
      /\ \A x, c : c \in Clientes /\ Listo(x, c) => Listo(x, c)'
      /\ Listo(t, d)'
  BY <1>1, <1>2, <1>4, <1>5, Escrituras
<1>7. Tipado'
  <2>1. debe \in [Clientes -> BOOLEAN] /\ debe' \in [Clientes -> BOOLEAN]
    BY <1>5 DEF Inv, Tipado
  <2>2. QED
    BY <1>1, <1>5, <1>6, <2>1, Sacado DEF Inv, Tipado, Ejecuta, delPing
<1>8. UnaVuelta'
  <2>1. \A i \in Nat : \A c : En(i, "SEND_PING", c)' => i >= 1 /\ i + 1 \in Nat /\ En(i + 1, "SEND_PING", c)
    BY <1>1, Sacado
  <2>2. \A c \in Clientes : \A i, j \in Nat :
          En(i, "SEND_PING", c)' /\ En(j, "SEND_PING", c)' => i = j
    <3>1. \A c \in Clientes : \A i, j \in Nat :
            En(i, "SEND_PING", c)' /\ En(j, "SEND_PING", c)' => i + 1 = j + 1
      BY <2>1 DEF Inv, UnaVuelta
    <3>2. QED
      BY <3>1
  <2>3. \A c : Hay("SEND_PING", c)' => Hay("SEND_PING", c)
    BY <1>1, Quedan
  <2>4. /\ \A i, c : Contesta(i, c)' <=> Contesta(i, c)
        /\ \A c : Contestado(c)' <=> Contestado(c)
    BY <1>1 DEF Contesta, Contestado
  <2>5. CASE debe' = debe
    BY <1>1, <2>2, <2>3, <2>4, <2>5 DEF Inv, UnaVuelta
  <2>6. CASE op = "SEND_PING" /\ debe' = [debe EXCEPT ![d] = @ \/ d \in clientes_map]
    <3>1. En(1, "SEND_PING", d) /\ Hay("SEND_PING", d)
      BY <1>1, <1>2, <2>6, Sacado DEF Hay
    <3>2. ~Hay("SEND_PING", d)'
      <4>1. \A i \in Nat : ~En(i, "SEND_PING", d)'
        <5>1. \A i \in Nat : En(i, "SEND_PING", d)' => i >= 1 /\ i + 1 = 1
          BY <2>1, <3>1 DEF Inv, UnaVuelta
        <5>2. QED
          BY <5>1
      <4>2. QED
        BY <4>1 DEF Hay
    <3>3. /\ \A c \in Clientes : c # d => debe'[c] = debe[c]
          /\ ~Contestado(d) /\ pongs[d] = 0 /\ ping[d] \notin {"no", "arranca", "duerme"}
      BY <2>6, <3>1 DEF Inv, Tipado, UnaVuelta
    <3>4. QED
      BY <1>1, <2>2, <2>3, <2>4, <3>2, <3>3 DEF Inv, UnaVuelta
  <2>7. QED
    BY <1>5, <2>5, <2>6
<1>9. Contados'
  BY <1>1, ContadosIgual DEF Inv
<1>10. Comienzo'
  BY <1>1, <1>5, <1>6 DEF Inv, Comienzo, Atendida
<1>11. Cortes'
  <2>1. \A y, c : Head(canal) = [op |-> y, c |-> c] => y = op /\ c = d
    BY <1>3
  <2>2. /\ op = "SEND_PING" => Listo("PING", d)'
        /\ op = "STALE" => Listo("STALE", d)'
    BY <1>4, <1>6
  <2>3. /\ \A c : Head(canal) = [op |-> "SEND_PING", c |-> c] => Listo("PING", c)'
        /\ \A c : Head(canal) = [op |-> "STALE", c |-> c] => Listo("STALE", c)'
    BY <2>1, <2>2
  <2>4. /\ \A y, c : Hay(y, c)' => Hay(y, c)
        /\ \A c : Hay("SEND_PING", c) => Hay("SEND_PING", c)' \/ Listo("PING", c)'
        /\ \A c : Hay("STALE", c) => Hay("STALE", c)' \/ Listo("STALE", c)'
    BY <1>1, <2>3, Quedan
  <2>5. \A c \in Clientes :
          /\ Sigue("STALE", "SEND_PING", "PING", c) => Sigue("STALE", "SEND_PING", "PING", c)'
          /\ Sigue("SHUTDOWN", "STALE", "STALE", c) => Sigue("SHUTDOWN", "STALE", "STALE", c)'
    BY <1>1, <1>6, <2>3, Quedan
  <2>6. QED
    BY <1>1, <1>6, <2>4, <2>5 DEF Inv, Cortes
<1>12. QED
  BY <1>6, <1>7, <1>8, <1>9, <1>10, <1>11 DEF Inv

-----------------------------------------------------------------------------
LEMMA NextInv == Inv /\ [Next]_vars => Inv'
<1>1. SUFFICES ASSUME Inv, [Next]_vars
               PROVE  Inv'
  OBVIOUS
<1>2. CASE Acepta
  BY <1>1, <1>2, SaludaInv, InsertaInv, AceptaFallaInv, RechazaInv, LanzaInv DEF Acepta
<1>3. CASE Ejecuta
  BY <1>1, <1>3, EjecutaInv
<1>4. CASE \E c \in Clientes : Cliente(c)
  BY <1>1, <1>4, ClienteInv
<1>5. CASE \E c \in Clientes : Oyente(c)
  BY <1>1, <1>5, OyenteLeeInv, OyenteVeElFinInv, OyenteCortaInv, OyenteTerminaInv DEF Oyente
<1>6. CASE \E c \in Clientes : Ping(c)
  BY <1>1, <1>6, PingMiraInv, PingRecibeInv, PingSeCansaInv, PingCortaInv DEF Ping
<1>7. CASE UNCHANGED vars
  <2>1. Tipado' /\ Contados'
    BY <1>1, <1>7, ContadosIgual DEF Inv, Tipado, vars, delPing
  <2>2. UnaVuelta'
    BY <1>1, <1>7, VueltaIgual DEF Inv, vars, delPing
  <2>3. Comienzo' /\ OrdenDelCorte'
    BY <1>1, <1>7, SalidaIgual DEF Inv, Comienzo, Atendida, vars, delPing
  <2>4. Cortes'
    BY <1>1, <1>7, SalidaIgual, Quieto DEF Inv, Cortes, vars, delPing
  <2>5. QED
    BY <2>1, <2>2, <2>3, <2>4 DEF Inv
<1>8. QED
  BY <1>1, <1>2, <1>3, <1>4, <1>5, <1>6, <1>7 DEF Next

LEMMA InvSiempre == Spec => []Inv
  BY InitInv, NextInv, PTL DEF Spec

(* The tables of the accept loop and of the three threads are typed; there *)
(* is at most one answer for the ping thread to take, and the counter      *)
(* never passes the limit.                                                 *)
THEOREM TypeOKSiempre == Spec => []TypeOK
<1>1. Inv => TypeOK
  BY DEF Inv, Tipado, TypeOK, Mensajes
<1>2. QED
  BY InvSiempre, <1>1, PTL

(* No more connections than the limit have threads, and the executor can   *)
(* write only to those, though the counter is read before the greeting and *)
(* raised after it.                                                        *)
THEOREM CupoRespetadoSiempre == Spec => []CupoRespetado
<1>1. Inv => CupoRespetado
  BY DEF Inv, Tipado, Contados, Comienzo, Conectados, CupoRespetado
<1>2. QED
  BY InvSiempre, <1>1, PTL

(* A client that is cut was greeted, pinged and told that it is stale, in  *)
(* this order, before the SHUTDOWN, and is written nothing after it.       *)
THEOREM OrdenDelCorteSiempre == Spec => []OrdenDelCorte
<1>1. Inv => OrdenDelCorte
  BY DEF Inv
<1>2. QED
  BY InvSiempre, <1>1, PTL
=============================================================================
