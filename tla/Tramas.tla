------------------------------- MODULE Tramas -------------------------------
(***************************************************************************)
(* How a text travels: every line is encrypted on its own and ends in CRLF *)
(* (crypto.rs).  The server reads lines (oyente_cliente.rs); the client    *)
(* library reads the line of a message and then as many bytes as it says   *)
(* (client.rs).  That number is what the publisher wrote: the server       *)
(* passes it on without a look.                                            *)
(*                                                                         *)
(* AES with its fixed key is external: some injective function, chosen in  *)
(* Init, from texts to blocks of bytes, all of one length, in which any    *)
(* byte may be a CR or an LF.  The empty text gives no bytes, which is how *)
(* calc_encrypted_len counts it, and any other bytes do not decrypt.       *)
(***************************************************************************)
EXTENDS Naturals, FiniteSets, SequencesExt

CONSTANTS
  CR, LF,      \* two bytes; the others are any other value
  Bloques,     \* what AES may return: byte sequences of one length
  Textos,      \* the texts of payloads and headers
  Vacio,       \* the empty text
  NoDescifra,  \* what does not decrypt
  NoNumero,    \* an announcement that is not a number
  Numeros,     \* what a publisher may announce besides the right number
  MaxLineas,   \* bound of the model: lines in a payload
  MaxTramas    \* bound of the model: messages, one after another

Crlf == <<CR, LF>>
Perdido == <<NoDescifra>>

ASSUME TramasAssumption ==
  /\ CR # LF /\ {Vacio, NoDescifra} \cap Textos = {}
  /\ Numeros \subseteq Nat \cup {NoNumero} /\ Textos \cap (Nat \cup {NoNumero}) = {}
  /\ MaxLineas \in Nat \ {0} /\ MaxTramas \in Nat

VARIABLES
  cifra,       \* [texts -> bytes]
  lector,      \* who reads: "cliente" or "servidor"
  enviado,     \* the messages: the lines of the payload, the bytes announced
  entrada,     \* the bytes not yet read
  fase,        \* "linea", "payload", "fin", "caido"
  leidas,      \* how many lines of messages were read
  bytes,       \* what the last of them announced
  recibido,    \* the payloads as read, Perdido for one that was dropped
  sueltas      \* lines taken as commands that nobody wrote as such

vars == <<cifra, lector, enviado, entrada, fase, leidas, bytes,
          recibido, sueltas>>
fijas == <<cifra, lector, enviado>>

Encrypt(c, texto) == IF texto = Vacio THEN << >> ELSE c[texto]

(* encrypted_with_crlf of a text that is these lines.                      *)
EncryptedWithCrlf(c, lineas) ==
  FlattenSeq([i \in 1..Len(lineas) |->
    Encrypt(c, lineas[i]) \o IF i < Len(lineas) THEN Crlf ELSE << >>])

(* What write_msg sends: the line, the payload and the empty rest.  The    *)
(* lines of two messages differ in the number they announce, which stands  *)
(* for the line.                                                           *)
Trama(c, msg) == EncryptedWithCrlf(c, <<msg.bytes>> \o msg.lineas \o <<Vacio>>)

Bloque == Len(CHOOSE b \in Bloques : TRUE)

Largo(lineas) ==
  2 * (Len(lineas) - 1) + Bloque * Cardinality({i \in 1..Len(lineas) : lineas[i] # Vacio})

Payloads == UNION {[1..n -> Textos \cup {Vacio}] : n \in 1..MaxLineas}

(* The number is right when it is how many bytes the payload takes.        *)
Veraz(msg) == msg.bytes = Largo(msg.lineas)

Mensajes ==
  UNION {[lineas : {p}, bytes : Numeros \cup {Largo(p)}] : p \in Payloads}

Anunciados == {enviado[i].bytes : i \in 1..Len(enviado)}

Usados == Anunciados \cup (UNION {ToSet(enviado[i].lineas) : i \in 1..Len(enviado)} \ {Vacio})

(* The server does not look at the number, so that it gets the right one.  *)
Init ==
  /\ lector \in {"cliente", "servidor"}
  /\ enviado \in UNION {[1..n -> Mensajes] : n \in 0..MaxTramas}
  /\ lector = "servidor" => \A i \in 1..Len(enviado) : Veraz(enviado[i])
  /\ cifra \in {c \in [Usados -> Bloques] : IsInjective(c)}
  /\ entrada = FlattenSeq([i \in 1..Len(enviado) |-> Trama(cifra, enviado[i])])
  /\ fase = "linea" /\ leidas = 0 /\ bytes = 0
  /\ recibido = << >> /\ sueltas = 0

Descifra(b) ==
  IF b = << >> THEN Vacio
  ELSE IF \E t \in DOMAIN cifra : cifra[t] = b
  THEN CHOOSE t \in DOMAIN cifra : cifra[t] = b
  ELSE NoDescifra

SinUltimo(b) == IF b = << >> THEN b ELSE Front(b)

Cierra_SinPop(a) ==
  [a EXCEPT !.lineas = Append(@, Descifra(a.buffer)), !.buffer = << >>]

(* A CRLF was read: the CR goes out of the buffer, which is a line.        *)
Cierra(a) ==
  [a EXCEPT !.lineas = Append(@, Descifra(SinUltimo(a.buffer))), !.buffer = << >>]

(* The loop of decrypt_with_crlf; last_byte stays CR after a CRLF.         *)
DecryptWithCrlf(msg) ==
  LET tras[k \in 0..Len(msg)] ==
        IF k = 0 THEN [lineas |-> << >>, buffer |-> << >>, ultimo |-> "0"]
        ELSE LET a == tras[k - 1]  byte == msg[k] IN
             IF a.ultimo = CR /\ byte = LF THEN Cierra(a)
             ELSE [a EXCEPT !.buffer = Append(@, byte), !.ultimo = byte]
      a == tras[Len(msg)]
  IN Append(a.lineas, Descifra(a.buffer))

(* Where the first CRLF is: what read_until_crlf reads up to.              *)
Cortes(b) == {k \in 1..Len(b) - 1 : b[k] = CR /\ b[k + 1] = LF}

ReadUntilCrlf(b) ==
  LET k == CHOOSE k \in Cortes(b) : \A j \in Cortes(b) : k <= j
  IN [linea |-> SubSeq(b, 1, k - 1), resto |-> SubSeq(b, k + 2, Len(b))]

Leida == Descifra(ReadUntilCrlf(entrada).linea)

(* A whole line is there, and it is taken.                                 *)
Lee(quien, f) ==
  /\ lector = quien /\ fase = f
  /\ Cortes(entrada) # {}
  /\ entrada' = ReadUntilCrlf(entrada).resto

(* The other side is done: what is left is no whole line, or less than     *)
(* what was announced.                                                     *)
FinDeArchivo ==
  /\ \/ Cortes(entrada) = {} /\ (fase = "linea" \/ (lector = "servidor" /\ fase = "payload"))
     \/ lector = "cliente" /\ fase = "payload" /\ bytes > Len(entrada)
  /\ fase' = "fin"
  /\ UNCHANGED <<fijas, entrada, leidas, bytes, recibido, sueltas>>

-----------------------------------------------------------------------------
(* The listening thread of the client library                              *)

(* A line that does not decrypt ends the thread; an empty one is skipped,  *)
(* and the one of a message whose number is none, which leaves its payload *)
(* to be read as a line.                                                   *)
ClienteLee ==
  /\ Lee("cliente", "linea")
  /\ fase' = CASE Leida \in Anunciados \ {NoNumero} -> "payload"
               [] Leida = NoDescifra -> "caido"
               [] OTHER -> "linea"
  /\ leidas' = IF Leida \in Anunciados THEN leidas + 1 ELSE leidas
  /\ bytes' = IF fase' = "payload" THEN Leida ELSE bytes
  /\ sueltas' = IF Leida \in Textos THEN sueltas + 1 ELSE sueltas
  /\ UNCHANGED <<fijas, recibido>>

ClientePayload_PorLinea ==
  /\ Lee("cliente", "payload")
  /\ recibido' = Append(recibido, <<Leida>>)
  /\ fase' = "linea"
  /\ UNCHANGED <<fijas, leidas, bytes, sueltas>>

(* read_exact does not look at what the bytes are.  A payload that does    *)
(* not decrypt is logged and dropped.                                      *)
ClientePayload ==
  LET texto == DecryptWithCrlf(SubSeq(entrada, 1, bytes)) IN
  /\ lector = "cliente" /\ fase = "payload"
  /\ bytes <= Len(entrada)
  /\ entrada' = SubSeq(entrada, bytes + 1, Len(entrada))
  /\ recibido' = Append(recibido, IF NoDescifra \in ToSet(texto) THEN Perdido ELSE texto)
  /\ fase' = "linea"
  /\ UNCHANGED <<fijas, leidas, bytes, sueltas>>

-----------------------------------------------------------------------------
(* The listening thread of the server                                      *)

(* A line that does not decrypt is answered with -ERR; one that is not a   *)
(* PUB is a command.                                                       *)
ServidorLee ==
  /\ Lee("servidor", "linea")
  /\ fase' = IF Leida \in Anunciados THEN "payload" ELSE "linea"
  /\ leidas' = IF Leida \in Anunciados THEN leidas + 1 ELSE leidas
  /\ sueltas' = IF Leida \in Textos THEN sueltas + 1 ELSE sueltas
  /\ UNCHANGED <<fijas, bytes, recibido>>

(* The line after a PUB is its payload, whatever it is; if it does not     *)
(* decrypt the PUB is lost with it.                                        *)
ServidorPayload ==
  /\ Lee("servidor", "payload")
  /\ recibido' = Append(recibido, <<Leida>>)
  /\ fase' = "linea"
  /\ UNCHANGED <<fijas, leidas, bytes, sueltas>>

Next == ClienteLee \/ ClientePayload \/ ServidorLee \/ ServidorPayload \/ FinDeArchivo

Spec == Init /\ [][Next]_vars

-----------------------------------------------------------------------------
(* Properties                                                              *)

Sana(b) == Cortes(b) = {}

(* Every message whose line was read announced the right number.  Nobody   *)
(* checks it: the server passes on any, and for a payload with a CRLF the  *)
(* library gives the length of all of it, of which one line is passed on.  *)
(* After a wrong one the client reads on from anywhere, and nothing is     *)
(* said of it below.                                                       *)
HastaAquiVeraz ==
  leidas <= Len(enviado) /\ \A i \in 1..leidas : Veraz(enviado[i])

(* No ciphertext holds a CRLF, which AES does not promise.  Nothing else   *)
(* about it matters, except that decrypt_with_crlf, used for payloads of   *)
(* several lines, wants no line after the first to begin with an LF; the   *)
(* server takes one line of a payload only.                                *)
CifraSirve ==
  /\ \A t \in DOMAIN cifra : Sana(cifra[t])
  /\ \A i \in 1..Len(enviado) :
       \/ Len(enviado[i].lineas) = 1
       \/ /\ lector = "cliente"
          /\ \A j \in 2..Len(enviado[i].lineas) :
               enviado[i].lineas[j] # Vacio => cifra[enviado[i].lineas[j]][1] # LF

(* Then what is read is what was written, in order and all of it, by both  *)
(* readers, and no piece of it is taken for a command, for as long as the  *)
(* numbers are right.                                                      *)
LlegaIgual ==
  (CifraSirve /\ HastaAquiVeraz) =>
    /\ IsPrefix(recibido, [i \in 1..Len(enviado) |-> enviado[i].lineas])
    /\ sueltas = 0 /\ fase # "caido"
    /\ fase = "fin" => Len(recibido) = Len(enviado)

(* The client needs less to keep in step: right numbers and whole lines of *)
(* messages.  A payload may be dropped, but it is never another one, is    *)
(* never taken for a command, and the messages after it are not lost.      *)
EnFase ==
  (/\ lector = "cliente" /\ HastaAquiVeraz
   /\ \A n \in Anunciados : Sana(cifra[n])) =>
    /\ \A i \in 1..Len(recibido) : recibido[i] \in {enviado[i].lineas, Perdido}
    /\ sueltas = 0 /\ fase # "caido"
    /\ fase = "payload" => bytes <= Len(entrada)
    /\ fase = "fin" => leidas = Len(enviado)
=============================================================================
