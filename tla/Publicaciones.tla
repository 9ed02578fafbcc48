---------------------------- MODULE Publicaciones ----------------------------
(***************************************************************************)
(* What the server promises about the messages that its clients publish,   *)
(* without threads, channel or headers: a message is published or lost,    *)
(* and one that is published comes after those that the same client sent   *)
(* before.  Canal implements this.                                         *)
(***************************************************************************)
EXTENDS Naturals, Sequences

CONSTANT Clientes

VARIABLES
  enviados,    \* [Clientes -> messages sent so far]; the next gets its number
  pendientes,  \* [Clientes -> numbers of messages neither published nor lost]
  publicado    \* the messages published, in order: [de, n]

vars == <<enviados, pendientes, publicado>>

Init ==
  /\ enviados = [c \in Clientes |-> 0]
  /\ pendientes = [c \in Clientes |-> {}]
  /\ publicado = << >>

(* What a client sends may not be a publication.                           *)
Envia(c) ==
  /\ enviados' = [enviados EXCEPT ![c] = @ + 1]
  /\ \/ pendientes' = [pendientes EXCEPT ![c] = @ \cup {enviados[c] + 1}]
     \/ UNCHANGED pendientes
  /\ UNCHANGED publicado

(* The client closed, the server did not understand it, or it was taken    *)
(* for a part of another message.                                          *)
PuedePerder ==
  /\ pendientes' \in [Clientes -> SUBSET UNION {pendientes[c] : c \in Clientes}]
  /\ \A c \in Clientes : pendientes'[c] \subseteq pendientes[c]

Pierde ==
  /\ PuedePerder
  /\ UNCHANGED <<enviados, publicado>>

Publica(c, n) ==
  /\ n \in pendientes[c] /\ \A m \in pendientes[c] : n <= m
  /\ publicado' = Append(publicado, [de |-> c, n |-> n])
  /\ PuedePerder /\ n \notin pendientes'[c]
  /\ UNCHANGED enviados

Next ==
  \/ \E c \in Clientes : Envia(c) \/ \E n \in pendientes[c] : Publica(c, n)
  \/ Pierde

Spec == Init /\ [][Next]_vars

-----------------------------------------------------------------------------
(* The publications of one client come out in the order he sent them, none *)
(* twice.                                                                  *)
OrdenPorCliente ==
  \A i, j \in 1..Len(publicado) :
    (i < j /\ publicado[i].de = publicado[j].de)
      => publicado[i].n < publicado[j].n
=============================================================================
