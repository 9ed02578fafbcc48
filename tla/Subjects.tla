------------------------------ MODULE Subjects ------------------------------
(***************************************************************************)
(* Subjects of the broker: dot separated tokens, here a sequence of        *)
(* tokens.  A pattern may use the wildcards "*" (one token) and ">" (the   *)
(* rest).  The same matching function decides which subscriptions get a    *)
(* publication, which streams store it, and what a user may do.            *)
(***************************************************************************)
EXTENDS Naturals, Sequences

Comodin == "*"
Resto == ">"

Acepta_DeAmbosLados(token, recibido) ==
  token # Resto /\ (token = recibido \/ Comodin \in {token, recibido})

(* One token of a pattern, ">" aside, accepts the token at its place.      *)
Acepta(token, recibido) ==
  token # Resto /\ (token = Comodin \/ token = recibido)

(* The first n tokens of both sides agree, and none of them is a ">".      *)
CoincidenHasta(token, subject, n) ==
  /\ n <= Len(token)
  /\ n <= Len(subject)
  /\ \A j \in 1..n : Acepta(token[j], subject[j])

(* What subject_matches_token returns.  A ">" also accepts an empty rest.  *)
Coincide(token, subject) ==
  \/ \E k \in 1..Len(token) :
       token[k] = Resto /\ CoincidenHasta(token, subject, k - 1)
  \/ Len(token) = Len(subject) /\ CoincidenHasta(token, subject, Len(token))

(* validate_subject, over the kinds of token it tells apart: "" is empty,  *)
(* "-" stands for a token of punctuation only, "x*" for a token that has   *)
(* an asterisk beside other characters.                                    *)
SubjectValido(subject) ==
  \A i \in 1..Len(subject) :
    /\ subject[i] \notin {"", "-", "x*"}
    /\ subject[i] = Resto => i = Len(subject)

(* Patterns that never use the one-token wildcard.                         *)
SinComodin(token) == \A j \in 1..Len(token) : token[j] # Comodin
=============================================================================
