---------------------------- MODULE SubjectMatch ----------------------------
(***************************************************************************)
(* subject_matches_token as the loop it is: two iterators that advance     *)
(* together until one of the returns is reached.  Subjects!Coincide is the *)
(* reference definition the loop is checked and proved against.            *)
(***************************************************************************)
EXTENDS Subjects

CONSTANTS Tokens,    \* the tokens a subject can be made of
          MaxTokens  \* bound of the model: longest pattern or subject

ASSUME MaxTokensNat == MaxTokens \in Nat

VARIABLES token,     \* the pattern
          subject,   \* the subject compared with it
          i,         \* how many tokens both iterators have given out
          pc,        \* "bucle" or "fin"
          res        \* the value returned

varsBucle == <<token, subject, i, pc, res>>

Secuencias == UNION {[1..n -> Tokens] : n \in 0..MaxTokens}

InitBucle ==
  /\ token \in Secuencias
  /\ subject \in Secuencias
  /\ i = 0
  /\ pc = "bucle"
  /\ res = FALSE

Retorna(valor) ==
  /\ pc' = "fin"
  /\ res' = valor
  /\ UNCHANGED <<token, subject, i>>

(* token_iter.next() is ">": return true before looking at the subject.    *)
VeResto ==
  /\ pc = "bucle"
  /\ i < Len(token)
  /\ token[i + 1] = Resto
  /\ Retorna(TRUE)

(* Both iterators give a token and the pattern accepts it: continue.       *)
Avanza ==
  /\ pc = "bucle"
  /\ i < Len(token)
  /\ i < Len(subject)
  /\ Acepta(token[i + 1], subject[i + 1])
  /\ i' = i + 1
  /\ UNCHANGED <<token, subject, pc, res>>

(* The subject ran out, or its token is another one: return false.         *)
Rechaza ==
  /\ pc = "bucle"
  /\ i < Len(token)
  /\ token[i + 1] # Resto
  /\ ~(i < Len(subject) /\ Acepta(token[i + 1], subject[i + 1]))
  /\ Retorna(FALSE)

Agota_SinMirarSubject ==
  /\ pc = "bucle"
  /\ i >= Len(token)
  /\ Retorna(TRUE)

(* The pattern ran out: it matches when the subject ran out with it.       *)
Agota ==
  /\ pc = "bucle"
  /\ i >= Len(token)
  /\ Retorna(i >= Len(subject))

NextBucle == VeResto \/ Avanza \/ Rechaza \/ Agota

SpecBucle == InitBucle /\ [][NextBucle]_varsBucle

-----------------------------------------------------------------------------
TypeBucle ==
  /\ token \in Seq(Tokens)
  /\ subject \in Seq(Tokens)
  /\ i \in Nat
  /\ pc \in {"bucle", "fin"}
  /\ res \in BOOLEAN

(* The loop invariant: what both iterators have given out agrees, and none *)
(* of it was a ">".                                                        *)
Recorrido == CoincidenHasta(token, subject, i)

(* Whatever branch subject_matches_token returns by, it returns what the   *)
(* reference definition says, for every pattern and subject.               *)
ResultadoCorrecto == pc = "fin" => (res <=> Coincide(token, subject))

(* What the permissions of the users rely on: when a pattern without "*"   *)
(* accepts a subscription (commons/subject.rs, used by can_subscribe), it  *)
(* also accepts every subject that the subscription can match.             *)
PermisoCubre ==
  (SinComodin(token) /\ Coincide(token, subject)) =>
    \A s \in Secuencias : Coincide(subject, s) => Coincide(token, s)

InvBucle == TypeBucle /\ (pc = "bucle" => Recorrido) /\ ResultadoCorrecto
=============================================================================
