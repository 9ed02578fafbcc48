---------------------------- MODULE MCJetStream ----------------------------
EXTENDS JetStream

MCSubjects == <<"s1", "s2">>

(* The second text comes back as "a" and, after it, as a message with id 3 *)
(* and text "a".                                                           *)
MCTextos == {"a", "a,3 a"}
MCQueda == [t \in MCTextos |-> "a"]
MCPiezas ==
  [t \in MCTextos |-> IF t = "a" THEN << >> ELSE <<[id |-> 3, texto |-> "a"]>>]

(* The first message may be of either kind; the one after it is what could *)
(* be skipped.                                                             *)
MCMandan == <<MCTextos, {"a"}>>
=============================================================================
