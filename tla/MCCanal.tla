------------------------------ MODULE MCCanal ------------------------------
EXTENDS Canal

(* One client tries everything; the other does what has to come out.       *)
MCTipos ==
  [c \in {"c1", "c2"} |->
     IF c = "c1" THEN {"PUB", "pub", "PUBmal", "HPUB", "HPUBmal", "OTRO"}
     ELSE {"PUB", "HPUB", "OTRO"}]

MCMaxMensajes == [c \in {"c1", "c2"} |-> IF c = "c1" THEN 2 ELSE 1]

(* A command may be as long as a header line (OTRO) or longer than it.     *)
MCLargo ==
  [t \in {"PUB", "pub", "PUBmal", "HPUB", "HPUBmal", "OTRO", "cabecera", "vacia",
          "payload"} |->
     CASE t = "vacia" -> 0
       [] t \in {"cabecera", "OTRO"} -> 1
       [] t = "payload" -> 2
       [] OTHER -> 4]
=============================================================================
