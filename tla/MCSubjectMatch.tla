--------------------------- MODULE MCSubjectMatch ---------------------------
(* Every pattern and subject of up to three tokens over two literals and   *)
(* the two wildcards.                                                      *)
EXTENDS SubjectMatch

MCTokens == {"a", "b", "*", ">"}
=============================================================================
