------------------------- MODULE MCCommandExecutor -------------------------
(* The users of in_memory_repository.rs: "a" may use time and time.us, "b" *)
(* (as every other user) may use everything.                               *)
EXTENDS CommandExecutor

MCUsuarios == {"a", "b"}
MCPuedeSuscribir ==
  [u \in MCUsuarios |->
     IF u = "a" THEN {<<"time">>, <<"time", "us">>} ELSE {<<">">>}]
MCPuedePublicar ==
  [u \in MCUsuarios |->
     IF u = "a" THEN {<<"time">>, <<"time", "us">>}
                ELSE {<<">">>, <<"time", "us">>}]
MCPatrones == {<<"time">>, <<">">>}
MCAsuntos == {<<"time">>, <<"x">>}
MCFlujos == [f \in {"s"} |-> <<"time">>]
=============================================================================
