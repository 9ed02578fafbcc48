---------------------------- MODULE MCNatsClient ----------------------------
EXTENDS NatsClient

(* Two patterns: a publication on "a" reaches both, one on "b" one.        *)
MCPatrones == {<<"a">>, <<">">>}
MCConsumidores == {<<"a">>}
MCTemas == {<<"a">>, <<"b">>}
MCConHeaders == {<<"b">>}
=============================================================================
