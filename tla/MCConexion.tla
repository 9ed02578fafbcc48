----------------------------- MODULE MCConexion -----------------------------
(* One connection for its life cycle, two for what they share.   *)
EXTENDS Conexion

CONSTANTS c1, c2
MCUno == {c1}
MCDos == {c1, c2}
=============================================================================
