----------------------------- MODULE MCCamaras -----------------------------
(* Cameras in a row: each neighbours the next; a position reaches one of    *)
(* them or two, and every message may come from any.                       *)
EXTENDS Camaras

MCCamaras == 1..4
MCIncidentes == {"i1", "i2", "i3"}
MCRangos == {{1}, {2, 3}, {3}}
MCLindantes == [c \in MCCamaras |-> {d \in MCCamaras : d - c \in -1..1}]
=============================================================================
