---------------------------- MODULE MCDeteccion ----------------------------
EXTENDS Deteccion

MCCamaras == 1..2
MCImagenes == {1}
=============================================================================
