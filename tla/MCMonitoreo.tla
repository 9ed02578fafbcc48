---------------------------- MODULE MCMonitoreo ----------------------------
EXTENDS Monitoreo
=============================================================================
