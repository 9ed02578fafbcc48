CONSTANTS
  c1 = c1
  c2 = c2
  Clientes <- MCDos
  MAX_CONNECTIONS = 1
  MaxPubs = 2
SPECIFICATION Spec
INVARIANTS TypeOK OrdenDelCorte CupoRespetado
PROPERTIES HilosTerminan StreamSeQuita
CHECK_DEADLOCK FALSE
