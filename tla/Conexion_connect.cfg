CONSTANTS
  c1 = c1
  c2 = c2
  Clientes <- MCUno
  MAX_CONNECTIONS = 1
  MaxPubs = 1
SPECIFICATION Spec
PROPERTY ConnectSeResponde
CHECK_DEADLOCK FALSE
