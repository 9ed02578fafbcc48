CONSTANTS
  Clientes = {"c1", "c2"}
  Tipos <- MCTipos
  MaxMensajes <- MCMaxMensajes
  Cabeceras = 1
  Largo <- MCLargo
SPECIFICATION Spec
INVARIANTS TypeOK PubIntegra
PROPERTY TodoPubLlega ImplementaPublicaciones
CHECK_DEADLOCK FALSE
