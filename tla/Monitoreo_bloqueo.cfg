CONSTANTS
  Drones = {"d1", "d2"}
  MaxIncidentes = 2
  MaxMensajes = 4
SPECIFICATION Spec
PROPERTY DronesSeMonitorean
CHECK_DEADLOCK FALSE
