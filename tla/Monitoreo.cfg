CONSTANTS
  Drones = {"d1", "d2"}
  MaxIncidentes = 2
  MaxMensajes = 4
SPECIFICATION Spec
INVARIANTS TypeOK OrdenPublicado CanceladoEsDePaso
PROPERTIES SoloUnCiclo SalidaSeAvisa
CHECK_DEADLOCK FALSE
