CONSTANTS
  Usuarios <- MCUsuarios
  PuedeSuscribir <- MCPuedeSuscribir
  PuedePublicar <- MCPuedePublicar
  Patrones <- MCPatrones
  Asuntos <- MCAsuntos
  Flujos <- MCFlujos
  Sids = {"1"}
  Topes = {2}
  MaxId = 3
  MaxOrden = 2
  MaxGuardados = 1
SPECIFICATION Spec
INVARIANTS TypeOK IdsYaUsados EntregaPermitida LimiteRespetado
PROPERTIES ConexionNuevaLimpia SoloElDuenoToca
CHECK_DEADLOCK FALSE
