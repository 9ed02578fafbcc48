CONSTANTS
  Patrones <- MCPatrones
  Consumidores <- MCConsumidores
  Temas <- MCTemas
  ConHeaders <- MCConHeaders
  Limites = {0, 2}
  MaxSubs = 2
  MaxOperaciones = 3
  MaxPub = 2
SPECIFICATION Spec
INVARIANTS TypeOK CopiasPropias LimiteLocal NadaTrasDesuscribir
PROPERTY TodoTermina
CHECK_DEADLOCK FALSE
