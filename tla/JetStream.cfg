CONSTANTS
  Consumidores = {"k1", "k2"}
  Subjects <- MCSubjects
  Limite = 2
  Textos <- MCTextos
  Queda <- MCQueda
  Piezas <- MCPiezas
  MaxMensajes = 2
  Mandan <- MCMandan
  MaxReinicios = 1
SPECIFICATION Spec
INVARIANTS TypeOK NadaSeSaltea 
PROPERTY NadieBloquea
CHECK_DEADLOCK FALSE
