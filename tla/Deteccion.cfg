CONSTANTS
  Camaras <- MCCamaras
  Imagenes <- MCImagenes
  MaxHilos = 3
  MaxTareas = 2
SPECIFICATION Spec
INVARIANTS SinDobleDeteccion EstadoAnunciado
PROPERTY TodoSigue
CHECK_DEADLOCK FALSE
