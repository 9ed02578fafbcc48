CONSTANTS
  Camaras <- MCCamaras
  Incidentes <- MCIncidentes
  Rangos <- MCRangos
  Lindantes <- MCLindantes
SPECIFICATION Spec
INVARIANTS TypeOK GrabaSuIncidente CuentaExacta GrabaLoJusto
CHECK_DEADLOCK FALSE
