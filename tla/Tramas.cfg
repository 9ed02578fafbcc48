CONSTANTS
  CR = "CR"
  LF = "LF"
  Bloques <- MCBloques
  Textos = {p, q}
  Vacio = Vacio
  NoDescifra = NoDescifra
  NoNumero = NoNumero
  Numeros = {3, 6, NoNumero}
  MaxLineas = 2
  MaxTramas = 2
SPECIFICATION Spec
INVARIANTS LlegaIgual EnFase
CHECK_DEADLOCK FALSE
