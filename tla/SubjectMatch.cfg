CONSTANTS
  Tokens <- MCTokens
  MaxTokens = 3
SPECIFICATION SpecBucle
INVARIANTS ResultadoCorrecto PermisoCubre
CHECK_DEADLOCK FALSE
