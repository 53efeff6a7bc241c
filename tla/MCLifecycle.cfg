SPECIFICATION Spec
CONSTANTS
  P = P
  C = C
  Class = {P, C}
  Parents <- MCParents
  Layout = {{P, C}}
  MaxBirth = 2
  MaxRoots = 1
  NoEntry = NoEntry
  Empty = Empty
  Mortal = {C}
  MaxGeneration = 2
  MaxMade = 3
CHECK_DEADLOCK FALSE
INVARIANTS
  TypeOK
  StaleExplained
  ValuesKept
  Forgotten
  ClassStartsClean
  RegistrationIsOwn
  ClassForgotten
