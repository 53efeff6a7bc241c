SPECIFICATION FairSpec
CONSTANTS
  A = A
  B = B
  W = W
  S = S
  Thread = {t1, t2}
  Class = {A, B}
  NoClass = NoClass
  Route <- MCRoute
  Stranger = {S}
  HasFunc = {A, B}
  Survivor = {A, B}
  MaxDepth = 3
CHECK_DEADLOCK FALSE
INVARIANTS
  TypeOK
  LockIsLive
  OwnData
PROPERTIES
  RegistrationKept
  CreationsEnd
