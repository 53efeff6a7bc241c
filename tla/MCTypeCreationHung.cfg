SPECIFICATION Spec
CONSTANTS
  A = A
  B = B
  W = W
  S = S
  Thread = {t1, t2}
  Class = {A, B, W}
  NoClass = NoClass
  Route <- MCRoute
  Stranger = {}
  HasFunc = {A}
  Survivor = {A, W}
  MaxDepth = 3
CHECK_DEADLOCK FALSE
INVARIANT NeverHung
