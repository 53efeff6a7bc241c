SPECIFICATION FairSpec
CONSTANTS
  A = A
  B = B
  X = X
  Thread = {t1, t2}
  Meta = {A, B, X}
  Type = Type
  Bases <- MCBases
  MetaOf <- MCMetaOf
  NoMeta = NoMeta
  Hooks = {A}
  MaxCalls = 2
CHECK_DEADLOCK FALSE
INVARIANTS
  TypeOK
  SavedExact
  SavedReal
  Flat
  Downward
  HangExplained
PROPERTY
  CallsEnd
