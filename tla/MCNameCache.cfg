SPECIFICATION FairSpec
CONSTANTS
  o1 = o1
  o2 = o2
  x = x
  y = y
  g = g
  h = h
  Id = {o1, o2}
  Key <- MCKey
  Base = {g, h}
  Thread = {t1, t2}
  DefaultString <- MCDefaultString
  CustomString <- MCCustomString
INVARIANTS
  TypeOK
  NamesDistinct
  NameSetExact
  IndexExact
PROPERTIES
  NameStable
  AllocSpec
  CallsEnd
