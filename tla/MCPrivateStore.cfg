SPECIFICATION MCSpec
CONSTANTS
  P = P
  C = C
  iC = iC
  x = x
  y = y
  codeP = codeP
  codeC = codeC
  codePC = codePC
  codeZ = codeZ
  plain = plain
  prop = prop
  meth = meth
  Class = {P, C}
  Obj = {iC}
  Attr = {x, y}
  Value = {plain, prop, meth}
  InstanceValue = {plain}
  ClassValue = {meth}
  Code = {codeP, codeC, codePC, codeZ}
  NoCode = NoCode
  Absent = Absent
  ClassOf <- MCClassOf
  Chain <- MCChain
  CodeMap <- MCCodeMap
  Kind <- MCKind
  Definition <- MCDefinition
  MaxDecorators = 3
VIEW StateView
CHECK_DEADLOCK FALSE
INVARIANTS
  TypeOK
  NoOrphans
  Confidential
  OwnCodeExact
PROPERTIES
  Isolation
  StableView
  ReadBack
  SpaceSpec
