SPECIFICATION Spec
CONSTANTS
  A = A
  B = B
  C = C
  M = M
  List = List
  Class = {A, B, C, M}
  Root = List
  RootSlot <- MCRootSlot
  Bases <- MCBases
  Chain <- MCChain
  Mro <- MCMro
  Private = {A, B, C}
  HasSlots = {A, B, C}
  HasDict = {B, C}
INVARIANT WholeTraversal
