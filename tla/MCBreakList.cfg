SPECIFICATION FairSpec
CONSTANTS
  Node = {n1, n2, n3}
  NULL = NULL
  Adr = {0, 1, 2}
  MaxArgs = 2
INVARIANTS
  TypeOK
  ListInv
  CursorInv
  NoLeak
PROPERTIES
  ImplementsBreakSet
  CommandsReturn
CHECK_DEADLOCK TRUE
