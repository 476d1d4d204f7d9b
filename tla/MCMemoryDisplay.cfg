SPECIFICATION Spec
CONSTANTS
  NULL = NULL
  W = 34
  B = 2
  Page = 2
  START_MEM = 6
  LastMax = 7
  StackBase = 33
  StackMax = 4
  MaxSize = 3
  MaxCmds = 3
  Contents <- MCContents
  Garbage <- MCGarbage
  Targets <- MCTargets
  Words <- MCWords
INVARIANT
  DisplayRange
