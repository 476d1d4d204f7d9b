CONSTANTS
  NULL = NULL
  Files <- MCFiles
  Starts <- MCStarts
  MaxLoads = 2
SPECIFICATION Spec
INVARIANTS
  TypeOK
  Held
  Tidy
  LoadsWhatIsThere
  CleanExit
PROPERTIES
  ReleaseOnce
