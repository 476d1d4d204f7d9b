CONSTANTS
  NULL = NULL
  Dico16 <- Rows16
  Dico32 <- Rows32
  Texts <- MCTexts
  Beyond <- MCBeyond
  Base = 4
  TextMax = 16
  Addresses <- MCAddresses
  Turns = 2
  MaxCommands = 3
SPECIFICATION FairSpec
INVARIANTS
  TypeOK
  NamedAsRead
  ArgsAsEncoded
PROPERTIES
  ReleaseOnceInRange
  ShowsRange
  WalkEnds
