SPECIFICATION FairSpec
CONSTANTS
  Name = {"r1", "pc"}
  Flag = {"N", "Z"}
  Typed = {"N", "Z", "Q"}
  ByteMax = 3
  WordMax = 7
  MaxLines = 3
  Lines <- MCLines
INVARIANTS
  TypeOK
  VerdictHonest
  SetMeaning
  AssertMeaning
PROPERTY
  ScriptsEnd
