SPECIFICATION Spec
CONSTANTS
  Name = {"r1", "pc"}
  Flag = {"N", "Z"}
  Typed = {"N", "Z", "Q"}
  ByteMax = 3
  WordMax = 7
  MaxLines = 2
  Lines <- MCLines
INVARIANT
  ExpectedToFail
