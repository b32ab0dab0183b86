CONSTANTS
  Lowercase = {1, 2}
  Shift = 10
  Space = 5
  MaxHay = 5
  MaxNeedle = 2
SPECIFICATION Spec
INVARIANTS FirstOccurrence StringOps WordsOfLine SkipsTokens
CHECK_DEADLOCK FALSE
