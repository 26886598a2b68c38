SPECIFICATION MSpec
CONSTANTS
  ImportCount = 4
  RtFuncCount = 31
  Byte = {0, 1, 2, 3}
  Str <- MCStr
  Text <- MCText
  WellKnown <- MCWellKnown
  MaxStrings = 1
  MaxLambdas = 1
  MaxTests = 2
INVARIANTS InvokeRight
CHECK_DEADLOCK FALSE
