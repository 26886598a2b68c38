SPECIFICATION MSpec
CONSTANTS
  ImportCount = 4
  RtFuncCount = 31
  Byte = {0, 1, 2, 3}
  Str <- MCStr
  Text <- MCText
  WellKnown <- MCWellKnown
  MaxStrings = 4
  MaxLambdas = 3
  MaxTests = 2
INVARIANTS IndicesRight ElementsRight StringsRight RejectedOnlyForLate
CHECK_DEADLOCK FALSE
