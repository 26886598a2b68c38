\* Every source of at most MaxChars characters.
SPECIFICATION FairSpec
CONSTANTS
  Input <- MCInput
  MaxChars = 10
  MaxErrors = 2
INVARIANTS
  TypeOK
  BracketsMatch
  StringsClosed
  EndsWithEof
PROPERTY Ends
CHECK_DEADLOCK FALSE
