\* Does the parser end on every input?
SPECIFICATION FairSpec
CONSTANTS
  Prefixes <- MCPrefixes
  Input <- MCInput
  MaxTokens = 3
  MaxErrors = 3
  Limit <- MCLimit
  MaxParams = 1
PROPERTY Halts
CHECK_DEADLOCK FALSE
