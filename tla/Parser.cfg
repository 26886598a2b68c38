\* Any few tokens after a beginning in the middle of each part of a space.
SPECIFICATION FairSpec
CONSTANTS
  Prefixes <- MCPrefixes
  Input <- MCInput
  MaxTokens = 5
  MaxErrors = 3
  Limit <- MCLimit
  MaxParams = 1
INVARIANTS
  SkipsOnlyAfterError
  DepthsCovered
  AcceptedWellFormed
PROPERTY HaltsIfCapped
CHECK_DEADLOCK FALSE
