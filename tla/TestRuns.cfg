SPECIFICATION Spec
CONSTANTS
  Field = "x"
  Local = {"y"}
  Val <- MCVal
  Unbound = Unbound
  Initial = 0
  Holds <- MCHolds
  Action <- MCAction
  WithParam <- MCWithParam
  Asking <- MCAsking
  Effect <- MCEffect
  Fails = Fails
  Unmocked = 2
  Statements <- MCStatements
  Tests <- MCTests
  Responses <- MCResponses
INVARIANTS
  SameOutcome
  PassedClean
CHECK_DEADLOCK FALSE
