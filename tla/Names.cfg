SPECIFICATION Spec
CONSTANTS
  x = x
  y = y
  Field <- MCField
  Local <- MCLocal
  NoName = NoName
  Unbound = Unbound
  Repertoires <- MCRepertoires
  MaxStatements = 7
  MaxCalls = 2
  MaxItems = 2
INVARIANTS
  GeneratorAgrees
  EvaluatorAgrees
  NarrowSound
  StateLexical
CHECK_DEADLOCK FALSE
