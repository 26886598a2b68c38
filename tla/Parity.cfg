\* Calls of every kind, bodies that run to their end or fail.
SPECIFICATION Spec
CONSTANTS
  Field = {"x", "y"}
  Cred = {"k"}
  Local = {"p"}
  Derived <- MCDerived
  Val = {0, 1}
  Unbound = Unbound
  Trap = Trap
  InitialVal = {0}
  LocalVal = {0}
  Nil = 0
  Derive <- MCDerive
  NumInvariants = 1
  Holds <- MCHolds
  Traps <- MCNever
  EvalGas = 7
  WasmGas = 24
  MaxLoops = 2
  MaxFrames = 2
  MaxItems = 2
INVARIANTS
  SameState
