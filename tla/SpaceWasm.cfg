\* Two fields, two derived fields, two invariants.
SPECIFICATION WSpec
CONSTANTS
  Field = {"x", "y"}
  Cred = {"k"}
  Derived <- MCDerived
  Val = {0, 1, 2}
  Nil = 0
  Trap = Trap
  Unset = 2
  Lets <- MCLets
  Reads <- MCReads
  InitialVal = {0, 1}
  Derive <- MCDerive
  NumInvariants = 2
  Holds <- MCHolds
  Traps <- MCTraps
  GasLimit = 3
  MaxLoops = 1
  MaxItems = 2
INVARIANTS
  DispatchSound
  DerivedFresh
  RollbackExact
  SpentNeverDone
