\* Two fields, two derived fields, one credential; locals shadow nothing.
SPECIFICATION FairSpec
CONSTANTS
  Field = {"x", "y"}
  Cred = {"k"}
  Local = {"p"}
  Derived <- MCDerived
  Val = {0, 1}
  Unbound = Unbound
  Trap = Trap
  InitialVal = {0}
  LocalVal = {0}
  Nil = 0
  Derive <- MCDerive
  NumInvariants = 1
  Holds <- MCHolds
  GasLimit = 7
  MaxFrames = 2
  MaxItems = 2
INVARIANTS
  TypeOK
  CommitSound
  RollbackRestores
  ScopesBalanced
  ScopesSuffice
  CredentialVisible
  SpentNeverCommits
PROPERTIES
  RenderPure
  Transactional
  CallsReturn
