\* A memory of up to 112 words in pages of 16.
SPECIFICATION VSpec
CONSTANTS
  Word = 1024
  Page = 16
  InitialPages = 1
  MaxPages = 7
  HeapStart = 9
  Size <- MCSize
  Keys <- MCKeys
  Fields <- MCFields
  Programs <- MCPrograms
  MaxEntries = 6
INVARIANTS
  BlocksInMemory
  BlocksDisjoint
  SameValues
  EqSound
PROPERTIES
  AllocatorObeyed
  ValuesImmutable
CHECK_DEADLOCK FALSE
