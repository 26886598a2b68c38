---------------------------- MODULE RuntimeProofs ----------------------------
(***************************************************************************)
(* What the host may count on in a compiled module.  The exports, for      *)
(* every space and every program: dispatch_action checks what it commits   *)
(* and restores what it refuses, every export that runs to its end         *)
(* recomputes the derived fields, each as far as no local hides the names  *)
(* it reads, and a spent budget stops the game loop.                       *)
(* The allocator, for any page size, heap start and sizes: a block whose   *)
(* request does not wrap around lies in memory, and until one does no two  *)
(* overlap.                                                                *)
(***************************************************************************)
EXTENDS SpaceWasm, BumpAlloc, SequenceTheorems, TLAPS

-----------------------------------------------------------------------------
(* The exports                                                              *)

InCall == {"body", "derive", "check"}

\* The derived fields before the next one belong to the record, those that
\* no local misleads.
FreshBelow(n) ==
  \A i \in DOMAIN Derived : i < n /\ Clear(entry, i) => Fresh(i)

GoodBelow(n) ==
  \A i \in 1..NumInvariants : i < n /\ Clear("dispatch", Invariant(i)) => Good(i)

AllFresh == \A i \in DOMAIN Derived : Clear(entry, i) => Fresh(i)

AllGood == \A i \in 1..NumInvariants : Clear("dispatch", Invariant(i)) => Good(i)

\* How far a running call has got, and what the last one left.
CallInv ==
  /\ phase \in InCall => outcome = "running" /\ ~returned /\ gas <= GasLimit
  /\ phase \in InCall /\ entry = "dispatch" => snapshot = before
  /\ phase = "check" => entry = "dispatch"
  /\ phase = "derive" => FreshBelow(idx)
  /\ phase = "check" => AllFresh /\ GoodBelow(idx)
  /\ DispatchSound /\ DerivedFresh /\ RollbackExact /\ SpentNeverDone

WInv == WTypeOK /\ CallInv

-----------------------------------------------------------------------------
\* Data

LEMMA DerivedFacts ==
  /\ DOMAIN Derived = 1..Len(Derived) /\ Len(Derived) \in Nat
  /\ \A i \in DOMAIN Derived : Derived[i] \in Key
  /\ NumInvariants \in Nat /\ GasLimit \in Nat
  /\ MaxLoops \in Nat /\ MaxItems \in Nat
BY WasmDerived, WasmValues DEF Key, DerivedName

\* Nothing precedes the first derived field or the first invariant.
LEMMA NothingBelowOne ==
  /\ \A i \in DOMAIN Derived : ~(i < 1)
  /\ \A i \in 1..NumInvariants : ~(i < 1)
BY DerivedFacts

\* What a finished loop over the derived fields, or the invariants, has seen.
LEMMA AllBelow ==
  ASSUME NEW n \in Nat
  PROVE  /\ n > Len(Derived) /\ FreshBelow(n) => AllFresh
         /\ n > NumInvariants /\ GoodBelow(n) => AllGood
<1>1. /\ n > Len(Derived) => \A i \in DOMAIN Derived : i < n
      /\ n > NumInvariants => \A i \in 1..NumInvariants : i < n
  BY DerivedFacts
<1> QED
  BY <1>1 DEF FreshBelow, GoodBelow, AllFresh, AllGood

LEMMA InitialIsRecord ==
  ASSUME NEW defaults \in [Field -> Val] PROVE Initial(defaults) \in Record
BY WasmValues DEF Initial, Record

LEMMA TickTyped ==
  ASSUME gas \in 0..(GasLimit + 1), UNCHANGED gas \/ Tick
  PROVE  gas' \in 0..(GasLimit + 1)
BY DerivedFacts DEF Tick, Affordable

\* A tick that is afforded stays within the budget.
LEMMA TickAfforded ==
  ASSUME gas \in 0..(GasLimit + 1),
         (MayTick /\ gas <= GasLimit) \/ (Affordable /\ Tick)
  PROVE  gas' \in 0..(GasLimit + 1) /\ gas' <= GasLimit
BY DerivedFacts DEF MayTick, Tick, Affordable

\* Both what an expression sees and what it is meant to see are values.
LEMMA Views ==
  ASSUME WTypeOK
  PROVE  /\ \A rec \in Record : WasmView(rec) \in [Name -> Val]
         /\ Seen \in [Name -> Val]
         /\ \A n \in Name : n \notin Leaked(entry, Part) => Seen[n] = WasmView(state)[n]
<1>1. ASSUME NEW rec \in Record PROVE WasmView(rec) \in [Name -> Val]
  BY WasmValues DEF WasmView, Record
<1>2. state \in Record /\ locals \in [Name -> Val]
  BY DEF WTypeOK
<1> QED
  BY <1>1, <1>2 DEF Seen

\* An expression that reads no leaked name has the value it is meant to have.
LEMMA SeenRight ==
  ASSUME WTypeOK
  PROVE  /\ phase = "derive" /\ idx \in DOMAIN Derived /\ Clear(entry, idx)
              => Value = Derive(idx, WasmView(state))
         /\ phase = "check" /\ idx \in 1..NumInvariants /\ Clear(entry, Invariant(idx))
              => Holds(idx, Seen) = Holds(idx, WasmView(state))
<1>1. /\ Seen \in [Name -> Val] /\ WasmView(state) \in [Name -> Val]
      /\ \A n \in Name : n \notin Leaked(entry, Part) => Seen[n] = WasmView(state)[n]
  BY Views DEF WTypeOK
<1>2. /\ \A i \in DOMAIN Derived : Reads(i) \subseteq Name
      /\ \A i \in 1..NumInvariants : Reads(Invariant(i)) \subseteq Name
  <2>1. /\ \A i \in DOMAIN Derived : i \in 1..(Len(Derived) + NumInvariants)
        /\ \A i \in 1..NumInvariants : Invariant(i) \in 1..(Len(Derived) + NumInvariants)
    BY DerivedFacts DEF Invariant
  <2> QED
    BY <2>1, WasmReads
<1>3. ASSUME phase = "derive", idx \in DOMAIN Derived, Clear(entry, idx)
      PROVE  Value = Derive(idx, WasmView(state))
  <2>1. \A n \in Reads(idx) : Seen[n] = WasmView(state)[n]
    BY <1>1, <1>2, <1>3 DEF Clear, Part
  <2> QED
    BY <1>1, <1>3, <2>1, WasmReads DEF Value
<1>4. ASSUME phase = "check", idx \in 1..NumInvariants, Clear(entry, Invariant(idx))
      PROVE  Holds(idx, Seen) = Holds(idx, WasmView(state))
  <2>1. \A n \in Reads(Invariant(idx)) : Seen[n] = WasmView(state)[n]
    BY <1>1, <1>2, <1>4 DEF Clear, Part
  <2> QED
    BY <1>1, <1>4, <2>1, WasmReads
<1> QED
  BY <1>3, <1>4

\* Storing a derived field leaves the earlier ones fresh, since none of their
\* expressions reads it.
LEMMA StoreKeepsFresh ==
  ASSUME WTypeOK, DeriveStep, FreshBelow(idx)
  PROVE  state' \in Record /\ FreshBelow(idx)'
<1>1. idx \in DOMAIN Derived /\ idx \in Nat /\ state \in Record
  BY DerivedFacts DEF WTypeOK, DeriveStep
<1>2. Value \in Val
  BY <1>1, Views, WasmExpressions DEF DeriveStep, Value
<1>3. /\ state' = [state EXCEPT ![Derived[idx]] = Value] /\ idx' = idx + 1
      /\ entry' = entry /\ phase = "derive"
  BY DEF DeriveStep, SetField
<1>4. state' \in Record
  BY <1>1, <1>2, <1>3 DEF Record
<1>5. ASSUME NEW i \in DOMAIN Derived, i <= idx, Clear(entry, i)
      PROVE  state'[Derived[i]] = Derive(i, WasmView(state'))
  <2>1. Derive(i, WasmView(state')) = Derive(i, WasmView(state))
    BY <1>1, <1>2, <1>3, <1>5, WasmOrder
  <2>2. CASE i = idx
    <3>1. Value = Derive(i, WasmView(state))
      BY <1>1, <1>3, <1>5, <2>2, SeenRight
    <3> QED
      BY <1>1, <1>3, <2>1, <2>2, <3>1, DerivedFacts DEF Record
  <2>3. CASE i < idx
    <3>1. Derived[i] # Derived[idx] /\ Derived[i] \in Key
      BY <1>1, <2>3, WasmDerived, DerivedFacts
    <3>2. state[Derived[i]] = Derive(i, WasmView(state))
      BY <1>5, <2>3 DEF FreshBelow, Fresh
    <3> QED
      BY <1>1, <1>3, <2>1, <3>1, <3>2 DEF Record
  <2> QED
    BY <1>1, <1>5, <2>2, <2>3, DerivedFacts
<1>6. \A i \in DOMAIN Derived : i < idx' => i <= idx
  BY <1>1, <1>3, DerivedFacts
<1> QED
  BY <1>3, <1>4, <1>5, <1>6 DEF FreshBelow, Fresh, Clear

-----------------------------------------------------------------------------
\* Types

LEMMA LocalsTyped ==
  ASSUME locals \in [Name -> Val]
  PROVE  /\ NoLocals \in [Name -> Val]
         /\ \A e, p : Bind(NoLocals, e, p) \/ Bind(locals, e, p) => locals' \in [Name -> Val]
         /\ \A n \in Name, v \in Val : [locals EXCEPT ![n] = v] \in [Name -> Val]
<1>1. NoLocals \in [Name -> Val]
  BY WasmValues DEF NoLocals
<1>2. ASSUME NEW base \in [Name -> Val], NEW e, NEW p, Bind(base, e, p)
      PROVE  locals' \in [Name -> Val]
  BY <1>2 DEF Bind
<1> QED
  BY <1>1, <1>2

LEMMA ExportsTyped == ASSUME WTypeOK, Exports PROVE WTypeOK'
<1>1. ASSUME NEW defaults \in [Field -> InitialVal], InitExport(defaults)
      PROVE  WTypeOK'
  <2>1. defaults \in [Field -> Val]
    BY WasmValues
  <2>2. state' \in Record
    BY <1>1, <2>1, InitialIsRecord DEF InitExport
  <2>3. gas' \in 0..(GasLimit + 1) /\ idx' \in Nat \ {0}
    BY <1>1, DerivedFacts DEF InitExport
  <2>4. phase' \in WPhase /\ entry' \in WEntry /\ outcome' \in WOutcome
        /\ returned' \in BOOLEAN /\ locals' \in [Name -> Val]
    BY <1>1, LocalsTyped DEF InitExport, WPhase, WEntry, WOutcome, WTypeOK
  <2> QED
    BY <1>1, <2>2, <2>3, <2>4 DEF InitExport, WTypeOK
<1>2. CASE InitExportTraps
  BY <1>2 DEF InitExportTraps, WTypeOK, WEntry, WOutcome
<1>3. CASE DispatchAction \/ DispatchUnknown
  <2>1. gas' \in 0..(GasLimit + 1) /\ idx' \in Nat \ {0}
    BY <1>3, DerivedFacts DEF DispatchAction, DispatchUnknown, WTypeOK
  <2>2. phase' \in WPhase /\ entry' \in WEntry /\ outcome' \in WOutcome
        /\ returned' \in BOOLEAN /\ locals' \in [Name -> Val]
    BY <1>3, LocalsTyped
    DEF DispatchAction, DispatchUnknown, WPhase, WEntry, WOutcome, WTypeOK
  <2> QED
    BY <1>3, <2>1, <2>2 DEF DispatchAction, DispatchUnknown, WTypeOK
<1>4. ASSUME NEW export \in {"update", "event"},
             GameLoop(export) \/ GameLoopTraps(export)
      PROVE  WTypeOK'
  BY <1>4, TickTyped, LocalsTyped
  DEF GameLoop, GameLoopTraps, WTypeOK, WPhase, WEntry, WOutcome
<1> QED
  BY <1>1, <1>2, <1>3, <1>4 DEF Exports, Update, HandleEvent

\* A loop that is entered has an item more to go than its length says.
LEMMA LoopsTyped ==
  ASSUME WTypeOK
  PROVE  /\ \A len \in 1..MaxItems :
              EnterFor(len) => loops' \in Seq(0..MaxItems) /\ Len(loops') <= MaxLoops
         /\ NextItem \/ ExitFor =>
              loops' \in Seq(0..MaxItems) /\ Len(loops') <= MaxLoops
<1>0. loops \in Seq(0..MaxItems) /\ Len(loops) \in Nat /\ Len(loops) <= MaxLoops
  BY DEF WTypeOK
<1>1. ASSUME NEW len \in 1..MaxItems, EnterFor(len)
      PROVE  loops' \in Seq(0..MaxItems) /\ Len(loops') <= MaxLoops
  <2>1. len - 1 \in 0..MaxItems
    BY DerivedFacts
  <2>2. loops' = Append(loops, len - 1) /\ Len(loops) < MaxLoops
    BY <1>1 DEF EnterFor
  <2> QED
    BY <1>0, <2>1, <2>2, AppendProperties, DerivedFacts
<1>2. ASSUME NextItem PROVE loops' \in Seq(0..MaxItems) /\ Len(loops') <= MaxLoops
  <2>0. Len(loops) \in 1..Len(loops)
    BY <1>0, <1>2 DEF NextItem
  <2>1. loops[Len(loops)] \in 0..MaxItems
    BY <1>0, <2>0, ElementOfSeq
  <2>2. loops[Len(loops)] - 1 \in 0..MaxItems
    BY <1>2, <2>1, DerivedFacts DEF NextItem
  <2>3. loops' = [loops EXCEPT ![Len(loops)] = loops[Len(loops)] - 1]
    BY <1>2 DEF NextItem
  <2> QED
    BY <1>0, <2>0, <2>2, <2>3, ExceptSeq
<1>3. ASSUME ExitFor PROVE loops' \in Seq(0..MaxItems) /\ Len(loops') <= MaxLoops
  <2>1. loops' = SubSeq(loops, 1, Len(loops) - 1) /\ loops # <<>>
    BY <1>3 DEF ExitFor
  <2>2. Len(loops) \in Nat \ {0}
    BY <1>0, <2>1
  <2>3. \A i \in 1..(Len(loops) - 1) : loops[i] \in 0..MaxItems
    <3>1. \A i \in 1..(Len(loops) - 1) : i \in 1..Len(loops)
      BY <2>2
    <3> QED
      BY <1>0, <3>1, ElementOfSeq
  <2>4. loops' \in Seq(0..MaxItems) /\ Len(loops') = Len(loops) - 1
    <3>1. 1 \in Int /\ Len(loops) - 1 \in Int
      BY <2>2
    <3>2. /\ SubSeq(loops, 1, Len(loops) - 1) \in Seq(0..MaxItems)
          /\ Len(SubSeq(loops, 1, Len(loops) - 1)) =
               IF 1 <= Len(loops) - 1 THEN (Len(loops) - 1) - 1 + 1 ELSE 0
      BY <2>3, <3>1, SubSeqProperties
    <3>3. (IF 1 <= Len(loops) - 1 THEN (Len(loops) - 1) - 1 + 1 ELSE 0)
            = Len(loops) - 1
      BY <2>2
    <3> QED
      BY <2>1, <3>2, <3>3, Zenon
  <2> QED
    BY <1>0, <2>2, <2>4, DerivedFacts
<1> QED
  BY <1>1, <1>2, <1>3

LEMMA BodyTyped == ASSUME WTypeOK, Body PROVE WTypeOK'
<1>0. gas \in 0..(GasLimit + 1) /\ (UNCHANGED gas \/ Tick => gas' \in 0..(GasLimit + 1))
  BY TickTyped DEF WTypeOK
<1>1. ASSUME NEW f \in Field, NEW v \in Val, SetStmt(f, v) PROVE WTypeOK'
  <2>1. state' \in Record
    BY <1>1 DEF SetStmt, SetField, WTypeOK, Record, Key
  <2> QED
    BY <1>0, <1>1, <2>1 DEF SetStmt, MayTick, Continue, WTypeOK
<1>2. CASE PlainStmt
  BY <1>0, <1>2 DEF PlainStmt, MayTick, Continue, WTypeOK
<1>3. ASSUME NEW len \in 1..MaxItems, EnterFor(len) PROVE WTypeOK'
  BY <1>0, <1>3, LoopsTyped DEF EnterFor, Continue, WTypeOK
<1>4. CASE NextItem \/ ExitFor
  BY <1>0, <1>4, LoopsTyped DEF NextItem, ExitFor, Continue, WTypeOK
<1>5. CASE EndBody
  BY <1>5 DEF EndBody, WTypeOK, WPhase
<1>6. CASE ReturnStmt \/ TrapStmt
  <2>1. loops' = <<>>
    BY <1>6 DEF ReturnStmt, TrapStmt
  <2>2. loops' \in Seq(0..MaxItems) /\ Len(loops') <= MaxLoops
    BY <2>1, EmptySeq, DerivedFacts
  <2>3. locals' \in [Name -> Val]
    BY <1>6, LocalsTyped DEF ReturnStmt, TrapStmt, WTypeOK
  <2> QED
    BY <1>0, <1>6, <2>2, <2>3 DEF ReturnStmt, TrapStmt, WTypeOK, WPhase, WOutcome
<1>7. ASSUME NEW n \in Name, NEW v \in Val, LetStmt(n, v) PROVE WTypeOK'
  <2>1. locals' \in [Name -> Val]
    BY <1>7, LocalsTyped DEF LetStmt, WTypeOK
  <2> QED
    BY <1>0, <1>7, <2>1 DEF LetStmt, MayTick, Continue, WTypeOK
<1> QED
  BY <1>1, <1>2, <1>3, <1>4, <1>5, <1>6, <1>7 DEF Body

LEMMA EpilogueTyped == ASSUME WTypeOK, Epilogue, phase = "derive" => FreshBelow(idx)
                       PROVE  WTypeOK'
<1>0. gas \in 0..(GasLimit + 1) /\ (UNCHANGED gas \/ Tick => gas' \in 0..(GasLimit + 1))
  BY TickTyped DEF WTypeOK
<1>1. CASE DeriveStep
  <2>1. state' \in Record
    BY <1>1, StoreKeepsFresh DEF DeriveStep
  <2>2. idx' \in Nat \ {0} /\ locals' \in [Name -> Val]
    BY <1>1, LocalsTyped DEF DeriveStep, WTypeOK
  <2> QED
    BY <1>0, <1>1, <2>1, <2>2 DEF DeriveStep, MayTick, WTypeOK
<1>2. CASE EpilogueTrap
  BY <1>0, <1>2, LocalsTyped DEF EpilogueTrap, WTypeOK, WPhase, WOutcome
<1>3. CASE EndDerive
  BY <1>3, LocalsTyped DEF EndDerive, WTypeOK, WPhase, WOutcome
<1>4. CASE CheckPass
  <2>1. idx' \in Nat \ {0} /\ locals' \in [Name -> Val]
    BY <1>4, LocalsTyped DEF CheckPass, WTypeOK
  <2> QED
    BY <1>0, <1>4, <2>1 DEF CheckPass, MayTick, WTypeOK
<1>5. CASE CheckFail
  BY <1>0, <1>5, LocalsTyped DEF CheckFail, MayTick, WTypeOK, WPhase, WOutcome
<1>6. CASE EndDispatch
  BY <1>6, LocalsTyped DEF EndDispatch, WTypeOK, WPhase, WOutcome
<1> QED
  BY <1>1, <1>2, <1>3, <1>4, <1>5, <1>6 DEF Epilogue

-----------------------------------------------------------------------------
\* How far a call has got

\* In a body only the record, the budget and the loops change.
LEMMA BodyContinues ==
  ASSUME WInv, phase = "body", Continue, gas' <= GasLimit PROVE CallInv'
<1>1. outcome' = "running" /\ phase' = "body" /\ ~returned'
  BY DEF WInv, CallInv, Continue, InCall
<1>2. phase' \in InCall /\ entry' = "dispatch" => snapshot' = before'
  BY DEF WInv, CallInv, Continue, InCall
<1> QED
  BY <1>1, <1>2 DEF CallInv, DispatchSound, DerivedFresh, RollbackExact,
                    SpentNeverDone

LEMMA ExportsKeep == ASSUME WInv, Exports PROVE CallInv'
<1>0. 0 <= GasLimit /\ (Affordable /\ Tick => gas' <= GasLimit)
  BY DerivedFacts, TickAfforded DEF WInv, WTypeOK
<1>1. ASSUME NEW defaults \in [Field -> InitialVal], InitExport(defaults)
      PROVE  CallInv'
  <2>1. FreshBelow(idx)'
    BY <1>1, NothingBelowOne DEF InitExport, FreshBelow
  <2> QED
    BY <1>0, <1>1, <2>1 DEF InitExport, CallInv, InCall, DispatchSound,
       DerivedFresh, RollbackExact, SpentNeverDone
<1>2. CASE InitExportTraps
  BY <1>2 DEF InitExportTraps, CallInv, InCall, DispatchSound,
     DerivedFresh, RollbackExact, SpentNeverDone
<1>3. CASE DispatchAction
  BY <1>0, <1>3 DEF DispatchAction, CallInv, InCall, DispatchSound,
     DerivedFresh, RollbackExact, SpentNeverDone
<1>4. CASE DispatchUnknown
  <2>1. FreshBelow(idx)'
    BY <1>4, NothingBelowOne DEF DispatchUnknown, FreshBelow
  <2> QED
    BY <1>0, <1>4, <2>1 DEF DispatchUnknown, CallInv, InCall, DispatchSound,
       DerivedFresh, RollbackExact, SpentNeverDone
<1>5. ASSUME NEW export \in {"update", "event"},
             GameLoop(export) \/ GameLoopTraps(export)
      PROVE  CallInv'
  BY <1>0, <1>5 DEF GameLoop, GameLoopTraps, CallInv, InCall, DispatchSound,
     DerivedFresh, RollbackExact, SpentNeverDone
<1> QED
  BY <1>1, <1>2, <1>3, <1>4, <1>5 DEF Exports, Update, HandleEvent

LEMMA BodyKeeps == ASSUME WInv, Body PROVE CallInv'
<1>0. phase = "body" => gas <= GasLimit
  BY DEF WInv, CallInv, InCall
<1>1. /\ phase = "body" /\ MayTick => gas' <= GasLimit
      /\ Affordable /\ Tick => gas' <= GasLimit
  BY <1>0, DerivedFacts DEF WInv, WTypeOK, MayTick, Tick, Affordable
<1>2. CASE \/ \E f \in Field, v \in Val : SetStmt(f, v)
           \/ PlainStmt \/ NextItem \/ ExitFor
           \/ \E n \in Name, v \in Val : LetStmt(n, v)
           \/ \E len \in 1..MaxItems : EnterFor(len)
  BY <1>1, <1>2, BodyContinues
  DEF SetStmt, PlainStmt, LetStmt, NextItem, ExitFor, EnterFor
<1>3. CASE EndBody
  <2>1. FreshBelow(idx)'
    BY <1>3, NothingBelowOne DEF EndBody, FreshBelow
  <2> QED
    BY <1>3, <2>1 DEF WInv, EndBody, CallInv, InCall, DispatchSound,
       DerivedFresh, RollbackExact, SpentNeverDone
<1>4. CASE ReturnStmt
  BY <1>0, <1>4 DEF ReturnStmt, CallInv, InCall, DispatchSound, DerivedFresh,
     RollbackExact, SpentNeverDone
<1>5. CASE TrapStmt
  BY <1>5 DEF TrapStmt, CallInv, InCall, DispatchSound, DerivedFresh,
     RollbackExact, SpentNeverDone
<1> QED
  BY <1>2, <1>3, <1>4, <1>5 DEF Body

LEMMA EpilogueKeeps == ASSUME WInv, Epilogue PROVE CallInv'
<1>0. /\ idx \in Nat \ {0}
      /\ phase \in InCall => gas <= GasLimit /\ outcome = "running" /\ ~returned
  BY DEF WInv, WTypeOK, CallInv
<1>1. phase \in InCall /\ MayTick => gas' <= GasLimit
  BY <1>0, DerivedFacts DEF WInv, WTypeOK, MayTick, Tick, Affordable
<1>2. CASE DeriveStep
  <2>1. FreshBelow(idx)'
    BY <1>2, StoreKeepsFresh DEF WInv, CallInv, DeriveStep
  <2> QED
    BY <1>0, <1>1, <1>2, <2>1 DEF WInv, DeriveStep, CallInv, InCall,
       DispatchSound, DerivedFresh, RollbackExact, SpentNeverDone
<1>3. CASE EpilogueTrap
  BY <1>3 DEF EpilogueTrap, CallInv, InCall, DispatchSound, DerivedFresh,
     RollbackExact, SpentNeverDone
<1>4. CASE EndDerive
  <2>1. AllFresh
    BY <1>0, <1>4, AllBelow DEF WInv, CallInv, EndDerive
  <2>2. AllFresh'
    BY <1>4, <2>1 DEF EndDerive, AllFresh, Fresh, Clear
  <2>3. CASE entry = "dispatch"
    <3>1. phase' = "check" /\ idx' = 1 /\ outcome' = "running" /\ ~returned'
      BY <1>0, <1>4, <2>3 DEF EndDerive, InCall
    <3>2. GoodBelow(idx)'
      BY <3>1, NothingBelowOne DEF GoodBelow
    <3> QED
      BY <1>0, <1>4, <2>2, <2>3, <3>1, <3>2 DEF WInv, EndDerive, CallInv,
         InCall, DispatchSound, DerivedFresh, RollbackExact, SpentNeverDone
  <2>4. CASE entry # "dispatch"
    BY <1>0, <1>4, <2>2, <2>4 DEF EndDerive, CallInv, InCall, DispatchSound,
       DerivedFresh, RollbackExact, SpentNeverDone, AllFresh
  <2> QED
    BY <2>3, <2>4
<1>5. CASE CheckPass
  <2>1. AllFresh' /\ GoodBelow(idx) /\ entry = "dispatch"
    BY <1>5 DEF WInv, CallInv, CheckPass, AllFresh, Fresh, Clear
  <2>4. Clear("dispatch", Invariant(idx)) => Good(idx)
    <3>1. idx \in 1..NumInvariants /\ phase = "check" /\ Holds(idx, Seen)
      BY <1>0, <1>5, DerivedFacts DEF CheckPass
    <3>2. Clear(entry, Invariant(idx)) => Holds(idx, Seen) = Holds(idx, WasmView(state))
      BY <3>1, SeenRight DEF WInv
    <3>3. Clear("dispatch", Invariant(idx)) <=> Clear(entry, Invariant(idx))
      BY <2>1
    <3> QED
      BY <3>1, <3>2, <3>3, Zenon DEF Good
  <2>2. \A i \in 1..NumInvariants : i < idx' => i < idx \/ i = idx
    BY <1>0, <1>5, DerivedFacts DEF CheckPass
  <2>3. GoodBelow(idx)'
    BY <1>5, <2>1, <2>2, <2>4 DEF CheckPass, GoodBelow, Good
  <2> QED
    BY <1>0, <1>1, <1>5, <2>1, <2>3 DEF WInv, CheckPass, CallInv, InCall,
       DispatchSound, DerivedFresh, RollbackExact, SpentNeverDone
<1>6. CASE CheckFail
  <2>1. snapshot = before /\ gas' <= GasLimit
    BY <1>0, <1>1, <1>6 DEF WInv, CallInv, CheckFail, InCall
  <2> QED
    BY <1>6, <2>1 DEF CheckFail, CallInv, InCall, DispatchSound, DerivedFresh,
       RollbackExact, SpentNeverDone
<1>7. CASE EndDispatch
  <2>1. AllFresh /\ AllGood
    BY <1>0, <1>7, AllBelow DEF WInv, CallInv, EndDispatch
  <2>2. AllFresh' /\ AllGood'
    BY <1>7, <2>1 DEF EndDispatch, AllFresh, AllGood, Fresh, Good, Clear
  <2> QED
    BY <1>0, <1>7, <2>2 DEF EndDispatch, CallInv, InCall, DispatchSound,
       DerivedFresh, RollbackExact, SpentNeverDone, AllFresh, AllGood
<1> QED
  BY <1>2, <1>3, <1>4, <1>5, <1>6, <1>7 DEF Epilogue

-----------------------------------------------------------------------------
\* The theorems

LEMMA InitWInv == WInit => WInv
<1> SUFFICES ASSUME WInit PROVE WInv
  OBVIOUS
<1>1. [f \in Field |-> Nil] \in [Field -> Val]
  BY WasmValues
<1>2. state \in Record /\ snapshot \in Record /\ before \in Record
  BY <1>1, InitialIsRecord DEF WInit
<1>3. loops \in Seq(0..MaxItems) /\ Len(loops) <= MaxLoops
  BY EmptySeq, DerivedFacts DEF WInit
<1>4. gas \in 0..(GasLimit + 1) /\ idx \in Nat \ {0}
  BY DerivedFacts DEF WInit
<1>5. phase \in WPhase /\ entry \in WEntry /\ outcome \in WOutcome
      /\ returned \in BOOLEAN
  BY DEF WInit, WPhase, WEntry, WOutcome
<1>6. WTypeOK
  <2>1. locals \in [Name -> Val]
    BY WasmValues DEF WInit, NoLocals
  <2> QED
    BY <1>2, <1>3, <1>4, <1>5, <2>1 DEF WTypeOK
<1> QED
  BY <1>6 DEF WInit, WInv, CallInv, InCall, DispatchSound, DerivedFresh,
     RollbackExact, SpentNeverDone

LEMMA NextWInv == WInv /\ [WNext]_wvars => WInv'
<1> SUFFICES ASSUME WInv, [WNext]_wvars PROVE WInv'
  OBVIOUS
<1>1. CASE UNCHANGED wvars
  BY <1>1 DEF wvars, WInv, WTypeOK, CallInv, FreshBelow, GoodBelow, AllFresh,
     AllGood, Fresh, Good, Clear, DispatchSound, DerivedFresh, RollbackExact, SpentNeverDone
<1>2. CASE Exports
  BY <1>2, ExportsTyped, ExportsKeep DEF WInv
<1>3. CASE Body
  BY <1>3, BodyTyped, BodyKeeps DEF WInv
<1>4. CASE Epilogue
  BY <1>4, EpilogueTyped, EpilogueKeeps DEF WInv, CallInv
<1> QED
  BY <1>1, <1>2, <1>3, <1>4 DEF WNext

LEMMA AlwaysWInv == WSpec => []WInv
BY InitWInv, NextWInv, PTL DEF WSpec

\* Every variable of the compiled instance keeps its type; the budget is never
\* exceeded by more than the tick that trapped.
THEOREM WasmTypes == WSpec => []WTypeOK
<1>1. WInv => WTypeOK
  BY DEF WInv
<1> QED
  BY <1>1, AlwaysWInv, PTL

\* A dispatch_action that runs through its epilogue commits no record that
\* violates an invariant which reads no name a body, or a part before it, has
\* left bound (emit_dispatch_action, emit_identifier).
THEOREM DispatchIsSound == WSpec => []DispatchSound
<1>1. WInv => DispatchSound
  BY DEF WInv, CallInv
<1> QED
  BY <1>1, AlwaysWInv, PTL

\* Every export that runs through its epilogue leaves derived fields of the
\* record they lie in, again those that read no such name
\* (emit_recompute_derived, emit_identifier).
THEOREM DerivedIsFresh == WSpec => []DerivedFresh
<1>1. WInv => DerivedFresh
  BY DEF WInv, CallInv
<1> QED
  BY <1>1, AlwaysWInv, PTL

\* A violated invariant leaves the host the very record from before the call
\* (the snapshot of dispatch_action).
THEOREM WasmRollbackIsExact == WSpec => []RollbackExact
<1>1. WInv => RollbackExact
  BY DEF WInv, CallInv
<1> QED
  BY <1>1, AlwaysWInv, PTL

\* No call that overran the budget ends in any way but a trap, also when the
\* budget was spent by earlier ticks of the game loop (emit_gas_tick).
THEOREM SpentTraps == WSpec => []SpentNeverDone
<1>1. WInv => SpentNeverDone
  BY DEF WInv, CallInv
<1> QED
  BY <1>1, AlwaysWInv, PTL

-----------------------------------------------------------------------------
(* The allocator                                                            *)

\* What the two safety invariants rest on: memory bounds the heap pointer,
\* also after it has fallen back; and up to then the heap pointer bounds every
\* block from above.
AInv ==
  /\ ATypeOK
  /\ heap <= pages * Page
  /\ \A b \in blocks : ~Wraps(b) => End(b) <= pages * Page
  /\ \A b \in blocks : Wraps(b) => b.size >= Word - MaxPages * Page
  /\ ~Wrapped => /\ HeapStart <= heap
                 /\ \A b \in blocks : HeapStart <= b.at /\ End(b) <= heap
  /\ BlocksDisjoint

\* Rounding up to whole pages covers the request, with less than a page over.
LEMMA RoundUp ==
  ASSUME NEW n \in Nat, NEW p \in Nat \ {0}
  PROVE  /\ (n + (p - 1)) \div p \in Nat
         /\ n <= ((n + (p - 1)) \div p) * p
<1>1. (n + (p - 1)) \div p \in Nat
  BY SMT
<1>2. n <= ((n + (p - 1)) \div p) * p
  BY SMT
<1> QED
  BY <1>1, <1>2

LEMMA MoreBytes ==
  ASSUME NEW a \in Nat, NEW b \in Nat, NEW c \in Nat, a <= b
  PROVE  a * c \in Nat /\ b * c \in Nat /\ a * c <= b * c
BY SMT

LEMMA SizeIsNat == Size \subseteq Nat
<1>1. Word \in Nat /\ Size \subseteq 0..(Word - 1)
  BY MemoryAssumption, SizeAssumption
<1> QED
  BY <1>1

\* The new pointer is the sum, or the sum less the address space, and then
\* it is below the old one and the request was huge.
LEMMA Pointer ==
  ASSUME ATypeOK, heap <= pages * Page, NEW size \in Size
  PROVE  /\ Bytes = pages * Page /\ Bytes \in Nat /\ Bytes <= MaxPages * Page
         /\ heap \in Nat /\ size \in Nat /\ NewPtr(size) \in Nat
         /\ heap + size < Word => NewPtr(size) = heap + size
         /\ heap + size >= Word =>
              NewPtr(size) < heap /\ size >= Word - MaxPages * Page
<1> USE MemoryAssumption, SizeAssumption
<1>1. /\ pages \in Nat /\ heap \in Nat /\ size \in Nat /\ size < Word
      /\ Word \in Nat
  BY SizeIsNat DEF ATypeOK
<1>2. /\ pages * Page \in Nat /\ pages * Page <= MaxPages * Page
      /\ MaxPages * Page \in Nat
  BY <1>1, SMT DEF ATypeOK
<1> DEFINE now == pages * Page   most == MaxPages * Page
<1>3. now \in Nat /\ most \in Nat /\ now <= most /\ most < Word /\ heap <= now
  BY <1>2
<1> HIDE DEF now, most
<1>4. now % Word = now
  BY <1>1, <1>3, SMT
<1>5. CASE heap + size < Word
  <2>1. (heap + size) % Word = heap + size
    BY <1>1, <1>5, SMT
  <2> QED
    BY <1>1, <1>3, <1>4, <1>5, <2>1 DEF Bytes, NewPtr, now, most
<1>6. CASE heap + size >= Word
  <2>1. (heap + size) % Word = heap + size - Word
    BY <1>1, <1>3, <1>6, SMT
  <2>2. /\ heap + size - Word \in Nat /\ heap + size - Word < heap
        /\ size >= Word - most
    BY <1>1, <1>3, <1>6, SMT
  <2> QED
    BY <1>1, <1>3, <1>4, <1>6, <2>1, <2>2 DEF Bytes, NewPtr, now, most
<1> QED
  BY <1>1, <1>5, <1>6

\* A block's address, size and end are natural numbers.
LEMMA BlockFacts ==
  ASSUME NEW b \in Block
  PROVE  b.at \in Nat /\ b.size \in Nat /\ End(b) \in Nat
<1>1. b.at \in Nat /\ b.size \in Size
  BY DEF Block
<1>2. b.size \in Nat
  BY <1>1, SizeIsNat
<1> QED
  BY <1>1, <1>2 DEF End

LEMMA InitAInv == AInit => AInv
<1> SUFFICES ASSUME AInit PROVE AInv
  OBVIOUS
<1>1. ATypeOK
  BY MemoryAssumption DEF AInit, ATypeOK
<1>2. HeapStart <= heap /\ heap <= pages * Page
  BY MemoryAssumption, SMT DEF AInit
<1> QED
  BY <1>1, <1>2 DEF AInit, AInv, BlocksDisjoint

\* A pointer returned in memory, to a block whose end is in memory unless it
\* wrapped: the new block starts at the old heap pointer, so it lies above
\* every block returned before, and it ends at the new one.
LEMMA ReturnSafe ==
  ASSUME AInv, NEW size \in Size, Return(size),
         pages' \in InitialPages..MaxPages, pages <= pages',
         NewPtr(size) <= pages' * Page
  PROVE  AInv'
<1> DEFINE new == [at |-> heap, size |-> size]
<1> USE MemoryAssumption, SizeAssumption
<1>1. /\ pages \in Nat /\ pages' \in Nat /\ heap \in Nat /\ size \in Nat
      /\ blocks \subseteq Block /\ Page \in Nat /\ Word \in Nat
  BY SizeIsNat DEF AInv, ATypeOK
<1>2. /\ pages * Page \in Nat /\ pages' * Page \in Nat
      /\ pages * Page <= pages' * Page
  BY <1>1, MoreBytes
<1>3. /\ heap' = NewPtr(size) /\ heap' \in Nat /\ blocks' = blocks \cup {new}
      /\ heap + size < Word => heap' = heap + size
      /\ heap + size >= Word => size >= Word - MaxPages * Page
  BY Pointer DEF AInv, Return
<1>4. /\ new \in Block /\ new.at = heap /\ new.size = size
      /\ End(new) = heap + size
  BY <1>1 DEF Block, End
<1>5. ATypeOK'
  BY <1>1, <1>3, <1>4 DEF ATypeOK
<1>6. heap' <= pages' * Page
  BY <1>3, Zenon
<1>7. ASSUME NEW b \in blocks
      PROVE  /\ b.at \in Nat /\ b.size \in Nat /\ End(b) \in Nat
             /\ ~Wraps(b) => End(b) <= pages * Page
             /\ Wraps(b) => b.size >= Word - MaxPages * Page
  BY <1>1, <1>7, BlockFacts DEF AInv
<1>8. ASSUME NEW b \in blocks', ~Wraps(b) PROVE End(b) <= pages' * Page
  <2>1. CASE b \in blocks
    <3>1. End(b) <= pages * Page /\ End(b) \in Nat
      BY <1>7, <1>8, <2>1
    <3> HIDE DEF End
    <3> QED
      BY <1>1, <1>2, <3>1
  <2>2. CASE b = new
    <3>1. heap + size < Word
      BY <1>1, <1>4, <1>8, <2>2 DEF Wraps
    <3>2. End(b) = heap'
      BY <1>3, <1>4, <2>2, <3>1
    <3> QED
      BY <1>6, <3>2, Zenon
  <2> QED
    BY <1>3, <2>1, <2>2
<1>9. ASSUME NEW b \in blocks', Wraps(b) PROVE b.size >= Word - MaxPages * Page
  <2>1. CASE b \in blocks
    BY <1>7, <1>9, <2>1, Zenon
  <2>2. CASE b = new
    <3>1. heap + size >= Word
      BY <1>4, <1>9, <2>2 DEF Wraps
    <3> QED
      BY <1>3, <1>4, <2>2, <3>1
  <2> QED
    BY <1>3, <2>1, <2>2
<1>10. ASSUME ~Wrapped'
       PROVE  /\ HeapStart <= heap /\ heap' = heap + size
              /\ \A b \in blocks : HeapStart <= b.at /\ End(b) <= heap
              /\ \A b, c \in blocks : b # c => End(b) <= c.at \/ End(c) <= b.at
  <2>1. \A b \in blocks' : ~Wraps(b)
    BY <1>10 DEF Wrapped, Wraps, End
  <2>2. ~Wrapped
    BY <1>3, <2>1 DEF Wrapped
  <2>3. heap + size < Word
    BY <1>1, <1>3, <1>4, <2>1 DEF Wraps
  <2> QED
    BY <1>3, <2>2, <2>3 DEF AInv, BlocksDisjoint
<1>11. ASSUME ~Wrapped'
       PROVE  HeapStart <= heap' /\ \A b \in blocks' : HeapStart <= b.at /\ End(b) <= heap'
  <2>1. HeapStart <= heap' /\ heap <= heap'
    BY <1>1, <1>10, <1>11
  <2>2. ASSUME NEW b \in blocks' PROVE HeapStart <= b.at /\ End(b) <= heap'
    <3>1. CASE b \in blocks
      <4>1. HeapStart <= b.at /\ End(b) <= heap /\ End(b) \in Nat
        BY <1>7, <1>10, <1>11, <3>1
      <4> HIDE DEF End
      <4> QED
        BY <1>1, <1>3, <2>1, <4>1
    <3>2. CASE b = new
      <4>1. End(b) = heap' /\ b.at = heap
        BY <1>4, <1>10, <1>11, <3>2
      <4> QED
        BY <1>3, <1>10, <1>11, <4>1
    <3> QED
      BY <1>3, <3>1, <3>2
  <2> QED
    BY <2>1, <2>2
<1>12. BlocksDisjoint'
  <2> SUFFICES ASSUME ~Wrapped', NEW b \in blocks', NEW c \in blocks', b # c
               PROVE  End(b) <= c.at \/ End(c) <= b.at
    BY DEF BlocksDisjoint, End
  <2>1. CASE b \in blocks /\ c \in blocks
    BY <1>10, <2>1
  <2>2. CASE b = new /\ c \in blocks
    BY <1>4, <1>10, <2>2
  <2>3. CASE c = new /\ b \in blocks
    BY <1>4, <1>10, <2>3
  <2> QED
    BY <1>3, <2>1, <2>2, <2>3
<1>13. /\ (\A b \in blocks : ~Wraps(b) => End(b) <= pages * Page)'
       /\ (\A b \in blocks : Wraps(b) => b.size >= Word - MaxPages * Page)'
       /\ (\A b \in blocks : HeapStart <= b.at /\ End(b) <= heap)'
            <=> \A b \in blocks' : HeapStart <= b.at /\ End(b) <= heap'
  BY <1>8, <1>9 DEF Wraps, End
<1> QED
  BY <1>5, <1>6, <1>11, <1>12, <1>13 DEF AInv

LEMMA NextAInv == AInv /\ [ANext]_avars => AInv'
<1> SUFFICES ASSUME AInv, [ANext]_avars PROVE AInv'
  OBVIOUS
<1> USE MemoryAssumption, SizeAssumption
<1>1. /\ pages \in InitialPages..MaxPages /\ pages \in Nat /\ heap \in Nat
      /\ heap <= pages * Page
  BY DEF AInv, ATypeOK
<1>2. CASE UNCHANGED avars
  BY <1>2 DEF avars, AInv, ATypeOK, BlocksDisjoint, Wrapped, Wraps, End
<1>3. ASSUME NEW size \in Size, AllocFits(size) PROVE AInv'
  <2>1. Bytes = pages * Page
    BY Pointer DEF AInv
  <2>2. pages' = pages /\ NewPtr(size) <= pages' * Page /\ Return(size)
    BY <1>3, <2>1 DEF AllocFits
  <2> QED
    BY <1>1, <2>2, ReturnSafe
<1>4. ASSUME NEW size \in Size, AllocGrows(size) PROVE AInv'
  <2> DEFINE over == NewPtr(size) - Bytes
  <2> DEFINE more == (over + (Page - 1)) \div Page
  <2>1. Bytes = pages * Page /\ Bytes \in Nat /\ NewPtr(size) \in Nat
    BY Pointer DEF AInv
  <2>2. over \in Nat
    BY <1>1, <1>4, <2>1, SMT DEF AllocGrows
  <2>3. more \in Nat /\ over <= more * Page
    BY <2>2, RoundUp
  <2>4. pages' = pages + more /\ pages' <= MaxPages /\ Return(size)
    BY <1>4 DEF AllocGrows, PagesNeeded
  <2>5. pages' \in InitialPages..MaxPages /\ pages <= pages'
    BY <1>1, <2>3, <2>4, SMT
  <2>6. NewPtr(size) = pages * Page + over
    BY <1>1, <2>1, SMT
  <2>7. pages' * Page = pages * Page + more * Page
    <3> HIDE DEF more
    <3> QED BY <1>1, <2>3, <2>4, SMT
  <2>8. NewPtr(size) <= pages' * Page
    <3>1. pages * Page \in Int /\ more * Page \in Int
      <4> HIDE DEF more
      <4> QED BY <1>1, <2>3, SMT
    <3> HIDE DEF more, over
    <3> QED BY <2>2, <2>3, <2>6, <2>7, <3>1, SMT
  <2> QED
    BY <2>4, <2>5, <2>8, ReturnSafe
<1>5. ASSUME NEW size \in Size, AllocFails(size) PROVE AInv'
  BY <1>2, <1>5 DEF AllocFails
<1> QED
  BY <1>2, <1>3, <1>4, <1>5 DEF ANext

\* The allocator keeps its types, and its memory never passes the maximum.
THEOREM AllocType == ASpec => []ATypeOK
<1>1. AInv => ATypeOK
  BY DEF AInv
<1> QED
  BY <1>1, InitAInv, NextAInv, PTL DEF ASpec

\* Whatever is requested, every block whose request did not wrap around lies
\* within memory, and only a request larger than the addresses above the
\* largest memory wraps; until one does, no block reaches the static data.
THEOREM AllocInMemory == ASpec => []BlocksInMemory
<1>1. AInv => BlocksInMemory
  BY DEF AInv, BlocksInMemory
<1> QED
  BY <1>1, InitAInv, NextAInv, PTL DEF ASpec

\* No two blocks overlap until a request wraps around.
THEOREM AllocDisjoint == ASpec => []BlocksDisjoint
<1>1. AInv => BlocksDisjoint
  BY DEF AInv
<1> QED
  BY <1>1, InitAInv, NextAInv, PTL DEF ASpec
=============================================================================
