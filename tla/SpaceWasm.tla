------------------------------ MODULE SpaceWasm ------------------------------
(***************************************************************************)
(* A running space compiled to WebAssembly: the exports that               *)
(* pepl-codegen/src/space.rs emits (init, dispatch_action, update,         *)
(* handle_event), over the globals gas and state_ptr.  The state is one    *)
(* immutable record, rebuilt by every `set`; a snapshot is a pointer to    *)
(* an old one.  A trap ends the call and leaves the instance as it is; the *)
(* host may call again.  Bodies are those of every program, as in          *)
(* SpaceEval.  One step that can tick stands for one gas_tick.             *)
(*                                                                         *)
(* The derived fields and invariants are compiled in the same function as  *)
(* the bodies before them, and a name that one of those bodies bound is    *)
(* still bound there: they read the local and not the field of the name.   *)
(***************************************************************************)
EXTENDS Naturals, Sequences

CONSTANTS
  Field, Cred,        \* state fields; credentials, which read as nil here
  Derived,            \* the derived fields, in declaration order
  Val, Nil, Trap,     \* values; the nil value; an expression that traps
  Unset,              \* what a local reads as that no `let` has set: pointer 0
  InitialVal,         \* the values state defaults can evaluate to
  Lets(_, _),         \* Lets(e, p): the names that part p of export e leaves
                      \* bound to locals; part 0 is what is compiled before
                      \* the derived fields (all bodies, or the defaults)
  Reads(_),           \* Reads(p): the names the expression of part p reads
  Derive(_, _),       \* Derive(i, view): the i-th derived expression
  NumInvariants,
  Holds(_, _),        \* Holds(i, view): the i-th invariant evaluates to true
  Traps(_, _),        \* Traps(i, view): its evaluation traps
  GasLimit,           \* DEFAULT_GAS_LIMIT
  MaxLoops,           \* bound on the nesting of loops
  MaxItems            \* bound on the length of the list a loop runs over

DerivedName == {Derived[i] : i \in DOMAIN Derived}
Key == Field \cup DerivedName

\* A state record; record_get answers nil for a key it lacks, so a record
\* without the derived fields is one where they are nil.
Record == [Key -> Val]

\* The derived fields and then the invariants, in the order they are compiled.
Name == Key \cup Cred
Invariant(i) == Len(Derived) + i

\* The names that are bound to locals where part p of an export is compiled.
Leaked(e, p) == UNION {Lets(e, q) : q \in 0..(p - 1)}

ASSUME WasmDerived ==
  /\ Derived \in Seq(DerivedName)
  /\ \A i, j \in DOMAIN Derived : Derived[i] = Derived[j] => i = j
  /\ DerivedName \cap Field = {}
  /\ Cred \cap Key = {}

ASSUME WasmValues ==
  /\ InitialVal \subseteq Val /\ InitialVal # {}
  /\ Nil \in Val /\ Unset \in Val /\ Trap \notin Val
  /\ NumInvariants \in Nat /\ GasLimit \in Nat
  /\ MaxLoops \in Nat /\ MaxItems \in Nat

VARIABLES
  state,     \* the record state_ptr points to
  gas,       \* global gas
  phase,     \* where the running call stands
  entry,     \* the export the running or last call entered
  loops,     \* the items left to each enclosing loop
  idx,       \* the next derived field or invariant
  snapshot,  \* dispatch_action's local: the record to roll back to
  locals,    \* the locals of the running function that keep their names
  outcome,   \* how the last call ended
  before,    \* history: the record when the call began
  returned   \* history: the last body ended by `return`

wvars == <<state, gas, phase, entry, loops, idx, snapshot, locals, outcome,
           before, returned>>

\* What an expression is meant to see: the record, and nil for a credential.
WasmView(rec) == [n \in Name |-> IF n \in Key THEN rec[n] ELSE Nil]

Part == IF phase = "check" THEN Invariant(idx) ELSE idx

\* What it sees: a local of the name is found before a state field of it
\* (emit_identifier).
Seen ==
  [n \in Name |-> IF n \in Leaked(entry, Part) THEN locals[n] ELSE WasmView(state)[n]]

ASSUME WasmExpressions ==
  \A view \in [Name -> Val] :
    /\ \A i \in DOMAIN Derived : Derive(i, view) \in Val \cup {Trap}
    /\ \A i \in 1..NumInvariants :
         /\ Holds(i, view) \in BOOLEAN
         /\ Traps(i, view) \in BOOLEAN

\* An expression depends on the names it reads.
ASSUME WasmReads ==
  /\ \A p \in 1..(Len(Derived) + NumInvariants) : Reads(p) \subseteq Name
  /\ \A view, other \in [Name -> Val] :
       /\ \A i \in DOMAIN Derived :
            (\A n \in Reads(i) : view[n] = other[n]) => Derive(i, view) = Derive(i, other)
       /\ \A i \in 1..NumInvariants :
            (\A n \in Reads(Invariant(i)) : view[n] = other[n])
              => Holds(i, view) = Holds(i, other)

\* A derived expression reads no derived field declared after it.
ASSUME WasmOrder ==
  \A i, j \in DOMAIN Derived : i <= j =>
    \A rec \in Record, v \in Val :
      Derive(i, WasmView([rec EXCEPT ![Derived[j]] = v])) = Derive(i, WasmView(rec))

WPhase == {"uninit", "idle", "body", "derive", "check"}
WEntry == {"init", "dispatch", "update", "event"}
WOutcome == {"none", "running", "done", "violated", "trap"}

Initial(defaults) ==
  [n \in Key |-> IF n \in Field THEN defaults[n] ELSE Nil]

NoLocals == [n \in Name |-> Unset]

\* Part p of export e runs, with whatever its `let` statements come to: the
\* locals of those that are not reached stay unset.
Bind(base, e, p) ==
  \E values \in [Lets(e, p) -> Val] :
    locals' = [n \in Name |-> IF n \in Lets(e, p) THEN values[n] ELSE base[n]]

\* A fresh instance: nothing may be called before init.
WInit ==
  /\ state = Initial([f \in Field |-> Nil])
  /\ snapshot = state /\ before = state
  /\ gas = 0 /\ phase = "uninit" /\ entry = "init"
  /\ loops = <<>> /\ idx = 1 /\ locals = NoLocals
  /\ outcome = "none" /\ returned = FALSE

-----------------------------------------------------------------------------
\* Gas: an expression or a statement ticks at its calls, if it has any.

Affordable == gas < GasLimit
Tick == gas' = IF Affordable THEN gas + 1 ELSE GasLimit + 1
MayTick == UNCHANGED gas \/ (Affordable /\ Tick)

-----------------------------------------------------------------------------
\* The exports

\* init() resets the gas, builds the record and computes the derived fields.
InitExport(defaults) ==
  /\ phase \in {"uninit", "idle"}
  /\ gas' = 0
  /\ state' = Initial(defaults)
  /\ before' = state
  /\ phase' = "derive" /\ idx' = 1
  /\ Bind(NoLocals, "init", 0)
  /\ entry' = "init" /\ outcome' = "running" /\ returned' = FALSE
  /\ UNCHANGED <<loops, snapshot>>

\* A default that traps: state_ptr still points to the old record.
InitExportTraps ==
  /\ phase = "idle"
  /\ gas' \in 0..(GasLimit + 1)
  /\ before' = state
  /\ entry' = "init" /\ outcome' = "trap" /\ returned' = FALSE
  /\ UNCHANGED <<state, phase, loops, idx, snapshot, locals>>

\* dispatch_action: snapshot the pointer and reset the gas.  No local is set.
DispatchAction ==
  /\ phase = "idle"
  /\ snapshot' = state /\ before' = state
  /\ gas' = 0
  /\ phase' = "body" /\ locals' = NoLocals
  /\ entry' = "dispatch" /\ outcome' = "running" /\ returned' = FALSE
  /\ UNCHANGED <<state, loops, idx>>

\* An action id no branch of the if-chain tests: only the epilogue runs, with
\* the names of all bodies.
DispatchUnknown ==
  /\ phase = "idle"
  /\ snapshot' = state /\ before' = state
  /\ gas' = 0
  /\ phase' = "derive" /\ idx' = 1 /\ locals' = NoLocals
  /\ entry' = "dispatch" /\ outcome' = "running" /\ returned' = FALSE
  /\ UNCHANGED <<state, loops>>

\* Seeded defect: no gas tick on entry.
GameLoop_NoTick(export) ==
  /\ phase = "idle"
  /\ before' = state
  /\ phase' = "body" /\ locals' = NoLocals
  /\ entry' = export /\ outcome' = "running" /\ returned' = FALSE
  /\ UNCHANGED <<state, gas, loops, idx, snapshot>>

\* update and handle_event: one tick, no reset, no snapshot.
GameLoop(export) ==
  /\ phase = "idle"
  /\ Affordable /\ Tick
  /\ before' = state
  /\ phase' = "body" /\ locals' = NoLocals
  /\ entry' = export /\ outcome' = "running" /\ returned' = FALSE
  /\ UNCHANGED <<state, loops, idx, snapshot>>

GameLoopTraps(export) ==
  /\ phase = "idle"
  /\ ~Affordable /\ Tick
  /\ before' = state
  /\ entry' = export /\ outcome' = "trap" /\ returned' = FALSE
  /\ UNCHANGED <<state, phase, loops, idx, snapshot, locals>>

Update == GameLoop("update") \/ GameLoopTraps("update")
HandleEvent == GameLoop("event") \/ GameLoopTraps("event")

-----------------------------------------------------------------------------
\* Statements

Continue == UNCHANGED <<phase, entry, idx, snapshot, outcome, before, returned>>

SetField(n, v) == state' = [state EXCEPT ![n] = v]

\* A `set` always writes the state record, whatever locals are in scope.
SetStmt(f, v) ==
  /\ phase = "body" /\ MayTick
  /\ SetField(f, v)
  /\ UNCHANGED <<loops, locals>> /\ Continue

\* Expression, if, match, and the `let` of a name nothing else has.
PlainStmt ==
  /\ phase = "body" /\ MayTick
  /\ UNCHANGED <<state, loops, locals>> /\ Continue

\* The `let` of a name that is still bound after the body: emit_let never
\* pops it.
LetStmt(n, v) ==
  /\ phase = "body" /\ MayTick
  /\ n \in Lets(entry, 0)
  /\ locals' = [locals EXCEPT ![n] = v]
  /\ UNCHANGED <<state, loops>> /\ Continue

\* The loop header ticks before it compares, so n items cost n + 1 ticks.
EnterFor(len) ==
  /\ phase = "body" /\ Affordable /\ Tick
  /\ Len(loops) < MaxLoops
  /\ loops' = Append(loops, len - 1)
  /\ UNCHANGED <<state, locals>> /\ Continue

NextItem ==
  /\ phase = "body" /\ loops # <<>> /\ loops[Len(loops)] > 0
  /\ Affordable /\ Tick
  /\ loops' = [loops EXCEPT ![Len(loops)] = @ - 1]
  /\ UNCHANGED <<state, locals>> /\ Continue

ExitFor ==
  /\ phase = "body" /\ loops # <<>> /\ loops[Len(loops)] = 0
  /\ Affordable /\ Tick
  /\ loops' = SubSeq(loops, 1, Len(loops) - 1)
  /\ UNCHANGED <<state, locals>> /\ Continue

EndBody ==
  /\ phase = "body" /\ loops = <<>>
  /\ phase' = "derive" /\ idx' = 1
  /\ UNCHANGED <<state, gas, entry, loops, snapshot, locals, outcome, before, returned>>

\* `return` is the WebAssembly return of the exported function itself:
\* neither the derived fields nor the invariants are reached.
ReturnStmt ==
  /\ phase = "body"
  /\ phase' = "idle" /\ outcome' = "done" /\ returned' = TRUE
  /\ loops' = <<>> /\ locals' = NoLocals
  /\ UNCHANGED <<state, gas, entry, idx, snapshot, before>>

\* assert, arithmetic trap, gas, memory: anywhere in a body.
TrapStmt ==
  /\ phase = "body"
  /\ UNCHANGED gas \/ Tick
  /\ phase' = "idle" /\ outcome' = "trap"
  /\ loops' = <<>> /\ locals' = NoLocals
  /\ UNCHANGED <<state, entry, idx, snapshot, before, returned>>

-----------------------------------------------------------------------------
\* The epilogue: derived fields, then for dispatch_action the invariants.

Value == Derive(idx, Seen)

\* Seeded defect: the value lands in the first derived field every time.
DeriveStep_FirstOnly ==
  /\ phase = "derive" /\ idx <= Len(Derived)
  /\ MayTick
  /\ Value # Trap
  /\ SetField(Derived[1], Value)
  /\ idx' = idx + 1 /\ Bind(locals, entry, Part)
  /\ UNCHANGED <<phase, entry, loops, snapshot, outcome, before, returned>>

DeriveStep ==
  /\ phase = "derive" /\ idx <= Len(Derived)
  /\ MayTick
  /\ Value # Trap
  /\ SetField(Derived[idx], Value)
  /\ idx' = idx + 1 /\ Bind(locals, entry, Part)
  /\ UNCHANGED <<phase, entry, loops, snapshot, outcome, before, returned>>

\* A derived field or an invariant that traps, or runs out of gas (in any
\* expression with a call): the record stays as it is.
EpilogueTrap ==
  /\ \/ phase = "derive" /\ idx <= Len(Derived) /\ (Value = Trap \/ ~Affordable)
     \/ /\ phase = "check" /\ idx <= NumInvariants
        /\ Traps(idx, Seen) \/ ~Affordable
  /\ UNCHANGED gas \/ Tick
  /\ phase' = "idle" /\ outcome' = "trap" /\ locals' = NoLocals
  /\ UNCHANGED <<state, entry, loops, idx, snapshot, before, returned>>

EndDerive ==
  /\ phase = "derive" /\ idx > Len(Derived)
  /\ IF entry = "dispatch"
     THEN phase' = "check" /\ idx' = 1 /\ UNCHANGED <<outcome, locals>>
     ELSE phase' = "idle" /\ outcome' = "done" /\ locals' = NoLocals /\ UNCHANGED idx
  /\ UNCHANGED <<state, gas, entry, loops, snapshot, before, returned>>

\* Seeded defect: the value of the invariant is ignored.
CheckPass_Ignored ==
  /\ phase = "check" /\ idx <= NumInvariants
  /\ MayTick
  /\ ~Traps(idx, Seen)
  /\ idx' = idx + 1 /\ Bind(locals, entry, Part)
  /\ UNCHANGED <<state, phase, entry, loops, snapshot, outcome, before, returned>>

CheckPass ==
  /\ phase = "check" /\ idx <= NumInvariants
  /\ MayTick
  /\ ~Traps(idx, Seen) /\ Holds(idx, Seen)
  /\ idx' = idx + 1 /\ Bind(locals, entry, Part)
  /\ UNCHANGED <<state, phase, entry, loops, snapshot, outcome, before, returned>>

\* Seeded defect: the trap comes before the pointer is restored.
CheckFail_TrapFirst ==
  /\ phase = "check" /\ idx <= NumInvariants
  /\ MayTick
  /\ ~Traps(idx, Seen) /\ ~Holds(idx, Seen)
  /\ phase' = "idle" /\ outcome' = "violated" /\ locals' = NoLocals
  /\ UNCHANGED <<state, entry, loops, idx, snapshot, before, returned>>

CheckFail ==
  /\ phase = "check" /\ idx <= NumInvariants
  /\ MayTick
  /\ ~Traps(idx, Seen) /\ ~Holds(idx, Seen)
  /\ state' = snapshot
  /\ phase' = "idle" /\ outcome' = "violated" /\ locals' = NoLocals
  /\ UNCHANGED <<entry, loops, idx, snapshot, before, returned>>

EndDispatch ==
  /\ phase = "check" /\ idx > NumInvariants
  /\ phase' = "idle" /\ outcome' = "done" /\ locals' = NoLocals
  /\ UNCHANGED <<state, gas, entry, loops, idx, snapshot, before, returned>>

-----------------------------------------------------------------------------

Exports ==
  \/ \E defaults \in [Field -> InitialVal] : InitExport(defaults)
  \/ InitExportTraps
  \/ DispatchAction \/ DispatchUnknown
  \/ Update \/ HandleEvent

Body ==
  \/ \E f \in Field, v \in Val : SetStmt(f, v)
  \/ PlainStmt
  \/ \E n \in Name, v \in Val : LetStmt(n, v)
  \/ \E len \in 1..MaxItems : EnterFor(len)
  \/ NextItem \/ ExitFor
  \/ EndBody \/ ReturnStmt \/ TrapStmt

Epilogue ==
  \/ DeriveStep \/ EpilogueTrap \/ EndDerive
  \/ CheckPass \/ CheckFail \/ EndDispatch

WNext == Exports \/ Body \/ Epilogue

WSpec == WInit /\ [][WNext]_wvars

-----------------------------------------------------------------------------
\* Properties

\* Every variable has its type; gas stops one past the limit at most.
WTypeOK ==
  /\ state \in Record /\ snapshot \in Record /\ before \in Record
  /\ gas \in 0..(GasLimit + 1)
  /\ phase \in WPhase /\ entry \in WEntry /\ outcome \in WOutcome
  /\ loops \in Seq(0..MaxItems) /\ Len(loops) <= MaxLoops
  /\ idx \in Nat \ {0}
  /\ locals \in [Name -> Val]
  /\ returned \in BOOLEAN

\* Part p of an export reads no name that a body, or a part before it, has
\* left bound.
Clear(e, p) == Reads(p) \cap Leaked(e, p) = {}

Good(i) == Holds(i, WasmView(state))
Fresh(i) == state[Derived[i]] = Derive(i, WasmView(state))

RecordGood == \A i \in 1..NumInvariants : Good(i)

\* A dispatch_action that runs to its end leaves a record that satisfies
\* every invariant, except one that reads the name of a `let` of some body.
DispatchSound ==
  outcome = "done" /\ entry = "dispatch" /\ ~returned =>
    \A i \in 1..NumInvariants : Clear("dispatch", Invariant(i)) => Good(i)

\* Every export that runs to its end leaves derived fields that belong to
\* the state fields beside them (emit_recompute_derived), again except those
\* that read the name of a `let` before them.
DerivedFresh ==
  outcome = "done" /\ ~returned =>
    \A i \in DOMAIN Derived : Clear(entry, i) => Fresh(i)

\* When an invariant traps the call, the host sees the very record it saw
\* before the call, derived fields included.
RollbackExact == outcome = "violated" => state = before

\* Once the budget is spent by the game loop, update and handle_event trap
\* until dispatch_action or init resets it.
SpentNeverDone ==
  outcome \in {"done", "violated"} => gas <= GasLimit

\* No dispatch_action commits a record that violates an invariant, however
\* its body ends.
ReturnSound == outcome = "done" /\ entry = "dispatch" => RecordGood
=============================================================================
