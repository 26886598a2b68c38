------------------------------ MODULE SpaceEval ------------------------------
(***************************************************************************)
(* A running space in the tree-walking evaluator: SpaceInstance            *)
(* (pepl-eval/src/space.rs) over its Evaluator (evaluator.rs).  The host   *)
(* dispatches actions, ticks the game loop, delivers events, injects       *)
(* credentials and renders; a call runs statement by statement.  Which     *)
(* statement comes next, and the values of its expressions, are left open: *)
(* the behaviours are those of every program over Field, Local, Derived    *)
(* and the invariants.  One unit of gas stands for all the ticks of one    *)
(* statement or top-level expression.                                      *)
(***************************************************************************)
EXTENDS Naturals, Sequences, FiniteSets

CONSTANTS
  Field,              \* state fields
  Cred,               \* credentials
  Local,              \* parameters, lets, loop and match variables
  Derived,            \* the derived fields, in declaration order
  Val, Unbound, Trap, \* values; no binding; an expression that fails
  InitialVal,         \* the values state defaults can evaluate to
  LocalVal,           \* the values locals are bound to (a bound: Val itself
                      \* when a local can shadow a field)
  Nil,                \* what a credential holds until the host sets it
  Derive(_, _),       \* Derive(i, view): the i-th derived expression
  NumInvariants,
  Holds(_, _),        \* Holds(i, view): the i-th invariant is truthy (an
                      \* evaluation error counts as a violation)
  GasLimit,
  MaxFrames,          \* bound on the nesting of loops and match arms
  MaxItems            \* bound on the length of the list a loop runs over

DerivedName == {Derived[i] : i \in DOMAIN Derived}
Name == Field \cup Cred \cup Local \cup DerivedName

INSTANCE Environment

ASSUME DerivedAssumption ==
  /\ Derived \in Seq(DerivedName)
  /\ \A i, j \in DOMAIN Derived : Derived[i] = Derived[j] => i = j
  /\ DerivedName \cap (Field \cup Cred \cup Local) = {}
  /\ Field \cap Cred = {}

ASSUME ValueAssumption ==
  /\ InitialVal \subseteq Val
  /\ InitialVal # {}
  /\ LocalVal \subseteq Val
  /\ Nil \in Val
  /\ Unbound \notin Val
  /\ Trap \notin Val
  /\ \A i \in DOMAIN Derived : \A view \in Scope :
       Derive(i, view) \in Val \cup {Trap}

\* A derived expression reads no derived field declared after it.
ASSUME DeclarationOrder ==
  \A i, j \in DOMAIN Derived : i <= j =>
    \A view \in Scope : \A v \in Slot :
      Derive(i, [view EXCEPT ![Derived[j]] = v]) = Derive(i, view)

\* Invariants read state and credentials only (checked at compile time).
ASSUME InvariantReads ==
  \A i \in 1..NumInvariants : \A view \in Scope :
    Holds(i, view) <=>
      Holds(i, [n \in Name |-> IF n \in Field \cup Cred THEN view[n]
                                                        ELSE Unbound])

ASSUME BoundsAssumption ==
  /\ NumInvariants \in Nat /\ GasLimit \in Nat
  /\ MaxFrames \in Nat /\ MaxItems \in Nat

VARIABLES
  env,        \* the stack of scopes
  credentials,\* the host's copy of the credentials
  gas,        \* gas used since the instance was created, never reset
  phase,      \* where the running call stands
  frames,     \* the loops and match arms the body is inside
  idx,        \* the next derived field or invariant to evaluate
  snapshot,   \* the global scope when the call began (a local
              \* of the call: EmptyScope between calls)
  outcome,    \* how the last call ended
  before,     \* history: the state fields' values when the call began
  abandoned   \* history: some loop was left by `?`, its scope unpopped

vars == <<env, credentials, gas, phase, frames, idx, snapshot, outcome,
          before, abandoned>>

Fields(e) == [f \in Field |-> Lookup(e, f)]

Phase == {"idle", "body", "derive", "check", "rederive", "render"}
Outcome == {"none", "running", "committed", "rolledback", "fault", "rendered",
            "rejected"}
Frame == [kind : {"for", "match"}, item : Local, left : 0..MaxItems]

-----------------------------------------------------------------------------
\* Gas
\* Seeded defect: the limit is compared with >= where the code has >.
Affordable_OffByOne == gas <= GasLimit

Affordable == gas < GasLimit

\* Beyond the limit the counter only matters as "exhausted": cap it there.
Tick == gas' = IF Affordable THEN gas + 1 ELSE GasLimit + 1

-----------------------------------------------------------------------------
\* with_gas_limit: defaults, then credentials, then derived fields in
\* declaration order.  No instance exists when a derived field fails.  The
\* budget GasLimit is what construction leaves of the configured limit.
Init ==
  /\ \E g \in Scope :
       /\ \A f \in Field : g[f] \in InitialVal
       /\ \A c \in Cred : g[c] = Nil
       /\ \A n \in Local \ Field : g[n] = Unbound
       /\ \A i \in DOMAIN Derived : g[Derived[i]] = Derive(i, g)
       /\ env = <<g>>
       /\ before = [f \in Field |-> g[f]]
  /\ credentials = [c \in Cred |-> Nil]
  /\ gas = 0
  /\ phase = "idle"
  /\ frames = <<>>
  /\ idx = 1
  /\ snapshot = EmptyScope
  /\ outcome = "none"
  /\ abandoned = FALSE

-----------------------------------------------------------------------------
(* Calls of the host.  dispatch zips parameters with arguments, so a short *)
(* argument list leaves parameters unbound; update and handleEvent bind    *)
(* exactly one.                                                            *)

Bindings ==
  {s \in Scope : \A n \in Name :
     s[n] = Unbound \/ (n \in Local /\ s[n] \in LocalVal)}

Begin(params) ==
  /\ phase = "idle"
  /\ snapshot' = env[1]
  /\ before' = Fields(env)
  /\ env' = PushScope(env, params)
  /\ phase' = "body"
  /\ outcome' = "running"
  /\ UNCHANGED <<credentials, gas, frames, idx, abandoned>>

Dispatch == \E params \in Bindings : Begin(params)

CallUpdate == \E p \in Local, v \in LocalVal : Begin([EmptyScope EXCEPT ![p] = v])

CallHandleEvent ==
  \E p \in Local, v \in LocalVal : Begin([EmptyScope EXCEPT ![p] = v])

\* An unknown action or view, or a handler the space does not declare.
Refuse ==
  /\ phase = "idle"
  /\ outcome' = "rejected"
  /\ UNCHANGED <<env, credentials, gas, phase, frames, idx, snapshot, before,
                 abandoned>>
\* Seeded defect: the environment keeps the old value.
SetCredential_MapOnly(c, v) ==
  /\ phase = "idle"
  /\ credentials' = [credentials EXCEPT ![c] = v]
  /\ outcome' = "none"
  /\ UNCHANGED <<env, gas, phase, frames, idx, snapshot, before, abandoned>>

\* The value goes to the map and to the INNERMOST scope of the stack.
SetCredential(c, v) ==
  /\ phase = "idle"
  /\ credentials' = [credentials EXCEPT ![c] = v]
  /\ env' = Define(env, c, v)
  /\ outcome' = "none"
  /\ UNCHANGED <<gas, phase, frames, idx, snapshot, before, abandoned>>

\* Rendering opens no scope.
BeginRender ==
  /\ phase = "idle"
  /\ before' = Fields(env)
  /\ phase' = "render"
  /\ outcome' = "running"
  /\ UNCHANGED <<env, credentials, gas, frames, idx, snapshot, abandoned>>

-----------------------------------------------------------------------------
\* Statements of an action body, and elements of a view.

Running == phase \in {"body", "render"}
InnermostFrame == frames[Len(frames)]
OuterFrames == SubSeq(frames, 1, Len(frames) - 1)

\* What a statement that keeps running leaves alone.
Continue == UNCHANGED <<credentials, phase, idx, snapshot, outcome, before,
                        abandoned>>
\* Seeded defect: executing a statement costs nothing.
Statement_Free == Running /\ Affordable /\ UNCHANGED gas

Statement == Running /\ Affordable /\ Tick
\* Seeded defect: a view may execute `set`.
SetStmt_InViews(f, v) ==
  /\ Statement
  /\ env' = Assign(env, f, v)
  /\ UNCHANGED frames /\ Continue

\* Binds only the innermost existing binding of f, whatever scope that is.
SetStmt(f, v) ==
  /\ phase = "body" /\ Statement
  /\ env' = Assign(env, f, v)
  /\ UNCHANGED frames /\ Continue

\* A statement without effect on the space: an expression, a call, `let _`,
\* an `if`, a match without matching arm, a component.
PlainStmt ==
  /\ Statement
  /\ UNCHANGED <<env, frames>> /\ Continue

LetStmt(n, v) ==
  /\ Statement
  /\ env' = Define(env, n, v)
  /\ UNCHANGED frames /\ Continue

\* One scope for all iterations; over an empty list it is popped at once.
EnterFor(n, v, len) ==
  /\ Statement /\ Len(frames) < MaxFrames
  /\ env' = PushScope(env, [EmptyScope EXCEPT ![n] = v])
  /\ frames' = Append(frames, [kind |-> "for", item |-> n, left |-> len - 1])
  /\ Continue

NextItem(v) ==
  /\ Running
  /\ frames # <<>>
  /\ InnermostFrame.kind = "for" /\ InnermostFrame.left > 0
  /\ env' = Define(env, InnermostFrame.item, v)
  /\ frames' = [frames EXCEPT ![Len(frames)].left = @ - 1]
  /\ UNCHANGED gas /\ Continue

ExitFor ==
  /\ Running
  /\ frames # <<>>
  /\ InnermostFrame.kind = "for" /\ InnermostFrame.left = 0
  /\ env' = PopScope(env)
  /\ frames' = OuterFrames
  /\ UNCHANGED gas /\ Continue
\* Seeded defect: the arm's variables go to the scope around the match.
EnterMatch_SameScope(n, v) ==
  /\ Statement /\ Len(frames) < MaxFrames
  /\ env' = Define(env, n, v)
  /\ frames' = Append(frames, [kind |-> "match", item |-> n, left |-> 0])
  /\ Continue

EnterMatch(n, v) ==
  /\ Statement /\ Len(frames) < MaxFrames
  /\ env' = PushScope(env, [EmptyScope EXCEPT ![n] = v])
  /\ frames' = Append(frames, [kind |-> "match", item |-> n, left |-> 0])
  /\ Continue
\* Seeded defect: the arm's scope stays on the stack.
ExitMatch_NoPop ==
  /\ Running
  /\ frames # <<>>
  /\ InnermostFrame.kind = "match"
  /\ frames' = OuterFrames
  /\ UNCHANGED <<env, gas>> /\ Continue

ExitMatch ==
  /\ Running
  /\ frames # <<>>
  /\ InnermostFrame.kind = "match"
  /\ env' = PopScope(env)
  /\ frames' = OuterFrames
  /\ UNCHANGED gas /\ Continue

-----------------------------------------------------------------------------
(* Leaving a body early.  An Err travels up through `?`: a match pops its  *)
(* scope on the way, a for does not, and the call itself pops one.         *)

OpenMatches == Cardinality({i \in DOMAIN frames : frames[i].kind = "match"})

\* Seeded defect: a failing view pops a scope it never pushed.
Unwound_PopInViews == SubSeq(env, 1, Len(env) - OpenMatches - 1)

Unwound ==
  SubSeq(env, 1, Len(env) - OpenMatches - (IF phase = "body" THEN 1 ELSE 0))

Unwind ==
  /\ env' = Unwound
  /\ frames' = <<>>
  /\ abandoned' = (abandoned \/ OpenMatches # Len(frames))
\* Seeded defect: recomputation starts at the second derived field.
EndBody_SkipFirst ==
  /\ phase = "body" /\ frames = <<>>
  /\ env' = PopScope(env)
  /\ phase' = "derive" /\ idx' = 2
  /\ UNCHANGED <<credentials, gas, frames, snapshot, outcome, before,
                 abandoned>>

EndBody ==
  /\ phase = "body" /\ frames = <<>>
  /\ env' = PopScope(env)
  /\ phase' = "derive" /\ idx' = 1
  /\ UNCHANGED <<credentials, gas, frames, snapshot, outcome, before,
                 abandoned>>

ReturnStmt ==
  /\ phase = "body" /\ Affordable /\ Tick
  /\ Unwind
  /\ phase' = "derive" /\ idx' = 1
  /\ UNCHANGED <<credentials, snapshot, outcome, before>>

\* A failed assert, a type error, an arithmetic trap, or no gas left.
Fail ==
  /\ Running /\ Tick
  /\ Unwind
  /\ phase' = "idle" /\ outcome' = "fault"
  /\ snapshot' = EmptyScope
  /\ UNCHANGED <<credentials, idx, before>>

EndRender ==
  /\ phase = "render" /\ frames = <<>>
  /\ phase' = "idle" /\ outcome' = "rendered"
  /\ UNCHANGED <<env, credentials, gas, frames, idx, snapshot, before,
                 abandoned>>

-----------------------------------------------------------------------------
\* After the body: derived fields, invariants, commit or rollback.

Value == Derive(idx, View(env))

DeriveStep ==
  /\ phase \in {"derive", "rederive"} /\ idx <= Len(Derived)
  /\ Affordable /\ Tick
  /\ Value # Trap
  /\ env' = SetOrDefine(env, Derived[idx], Value)
  /\ idx' = idx + 1
  /\ UNCHANGED <<credentials, phase, frames, snapshot, outcome, before,
                 abandoned>>

\* The error is returned as it is: nothing is restored.
DeriveFail ==
  /\ phase \in {"derive", "rederive"} /\ idx <= Len(Derived)
  /\ ~Affordable \/ Value = Trap
  /\ Tick
  /\ phase' = "idle" /\ outcome' = "fault"
  /\ snapshot' = EmptyScope
  /\ UNCHANGED <<env, credentials, frames, idx, before, abandoned>>

StartChecks ==
  /\ phase = "derive" /\ idx > Len(Derived)
  /\ phase' = "check" /\ idx' = 1
  /\ UNCHANGED <<env, credentials, gas, frames, snapshot, outcome, before,
                 abandoned>>
\* Seeded defect: the value of the invariant is ignored.
CheckPass_Ignored ==
  /\ phase = "check" /\ idx <= NumInvariants
  /\ Affordable /\ Tick
  /\ idx' = idx + 1
  /\ UNCHANGED <<env, credentials, phase, frames, snapshot, outcome, before,
                 abandoned>>

CheckPass ==
  /\ phase = "check" /\ idx <= NumInvariants
  /\ Affordable /\ Tick
  /\ Holds(idx, View(env))
  /\ idx' = idx + 1
  /\ UNCHANGED <<env, credentials, phase, frames, snapshot, outcome, before,
                 abandoned>>
\* Seeded defect: derived fields are recomputed but nothing is restored.
CheckFail_NoRestore ==
  /\ phase = "check" /\ idx <= NumInvariants
  /\ ~Affordable \/ ~Holds(idx, View(env))
  /\ Tick
  /\ phase' = "rederive" /\ idx' = 1
  /\ UNCHANGED <<env, credentials, frames, snapshot, outcome, before,
                 abandoned>>

\* Running out of gas inside an invariant counts as its violation.
CheckFail ==
  /\ phase = "check" /\ idx <= NumInvariants
  /\ ~Affordable \/ ~Holds(idx, View(env))
  /\ Tick
  /\ env' = RestoreGlobal(env, snapshot)
  /\ phase' = "rederive" /\ idx' = 1
  /\ UNCHANGED <<credentials, frames, snapshot, outcome, before, abandoned>>

Commit ==
  /\ phase = "check" /\ idx > NumInvariants
  /\ phase' = "idle" /\ outcome' = "committed"
  /\ snapshot' = EmptyScope
  /\ UNCHANGED <<env, credentials, gas, frames, idx, before, abandoned>>

RolledBack ==
  /\ phase = "rederive" /\ idx > Len(Derived)
  /\ phase' = "idle" /\ outcome' = "rolledback"
  /\ snapshot' = EmptyScope
  /\ UNCHANGED <<env, credentials, gas, frames, idx, before, abandoned>>

-----------------------------------------------------------------------------

Stmt ==
  \/ \E f \in Field, v \in Val : SetStmt(f, v)
  \/ PlainStmt
  \/ \E n \in Local, v \in LocalVal : LetStmt(n, v)
  \/ \E n \in Local, v \in LocalVal, len \in 1..MaxItems : EnterFor(n, v, len)
  \/ \E v \in LocalVal : NextItem(v)
  \/ ExitFor
  \/ \E n \in Local, v \in LocalVal \cup {Unbound} : EnterMatch(n, v)
  \/ ExitMatch
  \/ EndBody
  \/ ReturnStmt
  \/ Fail
  \/ EndRender

Finish ==
  \/ DeriveStep \/ DeriveFail \/ StartChecks
  \/ CheckPass \/ CheckFail \/ Commit \/ RolledBack

Host ==
  \/ Dispatch \/ CallUpdate \/ CallHandleEvent
  \/ Refuse
  \/ \E c \in Cred, v \in Val : SetCredential(c, v)
  \/ BeginRender

Next == Host \/ Stmt \/ Finish

Spec == Init /\ [][Next]_vars

\* A call is a synchronous function call: once begun it keeps running.
FairSpec == Spec /\ WF_vars(Stmt \/ Finish)

-----------------------------------------------------------------------------
\* Properties

\* Every variable has its type; the global scope is always there, and gas
\* never moves more than one unit past the limit (tick).
TypeOK ==
  /\ env \in Seq(Scope) /\ Len(env) >= 1
  /\ credentials \in [Cred -> Val]
  /\ gas \in 0..(GasLimit + 1)
  /\ phase \in Phase
  /\ frames \in Seq(Frame)
  /\ idx \in Nat \ {0}
  /\ snapshot \in Scope
  /\ outcome \in Outcome
  /\ before \in [Field -> Slot]
  /\ abandoned \in BOOLEAN

InvariantsHold == \A i \in 1..NumInvariants : Holds(i, View(env))

Fresh(i) == Lookup(env, Derived[i]) = Derive(i, View(env))

\* A call reported as committed left a visible state that satisfies every
\* invariant, with every derived field computed from that state (dispatch,
\* call_update, call_handle_event), whatever the body did and left behind.
CommitSound ==
  outcome = "committed" =>
    InvariantsHold /\ \A i \in DOMAIN Derived : Fresh(i)

\* A call reported as rolled back shows the host exactly the state fields it
\* showed before the call, and derived fields that belong to them.
RollbackRestores ==
  outcome = "rolledback" =>
    Fields(env) = before /\ \A i \in DOMAIN Derived : Fresh(i)

\* Unless some loop was left by `return` or by an error, the scope stack is
\* the global scope, the call's scope and one scope per open loop or arm: no
\* binding of one call is visible to the next.
ScopesBalanced ==
  ~abandoned =>
    Len(env) = 1 + (IF phase = "body" THEN 1 ELSE 0) + Len(frames)

\* An abandoned loop never costs a scope that is still in use: the stack
\* holds at least the scopes the running call opened.
ScopesSuffice ==
  Len(env) >= 1 + (IF phase = "body" THEN 1 ELSE 0) + Len(frames)

\* What a body, a view or a derived field reads as a credential is what the
\* host set last, even after rollbacks and over abandoned scopes
\* (set_credential defines in the innermost scope only).
CredentialVisible ==
  \A c \in Cred : Lookup(env, c) = credentials[c]

\* The budget is one for the life of the instance: once it is spent no call
\* of a space with a derived field or an invariant commits any more.
SpentNeverCommits == outcome = "committed" => gas <= GasLimit

\* Rendering a view never changes what the host sees of the state fields.
RenderPure == [][phase = "render" => Fields(env)' = Fields(env)]_vars

\* Every call returns to the host: gas bounds every body and view.
CallsReturn == phase # "idle" ~> phase = "idle"

\* The evaluator implements the promise, faults excepted.
FieldState == [Field -> Slot]
CredState == [Cred -> Val]
GoodState(s, k) ==
  LET view == [n \in Name |-> IF n \in Field THEN s[n]
                              ELSE IF n \in Cred THEN k[n] ELSE Unbound]
  IN  \A i \in 1..NumInvariants : Holds(i, view)

Promise == INSTANCE TransactionalSpace
  WITH State <- FieldState, Input <- CredState, Good <- GoodState,
       st <- IF outcome = "running" THEN before ELSE Fields(env),
       inp <- credentials, verdict <- outcome

\* Faults are the only way a call breaks the transactional promise: every
\* other step of the evaluator is a step of TransactionalSpace.
Transactional == Promise!SpecWithFaults
=============================================================================
