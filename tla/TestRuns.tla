------------------------------ MODULE TestRuns ------------------------------
(***************************************************************************)
(* One test case of a `tests` block run twice: by the evaluator            *)
(* (pepl-eval/src/test_runner.rs) and as the exported function __test_N    *)
(* (pepl-codegen/src/test_codegen.rs).                                     *)
(*                                                                         *)
(* A dispatch is one step here: that the two implementations of a dispatch *)
(* agree is the subject of Parity.  The space has one state field; what an *)
(* action makes of it is the constant Effect.  A `let` stands at the top   *)
(* of a test (what blocks do to it is the subject of Names), and budgets   *)
(* suffice.                                                                *)
(***************************************************************************)
EXTENDS Naturals, SequencesExt

CONSTANTS
  Field, Local,  \* the state field; the other names a test may bind
  Val, Unbound,
  Initial,       \* the field's default
  Holds,         \* the values that satisfy the invariants
  Action,
  WithParam,     \* actions with a parameter
  Asking,        \* actions that call a capability, each one of its own
  Effect,        \* by action, argument or answer, and field: the new field
  Fails,         \* ... or that the body fails
  Unmocked,      \* the answer to a capability call without a mock
  Statements,    \* every statement a test may contain, the nested ones included
  Tests,         \* the bodies of test cases
  Responses      \* the with_responses blocks

Name == {Field} \cup Local

ASSUME TestRunsAssumption ==
  /\ Field \notin Local /\ Fails \notin Val /\ Unbound \notin Val
  /\ Initial \in Val /\ Unmocked \in Val
  /\ WithParam \subseteq Action /\ Asking \subseteq Action
  /\ Effect \in [Action -> [Val -> [Val -> Val \cup {Fails}]]]
  /\ Holds \subseteq Val

\* What the parser makes of a test body; an `else if` is an else of one `if`.
ASSUME StatementsAssumption ==
  /\ \A t \in Tests : t \in Seq(Statements)
  /\ \A s \in Statements :
       \/ s.kind = "call" /\ s.action \in Action /\ s.value \in Val
       \/ s.kind \in {"assert", "let"} /\ s.name \in Name /\ s.value \in Val
       \/ s.kind = "set" /\ s.value \in Val
       \/ /\ s.kind = "if" /\ s.value \in Val
          /\ s.then \in Seq(Statements) /\ s.else \in Seq(Statements)
          /\ s.elif \in BOOLEAN
          /\ s.elif => Len(s.else) = 1 /\ s.else[1].kind = "if"
       \/ /\ s.kind = "for" /\ s.name \in Name
          /\ s.items \in Seq(Val) /\ s.body \in Seq(Statements)
       \/ s.kind = "match" /\ s.body \in Seq(Statements)
  \* ... with its `let`s at the top.
  /\ \A s \in Statements :
       /\ s.kind = "if" => /\ \A i \in DOMAIN s.then : s.then[i].kind # "let"
                          /\ \A i \in DOMAIN s.else : s.else[i].kind # "let"
       /\ s.kind \in {"for", "match"} => \A i \in DOMAIN s.body : s.body[i].kind # "let"

VARIABLES
  test, mocks,    \* the test case
  \* the evaluator's run
  todo,           \* what is left to execute, with the mode it executes in
  env, verdict,
  \* the compiled run
  code,           \* what is left to execute
  locals,         \* the wasm locals a name stands for, innermost last
  record,         \* the field in the state record
  result,
  \* history
  made,           \* calls the evaluator came to, and those that committed
  skipped,        \* calls the compiled test came to, and those not dispatched
  differences     \* where the two are known to part

evaluator == <<todo, env, verdict, made>>
compiled == <<code, locals, record, result, skipped, differences>>
vars == <<test, mocks, todo, env, verdict, code, locals, record, result, made,
          skipped, differences>>

INSTANCE Environment

-----------------------------------------------------------------------------
\* Both runs

\* The runner executes a test's own statements ("test") and those of its `if`
\* and `for` ("block"); inside a `match` the evaluator is by itself ("plain").
\* Of the compiled test only the statements at the top are emit_test_stmt's.
In(mode, body) == [i \in DOMAIN body |-> [stmt |-> body[i], mode |-> mode]]

Marker(kind) == <<[stmt |-> [kind |-> kind], mode |-> "marker"]>>
ItemOf(s, i) ==
  <<[stmt |-> [kind |-> "item", name |-> s.name, value |-> s.items[i]],
     mode |-> "marker"]>>

\* The statements of a loop, unrolled: one scope for all items, or one each.
OneScope(s, mode) ==
  Marker("push")
  \o FlattenSeq([i \in DOMAIN s.items |-> ItemOf(s, i) \o In(mode, s.body)])
  \o Marker("pop")

ScopePerItem(s, mode) ==
  FlattenSeq([i \in DOMAIN s.items |->
    Marker("push") \o ItemOf(s, i) \o In(mode, s.body) \o Marker("pop")])

Differ(what) == differences' = differences \cup {what}
Agree == UNCHANGED differences

-----------------------------------------------------------------------------
\* The evaluator

Fresh == <<[n \in Name |-> IF n = Field THEN Initial ELSE Unbound]>>

Stmt == todo[1].stmt
Mode == todo[1].mode
Step(kind) ==
  /\ verdict = "running" /\ todo # <<>>
  /\ Stmt.kind = kind
  /\ UNCHANGED <<test, mocks, compiled>>

Fail == verdict' = "failed" /\ UNCHANGED <<todo, env>>
Replace(items) == todo' = items \o Tail(todo) /\ UNCHANGED verdict
Proceed == Replace(<<>>)

\* find_mock_response: the first that matches.
Answer(action) ==
  LET found == SelectSeq(mocks, LAMBDA m : m.function = action)
  IN  IF found = <<>> THEN Unmocked ELSE found[1].response

Input(s) == IF s.action \in Asking THEN Answer(s.action) ELSE s.value

\* execute_test_expr: dispatch, in whatever scopes the test has open.  A
\* violated invariant restores the global scope and fails the test, as an
\* error does.
After == Effect[Stmt.action][Input(Stmt)][Lookup(env, Field)]

\* Seeded defect: a call that was rolled back does not fail the test.
Call_IgnoresRollback ==
  /\ Step("call") /\ Mode # "plain"
  /\ IF After = Fails THEN Fail
     ELSE /\ env' = IF After \in Holds THEN Assign(env, Field, After) ELSE env
          /\ Proceed
  /\ made' = [come |-> made.come + 1,
              committed |-> made.committed + IF After \in Holds THEN 1 ELSE 0]

Call ==
  /\ Step("call") /\ Mode # "plain"
  /\ IF After \in Holds
     THEN /\ env' = Assign(env, Field, After)
          /\ Proceed
          /\ made' = [come |-> made.come + 1, committed |-> made.committed + 1]
     ELSE Fail /\ made' = [made EXCEPT !.come = @ + 1]

\* eval_call knows no actions.
CallUnknown ==
  /\ Step("call") /\ Mode = "plain"
  /\ Fail
  /\ made' = [made EXCEPT !.come = @ + 1]

Check ==
  /\ Step("assert")
  /\ IF Lookup(env, Stmt.name) = Stmt.value THEN Proceed /\ UNCHANGED env ELSE Fail
  /\ UNCHANGED made

\* define_in_env: at the top of a test that is the global scope, where the
\* fields are.
Let ==
  /\ Step("let")
  /\ env' = Define(env, Stmt.name, Stmt.value)
  /\ Proceed /\ UNCHANGED made

\* `set` is executed as in an action, but no derived field is recomputed and
\* no invariant checked behind it.
SetField ==
  /\ Step("set")
  /\ env' = Assign(env, Field, Stmt.value)
  /\ Proceed /\ UNCHANGED made

Inner(mode) == IF mode = "plain" THEN "plain" ELSE "block"
Test(s) == Lookup(env, Field) = s.value

\* The runner tries the first `else if` only and does without its else.
If ==
  /\ Step("if")
  /\ LET elif == Stmt.else[1]
     IN  IF Test(Stmt) THEN Replace(In(Inner(Mode), Stmt.then))
         ELSE IF ~Stmt.elif \/ Mode = "plain" THEN Replace(In(Inner(Mode), Stmt.else))
         ELSE IF Test(elif) THEN Replace(In("block", elif.then))
         ELSE Proceed
  /\ UNCHANGED <<env, made>>

For ==
  /\ Step("for")
  /\ Replace(IF Mode = "plain" THEN OneScope(Stmt, "plain")
             ELSE ScopePerItem(Stmt, "block"))
  /\ UNCHANGED <<env, made>>

\* One arm, which the subject matches and which binds nothing.
Match ==
  /\ Step("match")
  /\ Replace(Marker("push") \o In("plain", Stmt.body) \o Marker("pop"))
  /\ UNCHANGED <<env, made>>

Push ==
  /\ Step("push")
  /\ env' = PushScope(env, EmptyScope) /\ Proceed
  /\ UNCHANGED made

Item ==
  /\ Step("item")
  /\ env' = Define(env, Stmt.name, Stmt.value) /\ Proceed
  /\ UNCHANGED made

Pop ==
  /\ Step("pop")
  /\ env' = PopScope(env) /\ Proceed
  /\ UNCHANGED made

Pass ==
  /\ verdict = "running" /\ todo = <<>>
  /\ verdict' = "passed"
  /\ UNCHANGED <<test, mocks, todo, env, made, compiled>>

Evaluate ==
  \/ Call \/ CallUnknown \/ Check \/ Let \/ SetField \/ If \/ For \/ Match
  \/ Push \/ Item \/ Pop \/ Pass

-----------------------------------------------------------------------------
\* The compiled test

Instr == code[1].stmt
Plain == code[1].mode = "plain"
Op(kind) ==
  /\ result = "running" /\ code # <<>>
  /\ Instr.kind = kind
  /\ UNCHANGED <<test, mocks, todo, env, verdict, made>>

Trap == result' = "failed" /\ UNCHANGED <<code, locals, record>>
Splice(items) == code' = items \o Tail(code) /\ UNCHANGED result
Advance == Splice(<<>>)

\* emit_identifier: of a name that is neither a local nor a field, nil.
Value(n) ==
  IF IsBound(locals, n) THEN Lookup(locals, n) ELSE IF n = Field THEN record ELSE Unbound

\* Seeded defect: the test does not call init.
Begin_KeepsState ==
  /\ verdict # "running" /\ result = "none"
  /\ code' = In("test", test)
  /\ result' = "running"
  /\ UNCHANGED <<test, mocks, evaluator, locals, record, skipped, differences>>

\* Whatever was called before on the same instance of the module.
Begin ==
  /\ verdict # "running" /\ result = "none"
  /\ record' = Initial
  /\ code' = In("test", test)
  /\ result' = "running"
  /\ UNCHANGED <<test, mocks, evaluator, locals, skipped, differences>>

\* emit_action_dispatch passes no payload: a parameter is then read from a
\* list at address 0, which lies beyond the memory.  The host answers a
\* capability call, whatever with_responses says.
Dispatch ==
  /\ Op("call") /\ ~Plain
  /\ IF Instr.action \in WithParam
     THEN Trap /\ Differ("argument")
     ELSE \E answer \in IF Instr.action \in Asking THEN Val ELSE {Instr.value} :
            LET after == Effect[Instr.action][answer][record]
            IN  /\ IF after \in Holds
                   THEN record' = after /\ Advance /\ UNCHANGED locals
                   ELSE Trap
                /\ IF Instr.action \in Asking THEN Differ("capability") ELSE Agree
  /\ UNCHANGED skipped

\* emit_stmts emits what a construct contains.
InnerCode(body) == In("plain", body)

\* emit_call: no function has the action's name, so the call is nil.
SkipCall ==
  /\ Op("call") /\ Plain
  /\ Advance
  /\ skipped' = TRUE
  /\ Differ("nested call") /\ UNCHANGED <<locals, record>>

\* The host's trap does not return (emit_test_assert relies on it).
AssertOrTrap ==
  /\ Op("assert")
  /\ IF Value(Instr.name) = Instr.value
     THEN Advance /\ UNCHANGED <<locals, record>>
     ELSE Trap
  /\ Agree /\ UNCHANGED skipped

LetLocal ==
  /\ Op("let")
  /\ locals' = Define(locals, Instr.name, Instr.value)
  /\ Advance
  /\ IF Instr.name = Field THEN Differ("field's name") ELSE Agree
  /\ UNCHANGED <<record, skipped>>

SetRecord ==
  /\ Op("set")
  /\ record' = Instr.value
  /\ Advance /\ Agree /\ UNCHANGED <<locals, skipped>>

Branch ==
  /\ Op("if")
  /\ LET elif == Instr.else[1]
     IN  /\ Splice(InnerCode(IF Value(Field) = Instr.value THEN Instr.then ELSE Instr.else))
         /\ IF /\ Value(Field) # Instr.value /\ Instr.elif
               /\ Value(Field) # elif.value /\ elif.else # <<>>
            THEN Differ("else if") ELSE Agree
  /\ UNCHANGED <<locals, record, skipped>>

Loop ==
  /\ Op("for")
  /\ Splice(Marker("push")
            \o FlattenSeq([i \in DOMAIN Instr.items |->
                 ItemOf(Instr, i) \o InnerCode(Instr.body)])
            \o Marker("pop"))
  /\ IF Instr.name = Field THEN Differ("field's name") ELSE Agree
  /\ UNCHANGED <<locals, record, skipped>>

Arm ==
  /\ Op("match")
  /\ Splice(InnerCode(Instr.body))
  /\ Agree /\ UNCHANGED <<locals, record, skipped>>

\* The item of a loop as a local: push_local, the load, pop_local.
ItemLocal ==
  /\ \/ Op("push") /\ locals' = PushScope(locals, EmptyScope)
     \/ Op("item") /\ locals' = Define(locals, Instr.name, Instr.value)
     \/ Op("pop") /\ locals' = PopScope(locals)
  /\ Advance /\ Agree /\ UNCHANGED <<record, skipped>>

Return ==
  /\ result = "running" /\ code = <<>>
  /\ result' = "passed"
  /\ UNCHANGED <<test, mocks, evaluator, code, locals, record, skipped, differences>>

Execute ==
  \/ Begin \/ Dispatch \/ SkipCall \/ AssertOrTrap \/ LetLocal \/ SetRecord
  \/ Branch \/ Loop \/ Arm \/ ItemLocal \/ Return

-----------------------------------------------------------------------------
\* The instance of the module has run other tests, and calls, before.
Init ==
  /\ test \in Tests /\ mocks \in Responses
  /\ todo = In("test", test) /\ env = Fresh /\ verdict = "running"
  /\ code = <<>> /\ locals = <<EmptyScope>> /\ record \in Val /\ result = "none"
  /\ made = [come |-> 0, committed |-> 0] /\ skipped = FALSE
  /\ differences = {}

Next == Evaluate \/ Execute

Spec == Init /\ [][Next]_vars

-----------------------------------------------------------------------------
\* Properties

Settled == verdict # "running" /\ result \in {"passed", "failed"}

\* Both runs give the same verdict, and after a passed test show the same
\* field, whatever ran on the module's instance before, unless the test came
\* to one of these: a call with an argument (the compiled one traps), a call
\* inside a construct (it does nothing there; inside a match the evaluator
\* fails it), a capability call (with_responses against the host), an else
\* behind an `else if` (the runner has none), or a `let` or loop with the
\* field's name.  Arguments make the compiled test stricter, never laxer: as
\* long as they are the only difference, what it lets pass the evaluator
\* passes too.
SameOutcome ==
  /\ Settled /\ differences = {} =>
       /\ result = verdict
       /\ verdict = "passed" => Lookup(env, Field) = record
  /\ Settled /\ differences \subseteq {"argument"} =>
       (result = "passed" => verdict = "passed")

\* A test passes in the evaluator only if every call it came to committed, in
\* whatever construct it stood; and when it has passed, in either run, no
\* scope of its loops and arms is left over the field.
PassedClean ==
  /\ verdict = "passed" => made.come = made.committed /\ Len(env) = 1
  /\ result = "passed" => Len(locals) = 1
=============================================================================
