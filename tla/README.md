# A TLA+ model of the PEPL toolchain

PEPL is a small language for *spaces*: a state record, derived fields,
invariants, actions, views, and an optional game loop. This repository holds its
compiler (lexer, parser, type checker, WebAssembly generator) and a tree-walking
evaluator that serves as the golden reference for the generator. The modules here
model the parts where order matters: what happens to a space's state while calls
run, fail, return early and are rolled back, in the evaluator and in the compiled
module; what names and values mean to checker, generator and evaluator; what the two
test runners do with one test; how the generator numbers what it emits; and how lexer
and parser keep their bearings in a text with errors.

Paths below are relative to `src/crates/`.

## Inventory

| Part | State it keeps | Operations | Talks to |
|---|---|---|---|
| Environment `pepl-eval/src/env.rs` | a stack of scopes | push, pop, define, get, set, restore_global | Evaluator |
| Evaluator `pepl-eval/src/evaluator.rs` | environment, gas, log, mocks | eval_expr, eval_stmt, eval_block, for, match, lambda | SpaceInstance calls it; it calls the stdlib |
| SpaceInstance `pepl-eval/src/space.rs` | evaluator, credentials, declarations | dispatch, call_update, call_handle_event, set_credential, render, get_state | host, test runner |
| Test runner `pepl-eval/src/test_runner.rs` | a fresh instance per test | run_tests | SpaceInstance |
| Space exports `pepl-codegen/src/space.rs`, `stmt.rs`, `gas.rs` | globals gas, gas_limit, state_ptr, heap_ptr | init, dispatch_action, update, handle_event, render, get_state | host |
| Expressions `pepl-codegen/src/expr.rs` | none of its own | one emitter per expression | assembler's FuncContext |
| Runtime helpers `pepl-codegen/src/runtime.rs` | linear memory | alloc, value constructors, record_get, equality, arithmetic | compiled code |
| Assembler `pepl-codegen/src/compiler.rs` | data segment, lambda bodies, function table, source map | emit_functions, emit_exports, emit_elements, emit_data | all emitters |
| Compiled tests `pepl-codegen/src/test_codegen.rs` | none | emit_test_body | assembler |
| Type checker `pepl-compiler/src/checker.rs`, `env.rs`, `ty.rs` | scopes, narrowings, errors | one check per construct | pipeline |
| Pipeline `pepl-compiler/src/lib.rs` | none | type_check, compile, compile_to_result | all stages |
| Parser `pepl-parser/src/` | token position, error list | one function per production, synchronize | lexer's tokens |
| Lexer `pepl-lexer/src/lexer.rs` | position, interpolation stack | scan | parser |
| AST, errors, diff `pepl-types/src/` | error list capped at 20 | push_error, diff, validate_scope | all |
| Browser binding `pepl-wasm/src/lib.rs` | none | compile, type_check | pipeline |

Nothing in the repository runs concurrently. What is hard is the order of events
inside and across calls:

- **early exits**: `return`, a failing `assert`, a trap or exhausted gas leave a body
  in the middle of loops and match arms, each of which owns a scope;
- **atomicity**: a call must commit a good state or leave the old one, although
  derived fields and invariants are themselves expressions that can fail;
- **state that outlives a call**: gas, credentials, scopes a loop left behind,
  derived fields computed from an older state;
- **two implementations** that must agree call after call;
- **error recovery**: the parser drops what it was doing, skips tokens and goes on, with
  counters and flags left as they were; the lexer leaves a string in the middle;
- **three readings of a name**: the checker's scopes, the generator's name stacks and the
  evaluator's run-time scopes are opened and closed at different places;
- **sharing**: a compiled value is a pointer into memory that is never freed; the
  snapshot, the state, locals and lists share what they point to;
- **bookkeeping in the assembler**: addresses and indices are handed out from copies
  of counters, used in code already written, and added up again at the end.

What makes each part correct: a committed state satisfies the invariants and has
fresh derived fields; a rolled back call shows the old fields; scopes of one call
do not leak into the next; a view changes nothing; every call returns; the module
agrees with the evaluator; a use of a name yields what its scope says; a finished value
never changes and stands for the evaluator's; a test has one verdict; an allocated block stays intact; every export, table
slot, address and source map entry means what it was recorded for; lexer and parser
end on every text, lose nothing without an error, and limits on nesting hold after
errors too.

## Modules

| Module | Models | Lines of thought |
|---|---|---|
| `Environment` | env.rs | pure operators over a sequence of scopes; a scope is a total function and `Unbound` marks names it does not bind |
| `SpaceEval` | space.rs, the statements of evaluator.rs | one action per host call, statement kind and epilogue step |
| `TransactionalSpace` | the promise of the doc comment at pepl-eval/src/space.rs:172 | abstract specification: begin, commit a good state, or roll back; `SpecWithFaults` also allows a fault to leave any state |
| `SpaceWasm` | what pepl-codegen's space.rs, stmt.rs and gas.rs emit | one action per export entry, statement kind and epilogue step |
| `Parity` | both at once | `SpaceEval` and `SpaceWasm` composed by INSTANCE: the same calls and statements with the same values |
| `Names` | checker.rs and env.rs of pepl-compiler, FuncContext, the scopes of pepl-eval | a program is written statement by statement while checker and generator read it, then the evaluator runs it |
| `TestRuns` | test_runner.rs, test_codegen.rs | one test case run by both; a dispatch is one step |
| `BumpAlloc` | emit_alloc | 32-bit addresses wrap at `Word`; any word may be requested |
| `ValueHeap` | literals, field access, `set` and `for` of expr.rs and stmt.rs, init, dispatch_action and the exported alloc, the constructors, record_get and val_eq of runtime.rs, evaluator.rs | the emitted instructions over the memory of `BumpAlloc` (EXTENDS), beside the evaluator's values |
| `ModuleAssembly` | compiler.rs | one action per function opened, string interned, lambda registered, function closed, section written |
| `Scanner` | pepl-lexer | one character or one token a step, over all sources of bounded length |
| `Grammar` | the productions of pepl-parser | for each token and production the sequence that replaces it |
| `Parser` | parser.rs, the loops and counters of pepl-parser | a stack machine over `Grammar`: expecting, reporting, unwinding to the loop that catches a failure |
| `MC*` | – | constants for TLC |
| `SpaceEvalProofs` | – | lemmas about `Environment`; types and scope discipline of `SpaceEval`; how a call ends: commit, rollback, spent budget, rendering; credentials; that `SpaceEval` implements `TransactionalSpace` |
| `ParityProofs` | – | that evaluator and module show the same state; uses `SpaceEvalProofs` by INSTANCE |
| `RuntimeProofs` | – | theorems about `SpaceWasm` and `BumpAlloc` |
| `NamesProofs`, `ScannerProofs`, `ModuleAssemblyProofs`, `ParserProofs`, `TestRunsProofs` | – | theorems about the module each is named after |

### How the evaluator's state and actions correspond

A program is not part of the state. `SpaceEval` allows, at every point of a body, any
statement with any value, so its behaviours are those of every program over the
given fields and locals; what an action body may do to the state is exactly `set`
(`SetStmt`), and what it may do to scopes is `let`, `for` and `match`. Derived
fields and invariants are the constants `Derive` and `Holds`, which receive the view
of the environment that an expression has (`View`: each name resolved innermost
first). Expressions that fail are `Fail` in bodies, the value `Trap` in derived
fields, and `~Holds` in invariants, because check_invariants turns an error into a
violation.

| Code | Model |
|---|---|
| `env.scopes` | `env`, element 1 the global scope |
| `gas_used` | `gas`, one unit per statement or top-level expression, capped one past the limit |
| the Rust call stack of eval_block, eval_for_expr, eval_match_expr | `frames` |
| where dispatch stands | `phase`, `idx` |
| the local `snapshot` | `snapshot`; `EmptyScope` between calls |
| `Result<ActionResult>` | `outcome` |

An `Err` (also `Return`) travels up by `?`: a match pops its scope on the way, a for
loop does not, and dispatch pops one scope itself. `Unwound` is the stack after that;
note that over abandoned loops the scope dispatch pops is not the one it pushed.

`before` and `abandoned` are history variables for the properties.

### How the compiled module's state and actions correspond

`state` is the record behind `state_ptr`. `set` builds a new record, so the snapshot of
dispatch_action is a pointer and rollback one assignment. A trap ends the export
and nothing else runs; the host may call again. `entry` remembers which export was
entered, `returned` whether the body ended by the WebAssembly `return`. Gas ticks at
calls and loop headers, so a step that may contain a call may tick (`MayTick`).

An export is one WebAssembly function and one FuncContext: all action bodies, the derived
fields and the invariants of `dispatch_action`, one body and the derived fields of `update`
and `handle_event`, the defaults and the derived fields of `init`. emit_let never pops
(pepl-codegen/src/stmt.rs:318) and emit_identifier finds a local before a field
(expr.rs:506), so a `let` of any body hides a field of its name from every derived field and
invariant behind it, in calls that execute another action too, where the local was never set
and is the pointer 0. The constant `Lets(e, p)` says which names part `p` of export `e` leaves
bound, `Reads(p)` which names an expression reads; `locals` are the values of those locals, and
expressions are evaluated over `Seen`: the local where one is bound, else `WasmView`, the
record. `DispatchSound` and `DerivedFresh` hold of every invariant and derived field that is
`Clear`: reads no name bound before it. For the others the promise is not kept: where an
action has a `let x` in its body and the space a field `x`, an invariant on `x` tests the local,
and dispatch_action keeps a record that violates it (take `{"x"}` for `Lets("dispatch", 0)` and
check that `RecordGood` holds of an unreturned `dispatch_action` that is done).

### How names correspond

`Names` writes a program one statement a step, in the order in which the generator emits
it: `tenv` is TypeEnv, `locals` and `keys` are the stacks and the keys of `local_names`. A
use of a name records what each takes it for (`check`, `code`). When the program is
complete, `pc` runs through it: `env` is the evaluator's stack of scopes, `frames` the Rust
recursion, `closure` the environment a lambda cloned. `state` is history: the value each
field has by lexical scoping. The properties name the ways in which they differ:

- generator: `let` is never popped, so it lasts beyond its block, into later actions and
  into the invariants and derived fields of dispatch_action (stmt.rs:318, space.rs:157);
  a lambda captures names whose stack is empty as local 0 (expr.rs:135);
- evaluator: a block of `if` has no scope and all items of a loop share one; `set` assigns
  a local of the same name; loops left by `return` leave scopes that hide fields; a
  lambda sees a clone and loses its own `set`; a view's parameters are not bound and its
  lets stay in the global scope;
- checker: an `if` in a view opens no scope, and a narrowing is entered around the `if` and
  stays; the names of a match arm are bound only if the subject's type gives them types: over
  a subject that is no sum type and no Result check_match_expr binds nothing and reports
  nothing (checker.rs:1484). `BeginMatch` has both kinds of arms. In an arm of the second kind
  (`unseen`) the checker takes the name for what it is outside, while generator and evaluator
  bind it; a use of it there is excused in `GeneratorAgrees` and `EvaluatorAgrees`, a `set` of
  a field of that name in `StateLexical`, a narrowed name in `NarrowSound`. Of a subject whose
  type the checker knows it is assumed that the value has that type, so that an arm of the
  first kind binds its names whenever it is entered; one of the second kind may be entered
  without, and its names may be nil.

### How test runs correspond

`todo` and `env` are the runner's recursion and the instance's environment, `code`, `locals`
and `record` those of `__test_N`. `Effect` says what an action makes of the field.
`differences` collects what `SameOutcome` excuses: a compiled call drops its arguments and
then traps on the missing parameter; it is not dispatched inside `if`, `for` and `match`;
`with_responses` is unknown to the module; the runner drops the last `else` of an `else if`
chain (test_runner.rs:195) and fails a call inside `match`; a `let` with a field's name
overwrites the field in the evaluator.

### How values correspond

`Emit...` in `ValueHeap` are the emitters of the same names; they give sequences of
instructions, of which each allocates at most once, so that every allocation is a step of
`BumpAlloc` and may fail. `vars` are the WebAssembly locals and state_ptr. The evaluator
executes a statement (`done`) when its code has run; `SameValues` compares `Denote` of the
pointers with the evaluator's values at every other point. A word of the model is four
bytes, the eight bytes of a number and a key's pointer and length are one word each.
`differences` collects what `SameValues` excuses:

- only the first spread of a literal is copied, and explicit fields written before it
  override it (expr.rs:292);
- without a spread, of two equal keys the first is found; the evaluator keeps the last;
- a nested `set` of a key that is not there is dropped (stmt.rs:191) and inserted by the
  evaluator; reading one gives nil and is an error there;
- a spread of nil is an empty record and an error there.

The host may call the exported alloc between two calls or behind them (`HostAlloc`), with any
word. alloc adds it to the pointer without a look at the carry (runtime.rs:151): a size of
nearly 4 GiB gives a sum that wraps around, the comparison with the memory's end passes, the
pointer falls back, and what is allocated next may lie over static data or live values.
`BlocksInMemory` says that only requests larger than all addresses above the largest memory do
so, and that the blocks of all others lie in memory; `BlocksDisjoint` holds until the first of
them. The emitted code asks for such a size where an untyped value that is a number is spread
or set into: its second payload word is taken for a number of entries (expr.rs:310,
stmt.rs:203). The programs of the run spread and set into records and nil only, and run no
action after a request that wraps: what code does in memory it shares is not followed.

Checked programs reach the last two through optional fields. `val_eq` compares the payload
words of records, lists and variants, so equal contents are equal only when shared
(runtime.rs:428), against structural_eq of the evaluator: `EqSound` is the direction that
holds. Numbers are compared by bits, so -0.0 differs from 0.0 and NaN equals itself, which
the model's numbers do not show.

### How the assembler's state and actions correspond

`funcs` is the code section beyond imports and runtime helpers. `NewContext` copies the
compiler's counters as make_func_context does, `InternNew` and `RegisterLambda`
change the copy, `Merge` writes it back. `Exports`, `Element` and `Segment` compute the
sections from the counters as the code does, and `Validates` stands for wasmparser's
check of function indices. `refs` and `closures` are history: what the emitted code
refers to.

### How the scanner's state and actions correspond

`peek` and `peek_1` are the two characters the code looks at; a character is chosen when
it comes into sight, so the runs cover every source. `at` is where the Rust code
stands: in `lex`, `scan_normal` and the loops below it. The recursive calls of
`scan_normal` after an error or a block comment are a return to `normal`. `open` is
history: what the emitted tokens have left open, computed from the tokens alone.

### How the parser's state and actions correspond

| Code | Model |
|---|---|
| the Rust call stack of the `parse_` functions | `stack`, what each has still to do, the next first |
| a `parse_` function | a production of `Grammar`; its rest after a look at the token is a production of its own |
| `expect(..)?` | a token on the stack: `Expect`, or `Unexpected` with its report |
| `while ... { if let Some .. else synchronize }` | a loop name on the stack: `Body`, `After`, and `GivesUp` for too_many_errors; the end of an iteration under way is marked `catch` |
| a `None` passed on by `?` | `Unwind`: everything up to the nearest `catch` is dropped. A construct whose `{` is missing has not begun an iteration, so the loop around it catches; without one parse_program returns |
| `for_depth += 1` and `-= 1` around `?` | marks `for+` and `for-` on the stack: the second is dropped by an unwinding |
| `last_order`, the `Option` of each block | `last`, `seen` |

The tokens are chosen as they are reached, so a run covers every continuation of its
prefixes, whether or not a lexer would deliver it. `begun` is history.

## Runs

| Run | Question | Result |
|---|---|---|
| `SpaceEval` | Does the evaluator commit only good states, restore on rollback, keep its stack, show current credentials, stop when gas is spent, render without effect, return from every call, and implement `TransactionalSpace` with faults? | holds |
| `SpaceWasm` | Does the module check invariants, recompute derived fields, restore the very record, and stop the game loop when gas is spent? | holds for bodies that do not `return`, and for derived fields and invariants that read no name a `let` before them has bound |
| `SpaceWasmReturn` | Also for bodies that `return`? | no: return skips the epilogue |
| `Parity` | Do the two show the same state and verdict? | holds up to two named differences |
| `Scanner` | Do the tokens of strings and interpolations nest, is an open string always reported, does the stream end with eof, and does scanning end? | holds, with one exception: a comment at the end of the source hides an open string |
| `Parser` | Are tokens lost only after an error, are nesting limits and block order enforced after errors too, and does parsing end? | holds, except that two loops may not end |
| `ParserHangs` | Does parsing end on every input? | no: the loops over capabilities and over the props of a component do not look at the error limit |
| `Names` | Do checker, generator and evaluator agree what a use of a name refers to, is it bound, is a narrowed value not nil, and does the host see what was last `set`? | holds up to the ways named above, arms unknown to the checker among them |
| `TestRuns` | Do the two runs of a test give one verdict and one field? | holds up to five named differences; a test passes only if every call it came to committed |
| `ValueHeap` | Are finished values immutable, do they stand for the evaluator's values, is val_eq sound, does the code use memory as the allocator allows, and do blocks lie in memory and apart, whatever the host asks for? | holds up to five named differences; blocks are apart until a request wraps around the address space |
| `ModuleAssembly` | Do exports, table slots, string addresses and source map entries name the right thing, and is a module rejected only for a lambda registered late? | holds; a lambda inside a lambda or a test is in the table and never compiled |
| `ModuleAssemblyInvoke` | Does invoke_lambda reach the lambda's body? | no: the value carries a function index |

Each property of a passing run has a seeded defect, an operator named
`<Definition>_<Defect>` next to the definition it replaces; with the defect TLC finds
the property violated.

### Bounds, and why they are enough

- **SpaceEval**: two fields under the invariant `x <= y`, so that a body passes through
  bad states on the way to good ones; two chained derived fields, of which the first
  can trap (the error between two derived fields, and the trap inside a rollback);
  one credential; loops of up to two items (the shortest with an iteration after the
  first). `GasLimit = 7` is one tick more than a call needs that sets a field, violates
  the invariant and is rolled back with both derived fields recomputed, so that another
  call follows it, or the field is set in a loop; two ticks more than one that leaves
  a loop by `return` and commits over the scope left behind;
  running out of gas is reached in every phase. `MaxFrames = 2` nests loops and match
  arms in each other, both ways round. Derived fields and invariants are read through `View`, so two values
  per field tell all cases apart that the properties distinguish.
- **SpaceWasm**: some action leaves the name of the derived field `d` bound, which the
  second derived field reads, and `update` the name of the field `x`, which the first one
  reads; the locals are unset, set, or set again before they are read. An invariant reads what
  was computed from one of them. Three values, so that a trapping default of the derived
  field, a trapping invariant and a plainly violated one are different states;
  `GasLimit = 3`; `MaxLoops = 1` (a loop's own state is only its remaining items).
- **Parity**: `MaxLoops` and `MaxFrames` are 2; `EvalGas = 7` is the budget of the whole run: enough for a failing call
  and a call rolled back after it. `WasmGas` is large enough never to be reached:
  the two count different things and agree on nothing once a budget is spent.
- **Scanner**: sources of up to `MaxChars = 10` characters, enough for a string with an
  interpolation inside a string with an interpolation (`"${"${}"}"`); one character of
  each kind the scanner branches on; `MaxErrors = 2`, where the code has 20: the limit is
  reached between any two tokens, and a third error would only repeat the first two.
- **Parser**: seventeen prefixes that lead into the middle of each construct, followed by
  up to `MaxTokens = 5` of 29 kinds of tokens: enough to make an error, resynchronize,
  and go on in the caller's loop. `MaxErrors = 3`, and the nesting limits 2 for expressions and
  1 for the others, where the code has 20, 16, 3, 3 and 4, so that five tokens
  reach them. `MaxParams = 1` instead of 8. `ParserHangs` needs three tokens. Parsing ends, so
  deadlock is not checked in either, nor in `Scanner`.
- **Names**: one field and one other name (a second name of either kind is bound and read in
  the same way), programs of up to seven statements that draw on one of nine
  repertoires: the constructs that can meet in one scope, and those that leave something
  behind with those that find it. Two calls, loops of up to two items. Seven statements
  suffice for an action that leaves a name behind and a second one that reads it in a
  block. The exception of `NarrowSound` for arms unknown to the checker takes eight, one more
  than the run has: an action, a `let` of a nullable name, the `if` that narrows it, the arm,
  the use, and three ends.
- **TestRuns**: three statements, constructs two deep, an action with an argument, one that
  asks a capability, values 0 to 2 of which 2 violates the invariant and fails the next
  call; with none, one or two mocked responses.
- **ValueHeap**: every record literal of up to three entries over three explicit fields (two
  with one key, one nested) and two spreads, as the value of a `set` after a `let`; paths
  of length two and three; loops that set a path; each followed by a second call that
  aliases, reads through or copies what the first left, and with commit or rollback of
  each; up to four requests of the host in a fresh instance or behind a call, of nine sizes
  on both sides of those that fit, that grow the memory, that fail and that wrap (912 is the
  least that can). 112 words in pages of 16: most programs end, the longest run out of memory, and
  memory.grow may fail at each growth before. Values are four deep at most and `Depth`
  is 5; no array has more than `MaxEntries` entries. The program ends, so deadlock is not
  checked, as in `Names` and `TestRuns`.
- **ModuleAssembly**: three string constants, one empty, at most four interned; three
  lambdas; two tests; update and handle_event each present or not. Overlapping strings
  need two functions that intern; misnumbered tests need two tests and a lambda.
  `ImportCount = 4` and `RtFuncCount = 31` are the code's. Compilation ends, so
  deadlock is not checked.

### Fairness

A call is a synchronous function call: once begun, its next step is taken. `FairSpec`
therefore assumes weak fairness of `Stmt \/ Finish`, and none of the host: it need
not call again. `CallsReturn` then rests on gas alone, since the model lets a body
loop and nest as it likes: every statement and every derived or checked expression
ticks. The steps that cost no gas (next item, leaving a loop or arm, the end of the
body) only consume frames and items that ticks have paid for.

Scanning and parsing are single synchronous calls: `FairSpec` of `Scanner` and `Parser`
assumes weak fairness of `Next`. That the scanner ends rests on the source being
finite; that the parser does, on the limit of errors, since a loop may resynchronize
without advancing.

## Proofs

All are checked by TLAPS for every value of the constants that satisfies the named
assumptions.

- `EvalTypes`, `StackSuffices`, `StackBalanced` (`SpaceEvalProofs`). `TypeOK` alone is not
  inductive: `PopScope` could leave a stack too short for the frames still open. The
  strengthening `StackInv` relates the length of `env` to the phase and the number of
  frames, with equality when nothing was abandoned; `RestOK` fixes the rest.
- `CommitIsSound` (`SpaceEvalProofs`). `CommitInv` says, by phase, which derived fields are
  already those of the current view and which invariants were found to hold. One
  assumption carries it: a derived expression reads no derived field declared after it
  (`DeclarationOrder`), so computing the next one does not spoil the ones before. It needs
  no hypothesis about shadowing: check and commit see the same scopes.
- `RollbackIsExact`, `RenderIsPure` (`SpaceEvalProofs`), for spaces where no local has the
  name of a field (`NoShadow`). The invariant says that every field is
  bound in the global scope only, and that the snapshot holds `before`. Without
  `NoShadow` neither holds: render_view pushes no scope, so a view's `let x` over a field
  `x` lands in the global scope, where the field is (pepl-eval/src/space.rs:297; the
  checker looks for an earlier declaration in the current scope only).
- `SpentIsFinal` (`SpaceEvalProofs`), for spaces that evaluate at least one derived field or
  invariant after the body (`Evaluates`). The budget is one for the life of an instance,
  and an empty body takes nothing from it: without such an evaluation a call commits on an
  exhausted instance. `GasInv` says that whatever was evaluated behind the body was paid
  for.
- `CredentialsAreSeen` (`SpaceEvalProofs`), for spaces where no local has the name of a
  credential (`NoCredShadow`). The host sets credentials in the innermost scope, which
  after an abandoned loop is not the global one, and a rollback replaces the global scope.
  `CredInv` says that each credential is bound to what the host set in one of the first
  `Height` scopes, those that no exit of the running call can pop, unbound further in,
  and in the snapshot as in the global scope.
- `EvaluatorKeepsPromise` (`SpaceEvalProofs`): under `NoShadow` and `NoCredShadow` every
  behaviour of `SpaceEval` is one of `TransactionalSpace` with faults. Each step maps to a
  step or a stutter: a dispatch to the abstract begin, the last check to the commit, the
  end of the recomputation to the rollback, errors to faults. The abstract commit wants
  invariants of the *fields*, the code checks them over its environment: this is where
  `InvariantReads` (the verdict of an invariant depends on fields and credentials only) and
  all the invariants above are used together.
- `WasmTypes`, `DispatchIsSound`, `DerivedIsFresh`, `WasmRollbackIsExact`, `SpentTraps`
  (`RuntimeProofs`). None of the properties is inductive: each speaks of an ended call.
  `CallInv` says what a running one has achieved: within `dispatch_action` the snapshot is
  `before`, the derived fields below `idx` are fresh, in the checks all are and the
  invariants below `idx` hold, and gas stays within the limit. `WasmOrder` is the
  counterpart of `DeclarationOrder`. Bodies that `return` are excluded from
  `DispatchSound` and `DerivedFresh`, as the run `SpaceWasmReturn` shows they must be, and so
  are the invariants and derived fields that read a name some `let` before them has left
  bound. Which names those are (`Lets`) and what their locals hold is arbitrary: the proof
  needs that what is `Clear` has the same value over `Seen` as over the record (`WasmReads`:
  an expression depends on the names it reads), and that this is the same set for a derived
  field when it is computed and when the call is over.
- `SameForTheHost` (`ParityProofs`): evaluator and compiled module show the host the same
  state. `Joint` says how the two stand to each other at every step. In a body they are in
  step. The epilogues run one after the other and differ: one stops at a trap, one restores
  a scope and recomputes, the other restores a pointer. So what the evaluator has done must
  settle what the module will do: `Accepts`, `Rejects` (some record with the module's
  fields and fresh derived fields breaks an invariant) or `GetsStuck` (at which derived
  field). This rests on `DerDetermined`: a derived field is a function of the fields and
  the derived fields before it, which follows from `WasmOrder` by exchanging the later
  ones one at a time. `GlobalInv` reduces the evaluator's scope stack to its global scope.
  The hypotheses: `NoShadow`, no local has the name of a field or a credential (with `Local = {"x"}` in
  the run's constants TLC finds a `set` that reaches the local in one and the record in the
  other); `NeverTraps`, no invariant traps in the module, where the evaluator counts an error
  as a violation; `Within`, the module's budget is not reached, since the two budgets count differently;
  and `SameExpressions`, that an expression has the same value in both where the fields,
  derived fields and credentials have, which is what the expression compiler is for and
  these models do not look into. `Parity` takes the module with `NoLets`: no local is left
  bound under a name that an expression reads. The two named differences of the run are in `spoiled`.
- `GeneratorReads` (`NamesProofs`): `GeneratorAgrees` for programs of any length, with any
  names, nested in any way. The property speaks of single uses; what makes it inductive is
  that both compilers get back to where they stood when a construct ends, the checker by
  dropping scopes (`Leave`), the generator by popping the one name the construct bound, or
  by returning to the function a lambda stands in. The invariant `NamesInv` therefore
  remembers, in `Levels`, the number of scopes and all name stacks as they were when each
  open construct began (`b`, `l`). It says that popping leads from one level to the one
  below (`Returns`), and that at every level each name is settled (`Settles`): the top of
  its stack is the innermost binding in the scopes of that level, or a match arm around the
  level binds the name unknown to the checker and further in than that binding (`Claim`, over
  the `Arms`), or a `let` of it has leaked (`Leaky`), or will have when the constructs above
  are over (`LetAbove`).
  The last is why the promise is kept level by level: inside the block of a `let` checker
  and generator agree on the name, though the level below is already lost. The captures of
  a lambda need that a name with a stack has a key (`KeysCover`); the first view is a new
  function, in which nothing has leaked (`FirstViewKeeps`). Narrowing binds a name again
  further in, to the same place (`KeepsScopes`). That an arm that begins now is further in than all
  that is bound needs that bindings are of earlier statements (`Earlier`). It assumes of the constants only that
  `NoName` is no name and `Unbound` no value.
- `AllocType`, `AllocInMemory`, `AllocDisjoint` (`RuntimeProofs`). The sizes
  are any words (`SizeAssumption`), in any order, in any memory smaller than the address space.
  `AInv` adds that, until a request wraps around, every block ends at or below the heap
  pointer, and at all times the pointer at or below the memory's end: the last is why the
  blocks after a wrapped request are in memory again, and why a request that wraps is larger
  than all addresses above the largest memory.
- `ScanTypes`, `StreamEnds` (`ScannerProofs`). `TypeOK` says that the bottom of the mode
  stack stays and that brace depths are natural numbers; it needs that only a string is
  continued (`ScanInv`), for that is where the stack is popped.
- `BracketsNest`, `OpenStringsReported` (`ScannerProofs`). The lexer's mode stack and the
  emitted tokens are two stacks that nobody compares. `Nested` says that they are one:
  there are positions (`p`, in `Laid`) at which the modes cut the open tokens into levels,
  each level a string start and `${` with as many braces above as the mode counts. The
  levels deeper in do not change while the top one does, which is what the lemmas
  `LevelKept` and `TopLevel` are for.
- `StringsFound`, `SlotsHoldTheirLambda`, `ExportsNameTheirFunction`, `OnlyLateRejects`
  (`ModuleAssemblyProofs`). `AssemblyInv` relates the counters that the code keeps apart:
  the data offset is the length of the data (`StringInv`); lambdas are numbered in the
  order of their bodies (`BodyInv`); the function section is the space's five to seven
  functions, invoke_lambda, the first `Done` lambdas, the tests, the test count, in this
  order (`Layout`); what was recorded in the function table or the source map is the
  function at that index, or the one now being emitted (`Recorded`). A lambda at or
  beyond `Done` was never compiled (`NotReached`), so every mismatch is one of those.

- `SkipsAfterErrors`, `CountersCover`, `AcceptsWellFormed` (`ParserProofs`), for inputs of
  any length and any limits. The stack holds what the functions of the parser still have
  to do, and the invariant `Core` says what may stand where on it (`Placed`: a statement
  only behind its skipped newlines and never at the end of a block, nothing under a program
  but its end, an entry mark of a counter only next to the top) and that until the first
  error whatever skips or returns None has a report before it (`Guarded`). Without
  `Placed` this is not inductive: parse_statement returns None at the end of a block
  without a report (pepl-parser/src/parse_stmt.rs:33), and that no caller lets it is a fact
  about where statements stand. `DepthOK` adds that a counter is the number of exits less
  entries on the stack (`Opened`), exactly for expressions, for the others until the first
  error and never less after it, because unwinding drops exits without running them.
  `AcceptOK` adds what has been seen and will still be: the state block or the mark that
  misses it, and for every single block that began the mark that records it, ahead of the
  next turn over the blocks (`Pending`). An unwinding ends at a `catch`, behind which stands what
  follows an iteration of a loop that has been entered. Every production keeps `Core` and the balance by
  the shape of its items alone (`Shape`, `Fits`), so the grammar is gone through once, and
  the actions once per invariant.
- `PassesCleanly` (`TestRunsProofs`). `CleanInv` says that what is left to execute closes
  all but one of the open scopes, never going below one on the way (`Balanced`). A
  construct splices statements that close what they open (`Neutral`); for a loop this is an
  induction over its items, for FlattenSeq concatenates one turn per item.
  `StatementsAssumption` says what the parser makes of a test body, and that the parts of
  a statement are statements.
- `OneVerdict` (`TestRunsProofs`): `SameOutcome`, for every test, every action and every run
  before it on the module's instance. The compiled test starts when the evaluator's is over,
  so the invariant `OutcomeInv` keeps the evaluator's run as a `Trace` of points, and says
  that the compiled test stands alongside one of them: level with it (`Level`), or, the
  evaluator being at an `if`, already at its `else if` (`Behind`), which is another `if` in
  the module and part of the same one in the evaluator. To be level is to be `Abreast`:
  the least relation, closed under one rule per construct, between what the two have left
  to execute and their scopes above the bottom one. The rules count the scopes that only
  one of the two opens: the evaluator's round the arm of a `match` and for each item of a
  loop, the compiled test's one round a loop. The last is the rule `TurnRule`: where the
  compiled loop goes on with its next item, the evaluator has a pop and a push before it
  (`Turns`), so there it takes three steps to one. That the loops of both, however many
  their items, are unrolled into related pieces is an induction over the items
  (`TurnsAbreast`). The bottom scopes hold the same but for the field, which the compiled
  test keeps in the record. Nothing is assumed of the scoping of a test: a name that stands
  for nothing is an error in the evaluator and nil in the module (`Value`), and no assert
  on it holds in either. `StatementsAssumption` says what the parser makes
  of a test, and puts its `let`s at the top; `TestRunsAssumption` that fields and
  locals have different names and that actions yield values.

Only model-checked, and why:

- `CallsReturn`, `Ends` (`Scanner`), `HaltsIfCapped` (`Parser`): liveness under
  fairness is out of the prover's reach, as is ENABLED.
- `ValuesImmutable`, `AllocatorObeyed`, `SameValues`, `EqSound` (`ValueHeap`): what a pointer
  stands for and the code of an expression are recursive operators.
- `EvaluatorAgrees`, `NarrowSound`, `StateLexical` (`Names`): about a run of the written
  program. A proof has to say where in the finished text every scope, frame and closure of
  the evaluator stands, through loops, early returns and late calls of lambdas (see the plan).

## Not modelled

- The values of expressions (operators, stdlib calls, string formatting), the shape
  of rendered surfaces, logs, mock responses.
- In `ValueHeap`: strings, variants, lambdas, colors and action references (constructed
  like a list, never looked into by `set`), loop indices, `host_call`; defaults are literals.
  The checker lets others through unchecked (checker.rs:341, `b: number = a + 1`): the
  evaluator finds `a`, the compiled init reads the record behind a state_ptr of 0 and traps.
- Calls of actions from action bodies: the checker accepts them, the evaluator answers
  UnknownFunction (evaluator.rs:159), the generator emits nil (expr.rs:534).
- Errors of a call: the evaluator returns the error and keeps the `set` statements before
  it; `TransactionalSpace` has the step `Fault` for it.
- What a lambda computes, and its budget; `Names` models what its names refer to.
- `return` and credentials in `Parity`: the module treats them differently from the first
  use (see `SpaceWasmReturn`, and emit_identifier in `pepl-codegen/src/expr.rs:505`,
  which emits nil for a credential).
- A trapping invariant in the compiled module leaves the body's record in force
  (`EpilogueTrap`), where the evaluator rolls back; `Parity` takes invariants that do
  not trap.
- `update` and `handleEvent` check no invariants in the module (pepl-codegen/src/space.rs:540)
  and are rolled back by the evaluator: the first of the two differences `Parity` names
  (`spoiled`); the second is a rollback after a failed call, where the evaluator
  recomputes derived fields that the module restores as they were.
- In the scanner: spans, the text of tokens, bytes beyond ASCII. In the parser: the tree,
  the wording of errors, and whether an identifier is reserved.
- The bound of the data segment: the code has none (types.rs:103 reserves 4 KiB).
- In the checker: types of expressions other than nullability, exhaustiveness, capabilities,
  stdlib signatures. In the test runners: budgets, error texts, the summary.
- Pipeline, stdlib tables, reference text, browser binding: sequences of pure calls or
  tables without state; AST and its diff: data types and one structural comparison.

## Plan

In this order, each with its run and, where stated, its theorems.

1. Theorems for the run-time half of `Names` (`EvaluatorAgrees`, `StateLexical`), on top of
   the invariant of its compile-time half.
2. Operators, string conversion and comparison of runtime.rs and evaluator.rs as pure
   operators compared over bounded values.
3. The diff of two programs (pepl-types/src/ast_diff.rs) against a reference definition.
