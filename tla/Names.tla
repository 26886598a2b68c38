-------------------------------- MODULE Names --------------------------------
(***************************************************************************)
(* What a name means, three times: to the type checker (TypeEnv and the    *)
(* scopes of pepl-compiler/src/checker.rs), to the code generator (the     *)
(* name stacks of FuncContext, pepl-codegen/src/compiler.rs) and to the    *)
(* evaluator (the scopes of pepl-eval at run time).                        *)
(*                                                                         *)
(* A program is written statement by statement, in the order in which the  *)
(* generator emits it; only what the checker accepts is written, and each  *)
(* use of a name records what checker and generator take it for.  Then the *)
(* evaluator runs it, call by call.  A binding is known by the place of    *)
(* the statement that makes it, and a state field by 0.                    *)
(***************************************************************************)
EXTENDS Integers, Sequences, FiniteSets

CONSTANTS
  Field, Local,   \* the state fields; the other names a program may bind
  NoName, Unbound,
  Repertoires,    \* sets of kinds of statements: a program draws on one
  MaxStatements, MaxCalls, MaxItems

Name == Field \cup Local

ASSUME NamesAssumption ==
  /\ NoName \notin Name
  /\ MaxStatements \in Nat /\ MaxCalls \in Nat /\ MaxItems \in Nat

VARIABLES
  \* the program and its compilation
  repertoire,
  prog,     \* the statements
  open,     \* the places of the constructs still open
  tenv,     \* the checker's scopes: a name's binding, and whether its type
            \* admits nil
  locals,   \* local_names: for each name a stack of bindings
  keys,     \* the names local_names has an entry for, empty stacks included
  outer,    \* the generator's context around a lambda
  \* a run of it
  pc,       \* the statement to execute; 0 between calls
  env,      \* the evaluator's scopes
  frames,   \* the loops, arms and lambdas the run is inside
  closure,  \* the lambda value not yet called, if any
  calls,
  state,    \* history: the value each field has by lexical scoping
  seen,     \* history: the last use of a name
  abandoned,\* history: some loop was left by `return`
  lambdaSet \* history: a lambda executed a `set`

compilation == <<repertoire, prog, open, tenv, locals, keys, outer>>
run == <<pc, env, frames, closure, calls, state, seen, abandoned, lambdaSet>>
vars == <<repertoire, prog, open, tenv, locals, keys, outer, pc, env, frames,
          closure, calls, state, seen, abandoned, lambdaSet>>

Binding == [at : Nat, nullable : BOOLEAN]
Value == [by : Nat, call : Nat, nil : BOOLEAN]
Val == Binding \cup Value

\* What stands for no binding is not one.
ASSUME UnboundAssumption == Unbound \notin Val

INSTANCE Environment

Bind(n, v) == IF n = NoName THEN EmptyScope ELSE [EmptyScope EXCEPT ![n] = v]

Here == Len(prog) + 1
Idle == pc = 0
Writing == Idle /\ calls = 0 /\ Here <= MaxStatements
Innermost == open[Len(open)]
Inside(kind) == \E i \in DOMAIN open : prog[open[i]].kind = kind

Units == {"action", "epilogue", "view"}

\* end: where the block ends, once it has; in: the block the statement
\* stands in; shadows: the name it binds or sets was visible as a local (or,
\* for a binding, at all); unseen: the name is the binding of an arm the
\* checker does not know of; check, code: what a use refers to.
Statement(kind, n) ==
  [kind |-> kind, name |-> n, end |-> 0,
   in |-> IF open = <<>> THEN 0 ELSE Innermost,
   nullable |-> FALSE, shadows |-> FALSE, unseen |-> FALSE,
   check |-> 0, code |-> 0]

-----------------------------------------------------------------------------
\* The checker

Bound == [at |-> Here, nullable |-> FALSE]

\* check_block; an `if` in a view has no scope.
BlockScopes == IF Inside("view") THEN <<>> ELSE <<EmptyScope>>

\* How many scopes a construct opened: an action has one for its parameters
\* and one for its body.
Depth(kind) ==
  CASE kind = "action" -> 2
    [] kind \in {"if", "else"} -> Len(BlockScopes)
    [] OTHER -> 1

Leave(scopes, kind) == SubSeq(scopes, 1, Len(scopes) - Depth(kind))

\* apply_nil_narrowing: before the block is entered, in the scope around it.
Narrow(n) ==
  IF n # NoName /\ Lookup(tenv, n).nullable
  THEN Define(tenv, n, [Lookup(tenv, n) EXCEPT !.nullable = FALSE])
  ELSE tenv

\* check_match_expr binds the names of an arm if the type of the subject tells
\* it their types, and else nothing: the name is what it was outside the arm,
\* to the checker alone.
Unseen(n) ==
  \E i \in DOMAIN open :
    /\ prog[open[i]].kind = "match" /\ prog[open[i]].name = n
    /\ prog[open[i]].unseen /\ Lookup(tenv, n).at < open[i]

-----------------------------------------------------------------------------
\* The generator

Local0 == -1     \* the function's first parameter
NoLocal == -2    \* nil

Top(n) == locals[n][Len(locals[n])]

\* emit_identifier
Resolve(n) ==
  IF locals[n] # <<>> THEN Top(n) ELSE IF n \in Field THEN 0 ELSE NoLocal

PushLocal(n) ==
  /\ locals' = IF n = NoName THEN locals
               ELSE [locals EXCEPT ![n] = Append(@, Here)]
  /\ keys' = keys \cup ({n} \ {NoName})
  /\ UNCHANGED outer

\* Seeded defect: the item of a loop or the binding of an arm stays.
PopLocal_Keeps(n) == UNCHANGED <<locals, keys, outer>>

PopLocal(n) ==
  /\ locals' = IF n = NoName \/ locals[n] = <<>> THEN locals
               ELSE [locals EXCEPT ![n] = SubSeq(@, 1, Len(@) - 1)]
  /\ UNCHANGED <<keys, outer>>

\* emit_lambda and the body's own context: every name with an entry is
\* captured, save the parameter; one whose stack is empty as local 0.
EnterLambda(n) ==
  /\ outer' = [locals |-> locals, keys |-> keys]
  /\ keys' = keys \cup ({n} \ {NoName})
  /\ locals' = [m \in Name |->
       CASE m = n -> <<Here>>
         [] m # n /\ m \in keys ->
              <<IF locals[m] = <<>> THEN Local0 ELSE Top(m)>>
         [] OTHER -> <<>>]

NoOuter == [locals |-> [n \in Name |-> <<>>], keys |-> {}]

LeaveLambda ==
  /\ locals' = outer.locals /\ keys' = outer.keys
  /\ outer' = NoOuter

-----------------------------------------------------------------------------
\* Writing an accepted program

Write(s) == prog' = Append(prog, s) /\ UNCHANGED <<repertoire, run>>

BeginBlock(s, scopes) ==
  /\ Writing
  /\ Write([s EXCEPT !.shadows = s.name # NoName /\ IsBound(tenv, s.name)])
  /\ open' = Append(open, Here)
  /\ tenv' = scopes

Begin(kind, n, scopes) == BeginBlock(Statement(kind, n), scopes)

\* Nothing later in the order of emission has begun.
Before(kinds) ==
  open = <<>> /\ \A i \in DOMAIN prog : prog[i].kind \notin kinds

BeginAction(n) ==
  /\ Before({"epilogue", "view"})
  /\ Begin("action", n, tenv \o <<Bind(n, Bound), EmptyScope>>)
  /\ PushLocal(n)

\* The derived expressions and invariants, behind the actions in the same
\* function.
BeginEpilogue ==
  /\ Before({"epilogue", "view"})
  /\ Begin("epilogue", NoName, Append(tenv, EmptyScope))
  /\ UNCHANGED <<locals, keys, outer>>

\* The views are a function of their own.
BeginView(n) ==
  /\ Before({})
  /\ Begin("view", n, Append(tenv, Bind(n, Bound)))
  /\ IF Before({"view"})
     THEN /\ locals' = [m \in Name |-> IF m = n THEN <<Here>> ELSE <<>>]
          /\ keys' = {n} \ {NoName}
          /\ UNCHANGED outer
     ELSE PushLocal(n)

InBody == open # <<>> /\ ~Inside("epilogue")

\* The condition may be `n != nil` (not in views: check_ui_if does not narrow).
BeginIf(n) ==
  /\ InBody
  /\ n # NoName => IsBound(tenv, n) /\ ~Inside("view")
  /\ Begin("if", n, Narrow(n) \o BlockScopes)
  /\ UNCHANGED <<locals, keys, outer>>

\* Item and body share one scope.
BeginFor(n) ==
  /\ InBody
  /\ Begin("for", n, Append(tenv, Bind(n, Bound)))
  /\ PushLocal(n)

\* One arm; the others are an execution that does not enter it.  The checker
\* knows the subject to have a variant with that name among its parameters, or
\* leaves the name alone and reports nothing: a subject that is no sum type and
\* no Result, or more names than a named sum type's variant has.
BeginMatch(n, known) ==
  /\ InBody /\ ~Inside("view")
  /\ BeginBlock([Statement("match", n) EXCEPT !.unseen = ~known],
                Append(tenv, Bind(IF known THEN n ELSE NoName, Bound)))
  /\ PushLocal(n)

\* A lambda (ModuleAssembly has lambdas inside lambdas).
BeginLambda(n) ==
  /\ InBody /\ ~Inside("view") /\ ~Inside("fn")
  /\ Begin("fn", n, Append(tenv, Bind(n, Bound)))
  /\ EnterLambda(n)

Else ==
  /\ Writing /\ open # <<>> /\ prog[Innermost].kind = "if"
  /\ prog' = Append([prog EXCEPT ![Innermost].end = Here],
                    [Statement("else", NoName) EXCEPT !.in = prog[Innermost].in])
  /\ open' = [open EXCEPT ![Len(open)] = Here]
  /\ tenv' = Leave(tenv, "if") \o BlockScopes
  /\ UNCHANGED <<repertoire, locals, keys, outer, run>>

\* The end of the innermost construct.
End ==
  /\ Writing /\ open # <<>>
  /\ LET block == prog[Innermost]
     IN  /\ prog' = Append([prog EXCEPT ![Innermost].end = Here],
                           [Statement("end", NoName) EXCEPT !.in = Innermost])
         /\ open' = SubSeq(open, 1, Len(open) - 1)
         /\ tenv' = Leave(tenv, block.kind)
         /\ CASE block.kind \in {"if", "else"} -> UNCHANGED <<locals, keys, outer>>
              [] block.kind = "fn" -> LeaveLambda
              [] OTHER -> PopLocal(block.name)
  /\ UNCHANGED <<repertoire, run>>

\* check_let_binding looks for the name in the innermost scope only.
Let(n, nullable) ==
  /\ Writing /\ open # <<>> /\ ~Inside("epilogue")
  /\ tenv[Len(tenv)][n] = Unbound
  /\ Write([Statement("let", n) EXCEPT !.nullable = nullable,
                                       !.shadows = IsBound(tenv, n)])
  /\ tenv' = Define(tenv, n, [at |-> Here, nullable |-> nullable])
  /\ PushLocal(n)
  /\ UNCHANGED open

\* check_set knows the state fields by name, whatever shadows them.
Set(f) ==
  /\ Writing /\ Inside("action")
  /\ Write([Statement("set", f) EXCEPT !.shadows = Lookup(tenv, f).at # 0,
                                       !.unseen = Unseen(f)])
  /\ UNCHANGED <<open, tenv, locals, keys, outer>>

Use(n) ==
  /\ Writing /\ open # <<>> /\ IsBound(tenv, n)
  /\ Write([Statement("use", n) EXCEPT !.check = Lookup(tenv, n).at,
                                       !.nullable = Lookup(tenv, n).nullable,
                                       !.unseen = Unseen(n),
                                       !.code = Resolve(n)])
  /\ UNCHANGED <<open, tenv, locals, keys, outer>>

\* In a lambda the checker accepts it too, but to the evaluator it is an error
\* there: left out.
Return ==
  /\ Writing /\ Inside("action") /\ ~Inside("fn")
  /\ Write(Statement("return", NoName))
  /\ UNCHANGED <<open, tenv, locals, keys, outer>>

Compile ==
  \/ \E n \in Name \cup {NoName} :
       \/ BeginAction(n)
       \/ "view" \in repertoire /\ BeginView(n)
  \/ "epilogue" \in repertoire /\ BeginEpilogue
  \/ \E n \in Name :
       \/ "for" \in repertoire /\ BeginFor(n)
       \/ "match" \in repertoire /\ \E known \in BOOLEAN : BeginMatch(n, known)
       \/ "fn" \in repertoire /\ BeginLambda(n)
       \/ "let" \in repertoire /\ Let(n, FALSE)
       \/ "narrow" \in repertoire /\ Let(n, TRUE)
  \/ "if" \in repertoire /\ (BeginIf(NoName) \/ Else)
  \/ "narrow" \in repertoire /\ \E n \in Local : BeginIf(n)
  \/ "set" \in repertoire /\ \E f \in Field : Set(f)
  \/ \E n \in Name : Use(n)
  \/ "return" \in repertoire /\ Return
  \/ End

-----------------------------------------------------------------------------
(* The evaluator: the host calls actions and renders views of the finished *)
(* program, in any order.                                                  *)

At == prog[pc]
Written == open = <<>> /\ prog # <<>>
Unit == CHOOSE i \in 1..pc :
          prog[i].kind \in Units /\ \A j \in (i + 1)..pc : prog[j].kind \notin Units

New(nil) == [by |-> pc, call |-> calls, nil |-> nil]

NoClosure == [at |-> 0]
NotSeen == [at |-> 0]

InLambda == \E i \in DOMAIN frames : frames[i].kind = "fn"
Lambda == frames[CHOOSE i \in DOMAIN frames : frames[i].kind = "fn"]

Straight == pc' = pc + 1 /\ UNCHANGED <<frames, closure, calls, abandoned>>

\* dispatch binds the parameters in a scope of its own; render_view pushes
\* no scope and binds no parameter.
Call(unit) ==
  /\ Idle /\ Written /\ calls < MaxCalls
  /\ prog[unit].kind \in {"action", "view"}
  /\ calls' = calls + 1 /\ pc' = unit + 1
  /\ env' = IF prog[unit].kind = "view" THEN env
            ELSE PushScope(env, Bind(prog[unit].name,
                             [by |-> unit, call |-> calls', nil |-> FALSE]))
  /\ UNCHANGED <<frames, closure, state, seen, abandoned, lambdaSet>>

EvalLet ==
  /\ At.kind = "let"
  /\ \E nil \in {FALSE, At.nullable} : env' = Define(env, At.name, New(nil))
  /\ Straight /\ UNCHANGED <<state, seen, lambdaSet>>

\* Seeded defect: `set` defines the name in the innermost scope.
EvalSet_Defines ==
  /\ At.kind = "set"
  /\ env' = Define(env, At.name, New(FALSE))
  /\ state' = [state EXCEPT ![At.name] = New(FALSE)]
  /\ lambdaSet' = (lambdaSet \/ InLambda)
  /\ Straight /\ UNCHANGED seen

EvalSet ==
  /\ At.kind = "set"
  /\ env' = Assign(env, At.name, New(FALSE))
  /\ state' = [state EXCEPT ![At.name] = New(FALSE)]
  /\ lambdaSet' = (lambdaSet \/ InLambda)
  /\ Straight /\ UNCHANGED seen

\* A match pops its scope on the way out, a loop does not, and a lambda ran
\* in an environment of its own.
Unwound ==
  LET below[i \in 0..Len(frames)] ==
        IF i = Len(frames) THEN env
        ELSE CASE frames[i + 1].kind = "match" -> PopScope(below[i + 1])
               [] frames[i + 1].kind = "fn" -> frames[i + 1].saved
               [] OTHER -> below[i + 1]
  IN  below[0]

\* The end of a body: dispatch pops one scope and goes on to derived fields
\* and invariants, unless the body failed.
Finish(failed) ==
  LET epilogues == {i \in DOMAIN prog : prog[i].kind = "epilogue"}
  IN  /\ env' = IF prog[Unit].kind = "action" THEN PopScope(Unwound) ELSE Unwound
      /\ pc' = IF prog[Unit].kind = "action" /\ ~failed /\ epilogues # {}
               THEN 1 + CHOOSE i \in epilogues : TRUE
               ELSE 0
      /\ frames' = <<>> /\ closure' = NoClosure
      /\ abandoned' = (abandoned \/ \E i \in DOMAIN frames : frames[i].kind = "for")
      /\ UNCHANGED calls

\* What lexical scoping prescribes for a use.
Wanted(s) ==
  IF s.check = 0 THEN state[s.name] ELSE [by |-> s.check, call |-> calls]

EvalUse ==
  /\ At.kind = "use"
  /\ seen' = [at |-> pc, got |-> Lookup(env, At.name), want |-> Wanted(At),
              stale |-> InLambda /\ Lambda.state # state]
  /\ IF IsBound(env, At.name) THEN Straight /\ UNCHANGED env ELSE Finish(TRUE)
  /\ UNCHANGED <<state, lambdaSet>>

Jump(place) ==
  pc' = place /\ UNCHANGED <<env, frames, closure, calls, state, seen, abandoned, lambdaSet>>

\* Seeded defect: the test for nil is the wrong way round.
EvalIf_Negated ==
  /\ At.kind = "if"
  /\ \/ /\ At.name # NoName => Lookup(env, At.name).nil
        /\ Jump(pc + 1)
     \/ /\ At.name # NoName => ~Lookup(env, At.name).nil
        /\ Jump(At.end + 1)

\* eval_if_expr, eval_ui_if: no scope.  `n != nil` decides itself.
EvalIf ==
  /\ At.kind = "if"
  /\ \/ /\ At.name # NoName => ~Lookup(env, At.name).nil
        /\ Jump(pc + 1)
     \/ /\ At.name # NoName => Lookup(env, At.name).nil
        /\ Jump(At.end + 1)

\* The then-block is over.
EvalElse == At.kind = "else" /\ Jump(At.end + 1)

Enter(frame, scope) ==
  /\ frames' = Append(frames, frame)
  /\ env' = PushScope(env, scope)
  /\ pc' = pc + 1
  /\ UNCHANGED <<closure, calls, state, seen, abandoned, lambdaSet>>

Item == Bind(At.name, New(FALSE))

EvalFor ==
  /\ At.kind = "for"
  /\ \/ Jump(At.end + 1)
     \/ \E left \in 0..(MaxItems - 1) :
          Enter([kind |-> "for", at |-> pc, left |-> left], Item)

\* Seeded defect: the arm's names are bound before its scope is pushed.
EvalMatch_BindsFirst ==
  /\ At.kind = "match"
  /\ \/ Jump(At.end + 1)
     \/ /\ frames' = Append(frames, [kind |-> "match"])
        /\ env' = PushScope(Define(env, At.name, New(FALSE)), EmptyScope)
        /\ pc' = pc + 1
        /\ UNCHANGED <<closure, calls, state, seen, abandoned, lambdaSet>>

\* A value of a type the checker does not know may be nil, and need not have a
\* value for every name.
EvalMatch ==
  /\ At.kind = "match"
  /\ \/ Jump(At.end + 1)
     \/ \E nil \in {FALSE, At.unseen} :
          Enter([kind |-> "match"], Bind(At.name, New(nil)))
     \/ At.unseen /\ Enter([kind |-> "match"], EmptyScope)

\* The value of a lambda holds a clone of the environment.
EvalLambda ==
  /\ At.kind = "fn"
  /\ closure' = [at |-> pc, env |-> env, state |-> state]
  /\ pc' = At.end + 1
  /\ UNCHANGED <<env, frames, calls, state, seen, abandoned, lambdaSet>>

\* ... and is called later in the same body (at most once, a bound).
CallLambda ==
  /\ ~Idle /\ closure # NoClosure /\ ~InLambda
  /\ frames' = Append(frames, [kind |-> "fn", back |-> pc, saved |-> env,
                               state |-> closure.state])
  /\ env' = PushScope(closure.env, Bind(prog[closure.at].name,
               [by |-> closure.at, call |-> calls, nil |-> FALSE]))
  /\ pc' = closure.at + 1
  /\ closure' = NoClosure
  /\ UNCHANGED <<calls, state, seen, abandoned, lambdaSet>>

Frame == frames[Len(frames)]
Drop(e, place) ==
  /\ env' = e /\ pc' = place
  /\ frames' = SubSeq(frames, 1, Len(frames) - 1)
  /\ UNCHANGED <<closure, calls, abandoned>>

ExitMatch == Drop(PopScope(env), pc + 1)

ExitFor == Drop(PopScope(env), pc + 1)

\* One scope serves all items: what the body binds stays for the next.
NextItem ==
  /\ env' = Define(env, prog[Frame.at].name,
                   [by |-> Frame.at, call |-> calls, nil |-> FALSE])
  /\ pc' = Frame.at + 1
  /\ frames' = [frames EXCEPT ![Len(frames)].left = @ - 1]
  /\ UNCHANGED <<closure, calls, abandoned>>

EvalEnd ==
  /\ At.kind = "end"
  /\ LET kind == prog[At.in].kind
     IN  CASE kind \in Units -> Finish(FALSE)
           [] kind = "for" /\ Frame.left > 0 -> NextItem
           [] kind = "for" /\ Frame.left = 0 -> ExitFor
           [] kind = "match" -> ExitMatch
           [] kind = "fn" -> Drop(Frame.saved, Frame.back)
           [] OTHER -> Straight /\ UNCHANGED env
  /\ UNCHANGED <<state, seen, lambdaSet>>

EvalReturn ==
  /\ At.kind = "return"
  /\ Finish(FALSE)
  /\ UNCHANGED <<state, seen, lambdaSet>>

Execute ==
  /\ ~Idle
  /\ EvalLet \/ EvalSet \/ EvalUse \/ EvalIf \/ EvalElse \/ EvalFor \/ EvalMatch
     \/ EvalLambda \/ EvalEnd \/ EvalReturn

Evaluate ==
  /\ (\E unit \in DOMAIN prog : Call(unit)) \/ Execute \/ CallLambda
  /\ UNCHANGED compilation

-----------------------------------------------------------------------------
Initially(f) == [by |-> 0, call |-> 0, nil |-> FALSE]

Init ==
  /\ repertoire \in Repertoires
  /\ prog = <<>> /\ open = <<>>
  /\ tenv = <<[n \in Name |-> IF n \in Field THEN [at |-> 0, nullable |-> FALSE]
                              ELSE Unbound]>>
  /\ locals = [n \in Name |-> <<>>] /\ keys = {} /\ outer = NoOuter
  /\ pc = 0 /\ frames = <<>> /\ closure = NoClosure /\ calls = 0
  /\ state = [f \in Field |-> Initially(f)]
  /\ env = <<[n \in Name |-> IF n \in Field THEN Initially(n) ELSE Unbound]>>
  /\ seen = NotSeen
  /\ abandoned = FALSE /\ lambdaSet = FALSE

Next == Compile \/ Evaluate

Spec == Init /\ [][Next]_vars

-----------------------------------------------------------------------------
\* Properties

InView(i) == \E j \in 1..i : prog[j].kind = "view"
BlockKind(i) == IF prog[i].in = 0 THEN "none" ELSE prog[prog[i].in].kind
Lets(n) == {i \in DOMAIN prog : prog[i].kind = "let" /\ prog[i].name = n}

\* A `let` of the name, in the same function of the module, whose block has
\* ended: emit_let leaves it on the name's stack for good.
Leaked(i) ==
  \E j \in Lets(prog[i].name) :
    j < i /\ InView(i) = InView(j) /\ prog[prog[j].in].end # 0

\* The generated code reads the local or the field the checker means,
\* unless a `let` leaked, or the checker does not know of the arm's binding,
\* or a lambda reads a field whose name some loop, arm or parameter before it
\* had (an empty stack is captured as local 0).  Parameters, items and the
\* bindings of other arms lead nothing else astray, however they shadow each
\* other and in whichever action they stand.
GeneratorAgrees ==
  \A i \in DOMAIN prog :
    prog[i].kind = "use" /\ prog[i].code # prog[i].check =>
      \/ Leaked(i) \/ prog[i].unseen
      \/ prog[i].name \in Field /\ prog[i].code = Local0

Used == prog[seen.at]
Misread ==
  /\ seen # NotSeen
  /\ \/ seen.got = Unbound
     \/ seen.got.by # seen.want.by \/ seen.got.call # seen.want.call

\* A `let` that shadows where the evaluator has no scope of its own, or one
\* scope for all items: it overwrites the name for the block around it.
Overwritten(n) ==
  \E i \in Lets(n) :
    prog[i].shadows /\ BlockKind(i) \in {"if", "else", "for", "view"}

\* `set` of a field whose name a local has: the evaluator assigns the local.
Diverted(n) ==
  \E i \in DOMAIN prog :
    prog[i].kind = "set" /\ prog[i].name = n /\ (prog[i].shadows \/ prog[i].unseen)

\* A scope that an abandoned loop left behind hides the field.
Hidden(n) ==
  /\ abandoned /\ n \in Field
  /\ \E i \in DOMAIN prog :
       prog[i].name = n /\ prog[i].kind \in {"action", "let", "for", "match"}

\* A view's parameter, or its `let` inside an `if`: the checker lets the
\* view go on using it, the evaluator need not have bound it.
Conditional(i) ==
  i # 0 /\ InView(i) /\ (prog[i].kind = "view" \/ BlockKind(i) \in {"if", "else"})

\* Whatever an accepted program does, a use of a name yields the value that
\* lexical scoping (the checker's) prescribes, unless the program shadows in
\* one of the ways above, or the checker does not know of an arm's binding, or
\* a lambda is called after the state it captured has changed, or its own
\* `set` was lost with its environment.  None of
\* these makes a name undefined: an accepted action never fails with an
\* undefined variable, and a view only over a parameter or a conditional
\* `let`.
EvaluatorAgrees ==
  /\ Misread =>
       \/ Overwritten(Used.name) \/ Diverted(Used.name) \/ Hidden(Used.name)
       \/ Conditional(Used.check)
       \/ Used.unseen \/ seen.stale \/ lambdaSet
  /\ seen # NotSeen /\ seen.got = Unbound => Conditional(Used.check)

\* A value the checker has narrowed is not nil inside the block its test
\* guards (the narrowing also reaches the else branch and all that follows,
\* where nothing keeps it true), unless an arm the checker does not know of
\* binds the name anew.
NarrowSound ==
  seen # NotSeen /\ ~Used.nullable =>
    \/ seen.got = Unbound \/ ~seen.got.nil
    \/ Overwritten(Used.name) \/ Used.unseen
    \/ ~\E i \in 1..seen.at : /\ prog[i].kind = "if" /\ prog[i].name = Used.name
                              /\ seen.at < prog[i].end

\* Between calls the host sees in each field the value last `set`, unless a
\* local hid the field from a `set`, a view's `let` has its name, a loop left
\* a scope behind, or a lambda's `set` was lost.
StateLexical ==
  Idle => \A f \in Field :
    \/ Lookup(env, f) = state[f]
    \/ Diverted(f) \/ Hidden(f) \/ lambdaSet
    \/ \E i \in Lets(f) : InView(i)
=============================================================================
