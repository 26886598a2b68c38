---------------------------- MODULE ModuleAssembly ----------------------------
(***************************************************************************)
(* How the compiler assembles a module (pepl-codegen/src/compiler.rs):     *)
(* functions are emitted one after another, each over a context of its own *)
(* that starts from the compiler's counters and is merged back; string     *)
(* bytes, lambda bodies, function indices and the source map are numbered  *)
(* on the way and used again when exports, elements and data are written.  *)
(* What a function contains is left open: it interns strings and registers *)
(* lambdas.                                                                *)
(***************************************************************************)
EXTENDS Naturals, Sequences, FiniteSets

CONSTANTS
  ImportCount, RtFuncCount,
  Str, Byte,      \* string constants, and what they are made of
  Text,           \* Text[s]: the bytes of s
  WellKnown,      \* the bytes of the well-known strings
  MaxStrings, MaxLambdas, MaxTests  \* bounds on the program

ASSUME AssemblyConstants ==
  /\ ImportCount \in Nat /\ RtFuncCount \in Nat
  /\ Text \in [Str -> Seq(Byte)] /\ WellKnown \in Seq(Byte)
  /\ MaxStrings \in Nat /\ MaxLambdas \in Nat /\ MaxTests \in Nat

VARIABLES
  stage,         \* what is emitted next
  funcs,         \* the function section: element i has index Prefix + i - 1
  nextIdx,       \* next_idx: the index the compiler believes comes next
  functionTable, \* function_table, as pairs of name and index
  numSpaceFuncs, numTestFuncs,
  lambdaBodies,  \* the bodies to compile, in order of merging
  remaining,     \* what is left of the clone the lambda loop runs over
  nextOffset,    \* data.next_offset
  userData,      \* user_data
  ctx,           \* the context of the function being emitted, if any
  sourceMap,     \* the source map's entries
  refs,          \* history: the string constants in the code, with their address
  closures       \* history: the lambda values the code builds

mvars == <<stage, funcs, nextIdx, functionTable, numSpaceFuncs, numTestFuncs,
           lambdaBodies, remaining, nextOffset, userData, ctx, sourceMap,
           refs, closures>>

Prefix == ImportCount + RtFuncCount

Infra == {"init", "dispatch_action", "render", "get_state", "dealloc", "update",
          "handle_event", "invoke_lambda", "test_count"}
Fun == [kind : Infra, no : {0}] \cup [kind : {"lambda", "test"}, no : Nat]
F(kind) == [kind |-> kind, no |-> 0]

NoCtx == [fun |-> F("invoke_lambda")]
Emitting == ctx # NoCtx

Segment == WellKnown \o userData

\* Compiler::new
MInit ==
  /\ stage = "init"
  /\ funcs = <<>> /\ nextIdx = Prefix
  /\ functionTable = {}
  /\ numSpaceFuncs = 0 /\ numTestFuncs = 0
  /\ lambdaBodies = <<>> /\ remaining = <<>>
  /\ nextOffset = Len(WellKnown) /\ userData = <<>>
  /\ ctx = NoCtx
  /\ sourceMap = {} /\ refs = {} /\ closures = {}

-----------------------------------------------------------------------------
\* One function's context

\* make_func_context: numSpaceFuncs is still 0 while the space's own
\* functions are emitted.
NewContext(fun) ==
  [fun |-> fun,
   next |-> nextOffset, data |-> <<>>, cache |-> {},
   bodies |-> <<>>,
   base |-> Prefix + numSpaceFuncs + 1 + Len(lambdaBodies)]

\* The functions the emitter may open at this point.
Due ==
  CASE stage \in {"init", "dispatch_action", "render", "update",
                  "handle_event"} -> {F(stage)}
    [] stage = "lambdas" /\ remaining # <<>> ->
         {[kind |-> "lambda", no |-> Head(remaining)]}
    [] stage = "tests" /\ numTestFuncs < MaxTests ->
         {[kind |-> "test", no |-> numTestFuncs]}
    [] OTHER -> {}

Open(fun) ==
  /\ ~Emitting /\ fun \in Due
  /\ ctx' = NewContext(fun)
  /\ functionTable' = IF stage \in {"update", "handle_event"}
                      THEN functionTable \cup {<<stage, nextIdx>>}
                      ELSE functionTable
  /\ UNCHANGED <<stage, funcs, nextIdx, numSpaceFuncs, numTestFuncs,
                 lambdaBodies, remaining, nextOffset, userData, sourceMap,
                 refs, closures>>

InEmission ==
  UNCHANGED <<stage, funcs, nextIdx, functionTable, numSpaceFuncs, numTestFuncs,
              lambdaBodies, remaining, nextOffset, userData, sourceMap>>

\* intern_string: once per context.
InternNew(s) ==
  /\ Emitting /\ Cardinality(refs) < MaxStrings
  /\ \A entry \in ctx.cache : entry[1] # s
  /\ ctx' = [ctx EXCEPT !.next = @ + Len(Text[s]),
                        !.data = @ \o Text[s],
                        !.cache = @ \cup {<<s, ctx.next>>}]
  /\ refs' = refs \cup {<<s, ctx.next>>}
  /\ UNCHANGED closures /\ InEmission

InternCached(s) ==
  /\ Emitting
  /\ \E entry \in ctx.cache : entry[1] = s /\ refs' = refs \cup {entry}
  /\ UNCHANGED <<ctx, closures>> /\ InEmission

\* emit_lambda: the number register_lambda returns goes into the value.  Also
\* while a lambda or a test is compiled, when the loop over the lambdas has
\* its clone already.
RegisterLambda ==
  /\ Emitting /\ Cardinality(closures) < MaxLambdas
  /\ LET body == Cardinality(closures)
     IN  /\ closures' = closures \cup
              {[body |-> body, table |-> ctx.base + Len(ctx.bodies)]}
         /\ ctx' = [ctx EXCEPT !.bodies = Append(@, body)]
  /\ UNCHANGED refs /\ InEmission

\* Seeded defect: the tracker's offset is not merged back.
Merge_KeepsOffset ==
  /\ userData' = userData \o ctx.data
  /\ lambdaBodies' = lambdaBodies \o ctx.bodies
  /\ UNCHANGED nextOffset

\* merge_user_data
Merge ==
  /\ userData' = userData \o ctx.data
  /\ nextOffset' = ctx.next
  /\ lambdaBodies' = lambdaBodies \o ctx.bodies

StageAfter(fun) ==
  CASE fun.kind = "init" -> "dispatch_action"
    [] fun.kind = "dispatch_action" -> "render"
    [] fun.kind = "render" -> "plain"
    [] fun.kind = "update" -> "handle_event"
    [] fun.kind = "handle_event" -> "invoke"
    [] OTHER -> stage

\* Seeded defect: handle_event is not counted.
IndexAfter_NotEvent(fun) == IF fun.kind = "handle_event" THEN nextIdx ELSE nextIdx + 1

IndexAfter(fun) == nextIdx + 1

Entry(fun) == [index |-> nextIdx, fun |-> fun]

\* The function is complete.  Lambda functions have no source map entry.
Close ==
  /\ Emitting
  /\ Merge
  /\ funcs' = Append(funcs, ctx.fun)
  /\ nextIdx' = IndexAfter(ctx.fun)
  /\ stage' = StageAfter(ctx.fun)
  /\ sourceMap' = IF ctx.fun.kind = "lambda" THEN sourceMap
                  ELSE sourceMap \cup {Entry(ctx.fun)}
  /\ remaining' = IF ctx.fun.kind = "lambda" THEN Tail(remaining) ELSE remaining
  /\ numTestFuncs' = IF ctx.fun.kind = "test" THEN numTestFuncs + 1
                     ELSE numTestFuncs
  /\ ctx' = NoCtx
  /\ UNCHANGED <<functionTable, numSpaceFuncs, refs, closures>>

\* An expression or a statement the generator does not support.
Abort ==
  /\ Emitting
  /\ stage' = "failed" /\ ctx' = NoCtx
  /\ UNCHANGED <<funcs, nextIdx, functionTable, numSpaceFuncs, numTestFuncs,
                 lambdaBodies, remaining, nextOffset, userData, sourceMap,
                 refs, closures>>

-----------------------------------------------------------------------------
\* Functions without a context, and the sections

Sections == UNCHANGED <<functionTable, numSpaceFuncs, numTestFuncs, lambdaBodies,
                        remaining, nextOffset, userData, ctx, sourceMap, refs,
                        closures>>

\* get_state and dealloc
EmitPlain ==
  /\ stage = "plain"
  /\ funcs' = funcs \o <<F("get_state"), F("dealloc")>>
  /\ nextIdx' = nextIdx + 2
  /\ stage' = "update"
  /\ Sections

\* A space without update, or without handleEvent.
SkipOptional ==
  /\ ~Emitting
  /\ \/ stage = "update" /\ stage' = "handle_event"
     \/ stage = "handle_event" /\ stage' = "invoke"
  /\ UNCHANGED <<funcs, nextIdx>> /\ Sections

\* Seeded defect: the first of the space's functions is not counted.
SpaceFuncs_OneShort == nextIdx - Prefix - 1

SpaceFuncs == nextIdx - Prefix

\* invoke_lambda; the lambda loop then runs over a clone of the bodies.
EmitInvoke ==
  /\ stage = "invoke"
  /\ numSpaceFuncs' = SpaceFuncs
  /\ funcs' = Append(funcs, F("invoke_lambda"))
  /\ functionTable' = functionTable \cup {<<"invoke_lambda", nextIdx>>}
  /\ sourceMap' = sourceMap \cup {Entry(F("invoke_lambda"))}
  /\ nextIdx' = nextIdx + 1
  /\ remaining' = lambdaBodies
  /\ stage' = "lambdas"
  /\ UNCHANGED <<numTestFuncs, lambdaBodies, nextOffset, userData, ctx, refs,
                 closures>>

EndLambdas ==
  /\ ~Emitting
  /\ stage = "lambdas" /\ remaining = <<>>
  /\ stage' = "tests"
  /\ UNCHANGED <<funcs, nextIdx>> /\ Sections

\* __test_count, if there are tests at all.
EndTests ==
  /\ ~Emitting
  /\ stage = "tests"
  /\ stage' = "sections"
  /\ IF numTestFuncs = 0
     THEN UNCHANGED <<funcs, nextIdx, numTestFuncs, sourceMap>>
     ELSE /\ funcs' = Append(funcs, F("test_count"))
          /\ sourceMap' = sourceMap \cup {Entry(F("test_count"))}
          /\ nextIdx' = nextIdx + 1
          /\ numTestFuncs' = numTestFuncs + 1
  /\ UNCHANGED <<functionTable, numSpaceFuncs, lambdaBodies, remaining,
                 nextOffset, userData, ctx, refs, closures>>

Export(fun, index) == [fun |-> fun, index |-> index]

TestBase == Prefix + numSpaceFuncs + 1 + Len(lambdaBodies)

\* emit_exports
Exports ==
  {Export(F("init"), Prefix), Export(F("dispatch_action"), Prefix + 1),
   Export(F("render"), Prefix + 2), Export(F("get_state"), Prefix + 3),
   Export(F("dealloc"), Prefix + 4)}
  \cup {Export(F(entry[1]), entry[2]) : entry \in functionTable}
  \cup (IF numTestFuncs = 0 THEN {}
        ELSE {Export([kind |-> "test", no |-> i], TestBase + i) :
                i \in 0..(numTestFuncs - 2)}
             \cup {Export(F("test_count"), TestBase + numTestFuncs - 1)})

\* Seeded defect: one function too many is skipped.
Element_OneBeyond ==
  [i \in 0..(Len(lambdaBodies) - 1) |-> Prefix + numSpaceFuncs + 2 + i]

\* emit_elements: what table slot i holds.
Element == [i \in 0..(Len(lambdaBodies) - 1) |-> Prefix + numSpaceFuncs + 1 + i]

\* wasmparser: every index names a function of the module.
Validates ==
  LET bound == Prefix + Len(funcs)
  IN  /\ \A e \in Exports : e.index < bound
      /\ \A i \in DOMAIN Element : Element[i] < bound

WriteSections ==
  /\ stage = "sections"
  /\ stage' = IF Validates THEN "valid" ELSE "rejected"
  /\ UNCHANGED <<funcs, nextIdx>> /\ Sections

MNext ==
  \/ \E fun \in Due : Open(fun)
  \/ \E s \in Str : InternNew(s) \/ InternCached(s)
  \/ RegisterLambda \/ Close \/ Abort
  \/ EmitPlain \/ SkipOptional \/ EmitInvoke
  \/ EndLambdas \/ EndTests \/ WriteSections

MSpec == MInit /\ [][MNext]_mvars

-----------------------------------------------------------------------------
\* Properties

FunAt(index) == funcs[index - Prefix + 1]

Compiled == {FunAt(Prefix + i - 1) : i \in DOMAIN funcs}

\* The lambda loop runs over a clone of the list: a lambda registered while a
\* lambda or a test is compiled has a table slot and no function.
NeverCompiled(body) == [kind |-> "lambda", no |-> body] \notin Compiled
Late == \E i \in DOMAIN lambdaBodies : NeverCompiled(lambdaBodies[i])

\* In a module the compiler hands out every export is the function it is
\* named after: the fixed indices and the recorded ones agree with the order
\* of emission, and so does the computed test_base unless some lambda was
\* never compiled.  The source map, which reports a trap in function i at the
\* span of a declaration, names the one that function was compiled from.
IndicesRight ==
  /\ stage = "valid" =>
       \A e \in Exports :
         FunAt(e.index) = e.fun \/ (Late /\ e.fun.kind \in {"test", "test_count"})
  /\ \A entry \in sourceMap :
       entry.index < Prefix + Len(funcs) /\ FunAt(entry.index) = entry.fun

\* In a module the compiler hands out table slot i holds the body of the
\* i-th lambda, whatever functions were emitted in between and whether or not
\* other lambdas were never compiled.
ElementsRight ==
  stage = "valid" =>
    \A i \in DOMAIN Element :
      \/ FunAt(Element[i]) = [kind |-> "lambda", no |-> lambdaBodies[i + 1]]
      \/ NeverCompiled(lambdaBodies[i + 1])

\* The addresses in the code keep pointing at their string while further
\* functions append to the data segment.
Bytes == IF Emitting THEN Segment \o ctx.data ELSE Segment

StringsRight ==
  stage # "failed" =>
    \A ref \in refs :
      /\ ref[2] + Len(Text[ref[1]]) <= Len(Bytes)
      /\ SubSeq(Bytes, ref[2] + 1, ref[2] + Len(Text[ref[1]])) = Text[ref[1]]

\* The final validation rejects a module for one reason only: a lambda inside
\* a lambda or a test that was never compiled.  Every other program the
\* emitter gets through compiles.
RejectedOnlyForLate == stage = "rejected" => Late

\* Calling a lambda value through invoke_lambda runs that lambda's body.
InvokeRight ==
  stage = "valid" =>
    \A c \in closures :
      c.table \in DOMAIN Element
      /\ FunAt(Element[c.table]) = [kind |-> "lambda", no |-> c.body]
=============================================================================
