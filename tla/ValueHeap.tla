------------------------------ MODULE ValueHeap ------------------------------
(***************************************************************************)
(* Values in the linear memory of a compiled space, over the allocator of  *)
(* BumpAlloc: the code pepl-codegen emits for literals, field accesses,    *)
(* `set`, `for`, init and dispatch_action, run instruction by instruction  *)
(* (expr.rs, stmt.rs, space.rs, runtime.rs), beside the evaluator's        *)
(* immutable values (pepl-eval/src/evaluator.rs) for the same statements.  *)
(*                                                                         *)
(* A memory cell is one 32-bit word.  A value is three words, its tag and  *)
(* two payload words; a number's two words of f64 are one word here.  An   *)
(* entry of a record is the address of its key and the pointer to its      *)
(* value; the key's length goes with the address.                          *)
(***************************************************************************)
EXTENDS BumpAlloc, SequencesExt

CONSTANTS Keys,       \* the names in the data segment, in order
          Fields,     \* the state's fields, in order
          Programs,   \* [defaults, calls]: an expression per field, and the
                      \* host's calls, <<"dispatch", statements>> of an action
                      \* or <<"alloc", sizes>>, one of which it asks for
          MaxEntries  \* Denote reads no more entries of a value than this

ASSUME LayoutAssumption == 2 * Len(Keys) < HeapStart

VARIABLES mem,         \* linear memory, a word per address
          vars,        \* the locals of the running function, and global state_ptr
          running,     \* the exported function that runs
          todo,        \* its instructions still to run
          calls,       \* the calls still to come
          values,      \* history: the values constructed
          ev,          \* the evaluator's locals
          evState,     \* and its state fields
          evSnapshot,
          differences  \* history: where the two are known to part

compiled == <<mem, vars, values>>
evaluated == <<ev, evState, evSnapshot, differences>>
vvars == <<avars, compiled, running, todo, calls, evaluated>>

NIL == 0    NUMBER == 1    LIST == 4    RECORD == 5
ValueWords == 3
EntryWords == 2

State == <<"state">>
Snapshot == <<"snapshot">>

Rng(s) == {s[k] : k \in DOMAIN s}

-----------------------------------------------------------------------------
\* Memory

WordAt(m, a) == IF a \in DOMAIN m THEN m[a] ELSE 0

Write(m, p, words) ==
  [a \in DOMAIN m |-> IF a - p + 1 \in DOMAIN words THEN words[a - p + 1] ELSE m[a]]

\* Each function interns its own strings: the key has an address in init's
\* part of the data segment and another in dispatch_action's.
Intern(context, key) ==
  (CHOOSE k \in DOMAIN Keys : Keys[k] = key) + (IF context = "init" THEN 0 ELSE Len(Keys))

\* What memcmp compares.
Text(a) == IF a \in 1 .. 2 * Len(Keys) THEN Keys[1 + ((a - 1) % Len(Keys))] ELSE "?"

Payload1(p) == WordAt(mem, p + 1)
Payload2(p) == WordAt(mem, p + 2)

\* The matching entries of an array of entries, as indices from 0.
Matches(array, count, key) ==
  {k \in 0 .. count - 1 : Text(WordAt(mem, array + EntryWords * k)) = Text(key)}

First(S) == CHOOSE k \in S : \A j \in S : k <= j

\* Seeded defect: equal when the payload's second word is.
ValEq_CountOnly(p, q) ==
  /\ WordAt(mem, p) = WordAt(mem, q)
  /\ \/ WordAt(mem, p) = NIL
     \/ Payload2(p) = Payload2(q) /\ WordAt(mem, p) # NUMBER
     \/ Payload1(p) = Payload1(q)

\* val_eq: the tags, then the payload words; so two records or lists are
\* equal only when they share their entries.
ValEq(p, q) ==
  /\ WordAt(mem, p) = WordAt(mem, q)
  /\ WordAt(mem, p) # NIL => Payload1(p) = Payload1(q) /\ Payload2(p) = Payload2(q)

-----------------------------------------------------------------------------
\* The code generator: the instructions for expressions and statements.
\* An expression is <<"nil">>, <<"number", n>>, <<"name", x>>,
\* <<"access", e, key>>, <<"list", es>> or <<"record", entries>>; an entry is
\* <<"field", key, e>> or <<"spread", e>>.  d names the local that gets the
\* result; its temporaries are named after it.

Temp(d, name) == Append(d, name)
Operand(d, k) == Append(d, <<"first", "second", "third">>[k])

Spreads(entries) == SelectSeq(entries, LAMBDA n : n[1] = "spread")
Explicit(entries) == SelectSeq(entries, LAMBDA n : n[1] = "field")

Reserve(d, words) == [op |-> "reserve", words |-> words, to |-> d]
Const(d, n) == [op |-> "const", n |-> n, to |-> d]
Put(array, k, key, value) ==
  [op |-> "put", array |-> array, index |-> k - 1, key |-> key, value |-> value]
Get(d, record, key) == [op |-> "get", record |-> record, key |-> key, to |-> d]
MakeList(d, array, count) == [op |-> "list", array |-> array, count |-> count, to |-> d]
MakeRecord(d, array, count) == [op |-> "record", array |-> array, count |-> count, to |-> d]

RECURSIVE EmitExpr(_, _, _)

EmitName(x, context, d) ==
  IF x \in Rng(Fields) THEN <<Get(d, State, Intern(context, x))>>
                       ELSE <<[op |-> "move", from |-> <<x>>, to |-> d]>>

EmitAccess(e, key, context, d) ==
  Append(EmitExpr(e, context, Temp(d, "object")),
         Get(d, Temp(d, "object"), Intern(context, key)))

EmitListLit(es, context, d) ==
  LET array == Temp(d, "array")
      Element(k) == Append(EmitExpr(es[k], context, Operand(d, k)),
        [op |-> "element", array |-> array, index |-> k - 1, value |-> Operand(d, k)])
  IN <<IF es = <<>> THEN Const(array, 0) ELSE Reserve(array, Len(es)),
       Const(Temp(d, "count"), Len(es))>>
     \o FlattenSeq([k \in DOMAIN es |-> Element(k)])
     \o <<MakeList(d, array, Temp(d, "count"))>>

\* emit_record_lit without a spread: the entries in the order they are written.
EmitPlainRecord(entries, context, d) ==
  LET array == Temp(d, "array")
      Entry(k) == Append(EmitExpr(entries[k][3], context, Operand(d, k)),
                         Put(array, k, Intern(context, entries[k][2]), Operand(d, k)))
  IN <<IF entries = <<>> THEN Const(array, 0) ELSE Reserve(array, EntryWords * Len(entries)),
       Const(Temp(d, "count"), Len(entries))>>
     \o FlattenSeq([k \in DOMAIN entries |-> Entry(k)])
     \o <<MakeRecord(d, array, Temp(d, "count"))>>

\* With one: the first spread's entries are copied, and each explicit field
\* laid over them.
EmitSpreadRecord(entries, context, d) ==
  LET source == Temp(d, "spread")
      array == Temp(d, "array")
      count == Temp(d, "count")
      explicit == Explicit(entries)
      Overlaid(k) == Append(EmitExpr(explicit[k][3], context, Operand(d, k)),
        [op |-> "overlay", array |-> array, count |-> count,
         key |-> Intern(context, explicit[k][2]), value |-> Operand(d, k)])
  IN EmitExpr(Spreads(entries)[1][2], context, source)
     \o <<[op |-> "clone", from |-> source, extra |-> Len(explicit), to |-> array],
          [op |-> "count", from |-> source, to |-> count]>>
     \o FlattenSeq([k \in DOMAIN explicit |-> Overlaid(k)])
     \o <<MakeRecord(d, array, count)>>

EmitExpr(e, context, d) ==
  CASE e[1] = "nil"    -> <<[op |-> "nil", to |-> d]>>
    [] e[1] = "number" -> <<[op |-> "number", n |-> e[2], to |-> d]>>
    [] e[1] = "name"   -> EmitName(e[2], context, d)
    [] e[1] = "access" -> EmitAccess(e[2], e[3], context, d)
    [] e[1] = "list"   -> EmitListLit(e[2], context, d)
    [] e[1] = "record" -> IF Spreads(e[2]) = <<>> THEN EmitPlainRecord(e[2], context, d)
                                                  ELSE EmitSpreadRecord(e[2], context, d)

\* The state record is built anew: the field's new value, the old ones of the
\* others.
EmitStateFieldSet(field, value, context) ==
  LET array == Temp(State, "array")
      Entry(k) ==
        LET key == Intern(context, Fields[k]) IN
        IF Fields[k] = field THEN <<Put(array, k, key, value)>>
        ELSE <<Get(Operand(State, k), State, key), Put(array, k, key, Operand(State, k))>>
  IN <<Reserve(array, EntryWords * Len(Fields)), Const(Temp(State, "count"), Len(Fields))>>
     \o FlattenSeq([k \in DOMAIN Fields |-> Entry(k)])
     \o <<MakeRecord(State, array, Temp(State, "count"))>>

Old(k) == Operand(<<"old">>, k)
New(k) == Operand(<<"new">>, k)

\* Down the path to the records on it, and up again with copies of them.
EmitNestedSet(path, value, context) ==
  LET depth == Len(path)
      Down(k) == Get(Old(k), IF k = 1 THEN State ELSE Old(k - 1), Intern(context, path[k]))
      Up(k) == <<[op |-> "replace", from |-> Old(k), key |-> Intern(context, path[k + 1]),
                  value |-> IF k = depth - 1 THEN value ELSE New(k + 1),
                  to |-> Temp(New(k), "array")],
                 [op |-> "count", from |-> Old(k), to |-> Temp(New(k), "count")],
                 MakeRecord(New(k), Temp(New(k), "array"), Temp(New(k), "count"))>>
  IN [k \in 1 .. depth - 1 |-> Down(k)]
     \o FlattenSeq([k \in 1 .. depth - 1 |-> Up(depth - k)])
     \o EmitStateFieldSet(path[1], New(1), context)

\* The evaluator executes the statement when its code has run.
Done(stmt) == [op |-> "done", stmt |-> stmt]

RECURSIVE EmitStmts(_)

\* A statement is <<"let", x, e>>, <<"set", path, e>> or <<"for", x, e, body>>.
EmitStmt(stmt) ==
  LET context == "dispatch_action" IN
  CASE stmt[1] = "let" -> Append(EmitExpr(stmt[3], context, <<stmt[2]>>), Done(stmt))
    [] stmt[1] = "set" ->
         EmitExpr(stmt[3], context, <<"value">>)
         \o (IF Len(stmt[2]) = 1 THEN EmitStateFieldSet(stmt[2][1], <<"value">>, context)
                                 ELSE EmitNestedSet(stmt[2], <<"value">>, context))
         \o <<Done(stmt)>>
    [] stmt[1] = "for" ->
         EmitExpr(stmt[3], context, <<"list">>)
         \o <<[op |-> "enter", list |-> <<"list">>, stmt |-> stmt],
              [op |-> "loop", list |-> <<"list">>, item |-> stmt[2],
               body |-> EmitStmts(stmt[4])]>>

EmitStmts(stmts) == FlattenSeq([k \in DOMAIN stmts |-> EmitStmt(stmts[k])])

\* init: the entries are reserved before the defaults are evaluated.
EmitInit(defaults) ==
  LET array == Temp(State, "array")
      Entry(k) == Append(EmitExpr(defaults[k], "init", Operand(State, k)),
                         Put(array, k, Intern("init", Fields[k]), Operand(State, k)))
  IN <<Reserve(array, EntryWords * Len(Fields)), Const(Temp(State, "count"), Len(Fields))>>
     \o FlattenSeq([k \in DOMAIN Fields |-> Entry(k)])
     \o <<MakeRecord(State, array, Temp(State, "count")), Done(<<"init", defaults>>)>>

-----------------------------------------------------------------------------
\* The evaluator.  A value is <<"nil">>, <<"number", n>>, <<"list", values>>
\* or <<"record", fields>>.

IsRecord(v) == v[1] = "record"

\* A field that is not there is an error in the evaluator, listed by
\* Differences; what is returned in its place no longer matters.
FieldOf(v, key) == IF IsRecord(v) /\ key \in DOMAIN v[2] THEN v[2][key] ELSE <<"nil">>

RECURSIVE EvalExpr(_)

\* eval_record_literal: the entries override each other from left to right.
EvalRecord(entries) ==
  LET Insert(fields, n) ==
        IF n[1] = "field" THEN (n[2] :> EvalExpr(n[3])) @@ fields
        ELSE LET v == EvalExpr(n[2]) IN IF IsRecord(v) THEN v[2] @@ fields ELSE fields
  IN <<"record", FoldLeft(Insert, <<>>, entries)>>

EvalExpr(e) ==
  CASE e[1] \in {"nil", "number"} -> e
    [] e[1] = "name"   -> IF e[2] \in Rng(Fields) THEN evState[e[2]] ELSE ev[<<e[2]>>]
    [] e[1] = "access" -> FieldOf(EvalExpr(e[2]), e[3])
    [] e[1] = "list"   -> <<"list", [k \in DOMAIN e[2] |-> EvalExpr(e[2][k])]>>
    [] e[1] = "record" -> EvalRecord(e[2])

RECURSIVE SetNestedField(_, _, _)
SetNestedField(current, path, value) ==
  IF path = <<>> THEN value
  ELSE <<"record",
         (path[1] :> SetNestedField(FieldOf(current, path[1]), Tail(path), value))
         @@ (IF IsRecord(current) THEN current[2] ELSE <<>>)>>

\* Where the compiled code is known to differ: only the first spread counts,
\* a field before the spread overrides it, the first of two equal keys is the
\* one found, and a missing field is no error.
RECURSIVE Differences(_)

RecordDifferences(entries) ==
  LET fields == {k \in DOMAIN entries : entries[k][1] = "field"}
      spreads == DOMAIN entries \ fields
      Early(k) == \E j \in spreads : k < j /\ LET v == EvalExpr(entries[j][2]) IN
                    IsRecord(v) /\ entries[k][2] \in DOMAIN v[2]
  IN UNION {Differences(entries[k][3]) : k \in fields}
     \cup UNION {Differences(entries[k][2]) : k \in spreads}
     \cup {d \in {"second spread"} : Len(Spreads(entries)) > 1}
     \cup {d \in {"field before spread"} : \E k \in fields : Early(k)}
     \cup {d \in {"duplicate key"} : spreads = {} /\
             \E j, k \in fields : j < k /\ entries[j][2] = entries[k][2]}
     \cup {d \in {"spread of nil"} : \E k \in spreads : ~IsRecord(EvalExpr(entries[k][2]))}

Missing(v, key) == ~(IsRecord(v) /\ key \in DOMAIN v[2])

Differences(e) ==
  CASE e[1] \in {"nil", "number", "name"} -> {}
    [] e[1] = "access" -> Differences(e[2])
         \cup {d \in {"missing field"} : Missing(EvalExpr(e[2]), e[3])}
    [] e[1] = "list"   -> UNION {Differences(e[2][k]) : k \in DOMAIN e[2]}
    [] e[1] = "record" -> RecordDifferences(e[2])

RECURSIVE PathMissing(_, _)
PathMissing(v, path) ==
  path # <<>> /\ (Missing(v, path[1]) \/ PathMissing(FieldOf(v, path[1]), Tail(path)))

EvalLet(x, e) ==
  /\ ev' = (<<x>> :> EvalExpr(e)) @@ ev
  /\ differences' = differences \cup Differences(e)
  /\ UNCHANGED <<evState, evSnapshot>>

EvalSet(path, e) ==
  /\ evState' = [evState EXCEPT ![path[1]] = SetNestedField(@, Tail(path), EvalExpr(e))]
  /\ differences' = differences \cup Differences(e)
       \cup {d \in {"missing field"} : PathMissing(evState[path[1]], Tail(path))}
  /\ UNCHANGED <<ev, evSnapshot>>

EvalDefaults(defaults) ==
  /\ evState' = [x \in Rng(Fields) |->
       EvalExpr(defaults[CHOOSE k \in DOMAIN Fields : Fields[k] = x])]
  /\ differences' = UNION {Differences(defaults[k]) : k \in DOMAIN Fields}
  /\ UNCHANGED <<ev, evSnapshot>>

EvalIterable(e) ==
  /\ ev' = (<<"list">> :> EvalExpr(e)) @@ ev
  /\ differences' = differences \cup Differences(e)
  /\ UNCHANGED <<evState, evSnapshot>>

-----------------------------------------------------------------------------
\* The instructions

Assign(d, n) == vars' = (d :> n) @@ vars

Advance == todo' = Tail(todo) /\ UNCHANGED <<running, calls>>

Alloc(words) == AllocFits(words) \/ AllocGrows(words)

\* val_nil stores the tag alone: its payload is what the memory holds.
Words(i) ==
  CASE i.op = "nil"    -> <<NIL>>
    [] i.op = "number" -> <<NUMBER, i.n, 0>>
    [] i.op = "list"   -> <<LIST, vars[i.array], vars[i.count]>>
    [] i.op = "record" -> <<RECORD, vars[i.array], vars[i.count]>>

\* val_nil, val_number, val_list, val_record.
Construct(i) ==
  /\ i.op \in {"nil", "number", "list", "record"}
  /\ Alloc(ValueWords)
  /\ mem' = Write(mem, heap, Words(i))
  /\ Assign(i.to, heap)
  /\ values' = values \cup {heap}
  /\ Advance /\ UNCHANGED evaluated

ReserveArray(i) ==
  /\ i.op = "reserve"
  /\ Alloc(i.words)
  /\ Assign(i.to, heap)
  /\ Advance /\ UNCHANGED <<mem, values, evaluated>>

\* Instructions on locals only.
Move(i) ==
  /\ i.op \in {"const", "move", "count"}
  /\ Assign(i.to, CASE i.op = "const" -> i.n
                    [] i.op = "move"  -> vars[i.from]
                    [] i.op = "count" -> Payload2(vars[i.from]))
  /\ Advance /\ UNCHANGED <<avars, mem, values, evaluated>>

\* A store into an array under construction.
Store(i) ==
  /\ i.op \in {"put", "element"}
  /\ mem' = IF i.op = "put"
            THEN Write(mem, vars[i.array] + EntryWords * i.index, <<i.key, vars[i.value]>>)
            ELSE Write(mem, vars[i.array] + i.index, <<vars[i.value]>>)
  /\ Advance /\ UNCHANGED <<avars, vars, values, evaluated>>

Found(i) == LET r == vars[i.record] IN Matches(Payload1(r), Payload2(r), i.key)

\* val_record_get: the first matching entry's value.
GetFound(i) ==
  /\ i.op = "get" /\ Found(i) # {}
  /\ Assign(i.to, WordAt(mem, Payload1(vars[i.record]) + EntryWords * First(Found(i)) + 1))
  /\ Advance /\ UNCHANGED <<avars, mem, values, evaluated>>

\* Without one, a new nil.
GetMissing(i) ==
  /\ i.op = "get" /\ Found(i) = {}
  /\ Alloc(ValueWords)
  /\ mem' = Write(mem, heap, <<NIL>>)
  /\ Assign(i.to, heap)
  /\ values' = values \cup {heap}
  /\ Advance /\ UNCHANGED evaluated

\* The words of a value's entries.
EntriesOf(p) == [k \in 1 .. EntryWords * Payload2(p) |-> WordAt(mem, Payload1(p) + k - 1)]

CloneWords(i) == EntryWords * (Payload2(vars[i.from]) + i.extra)

\* A literal with a spread: the source's entries in a larger array.
Clone(i) ==
  /\ i.op = "clone"
  /\ Alloc(CloneWords(i))
  /\ mem' = Write(mem, heap, EntriesOf(vars[i.from]))
  /\ Assign(i.to, heap)
  /\ Advance /\ UNCHANGED <<values, evaluated>>

\* Seeded defect: a field is appended although the spread has it.
OverlayAt_Appends(i) == vars[i.count]

\* The entry a field is laid over: the one with its key, or the next free one.
OverlayAt(i) ==
  LET same == Matches(vars[i.array], vars[i.count], i.key)
  IN IF same = {} THEN vars[i.count] ELSE First(same)

Overlay(i) ==
  /\ i.op = "overlay"
  /\ mem' = Write(mem, vars[i.array] + EntryWords * OverlayAt(i), <<i.key, vars[i.value]>>)
  /\ vars' = IF OverlayAt(i) = vars[i.count]
             THEN [vars EXCEPT ![i.count] = @ + 1] ELSE vars
  /\ Advance /\ UNCHANGED <<avars, values, evaluated>>

\* The entries with the new value in those that match: a key that is not
\* there is not added.
Replaced(i) ==
  LET p == vars[i.from]
  IN [k \in 1 .. EntryWords * Payload2(p) |->
       IF k % EntryWords = 0 /\ Text(EntriesOf(p)[k - 1]) = Text(i.key)
       THEN vars[i.value] ELSE EntriesOf(p)[k]]

\* Seeded defect: the record on the path is changed in place.
Replace_InPlace(i) ==
  /\ i.op = "replace"
  /\ mem' = Write(mem, Payload1(vars[i.from]), Replaced(i))
  /\ Assign(i.to, Payload1(vars[i.from]))
  /\ Advance /\ UNCHANGED <<avars, values, evaluated>>

\* emit_record_field_replace.
Replace(i) ==
  /\ i.op = "replace"
  /\ Alloc(EntryWords * Payload2(vars[i.from]))
  /\ mem' = Write(mem, heap, Replaced(i))
  /\ Assign(i.to, heap)
  /\ Advance /\ UNCHANGED <<values, evaluated>>

\* The loop's array and count are read once.
EnterLoop(i) ==
  /\ i.op = "enter"
  /\ vars' = (Temp(i.list, "array") :> Payload1(vars[i.list]))
          @@ (Temp(i.list, "count") :> Payload2(vars[i.list]))
          @@ (Temp(i.list, "i") :> 0) @@ vars
  /\ EvalIterable(i.stmt[3])
  /\ Advance /\ UNCHANGED <<avars, mem, values>>

NextItem(i) ==
  /\ i.op = "loop"
  /\ LET n == vars[Temp(i.list, "i")] IN
     /\ n < vars[Temp(i.list, "count")]
     /\ vars' = (<<i.item>> :> WordAt(mem, vars[Temp(i.list, "array")] + n))
             @@ (Temp(i.list, "i") :> n + 1) @@ vars
     /\ ev' = (<<i.item>> :> IF n + 1 \in DOMAIN ev[i.list][2]
                             THEN ev[i.list][2][n + 1] ELSE <<"nil">>) @@ ev
  /\ todo' = i.body \o todo
  /\ UNCHANGED <<avars, mem, values, running, calls, evState, evSnapshot, differences>>

LoopEnds(i) ==
  /\ i.op = "loop" /\ vars[Temp(i.list, "i")] >= vars[Temp(i.list, "count")]
  /\ Advance /\ UNCHANGED <<avars, compiled, evaluated>>

Evaluate(i) ==
  /\ i.op = "done"
  /\ CASE i.stmt[1] = "let"  -> EvalLet(i.stmt[2], i.stmt[3])
       [] i.stmt[1] = "set"  -> EvalSet(i.stmt[2], i.stmt[3])
       [] i.stmt[1] = "init" -> EvalDefaults(i.stmt[2])
  /\ Advance /\ UNCHANGED <<avars, compiled>>

\* The words an instruction asks for.
Wanted(i) ==
  CASE i.op \in {"nil", "number", "list", "record", "get"} -> ValueWords
    [] i.op = "reserve" -> i.words
    [] i.op = "clone"   -> CloneWords(i)
    [] i.op = "replace" -> EntryWords * Payload2(vars[i.from])

Allocates(i) ==
  \/ i.op \in {"nil", "number", "list", "record", "reserve", "clone", "replace"}
  \/ i.op = "get" /\ Found(i) = {}

\* alloc traps: the call ends where it is, without a rollback, and the
\* module keeps its memory and its state_ptr.  An instance whose init
\* trapped is not called.
OutOfMemory(i) ==
  /\ Allocates(i) /\ AllocFails(Wanted(i))
  /\ todo' = <<>> /\ running' = "none"
  /\ calls' = IF running = "init" THEN <<>> ELSE calls
  /\ UNCHANGED <<compiled, evaluated>>

Step ==
  todo # <<>> /\ LET i == Head(todo) IN
    \/ Construct(i) \/ ReserveArray(i) \/ Move(i) \/ Store(i)
    \/ GetFound(i) \/ GetMissing(i)
    \/ Clone(i) \/ Overlay(i) \/ Replace(i)
    \/ EnterLoop(i) \/ NextItem(i) \/ LoopEnds(i)
    \/ Evaluate(i) \/ OutOfMemory(i)

-----------------------------------------------------------------------------
\* The exported functions

VInit ==
  /\ AInit
  /\ mem = [a \in 0 .. MaxPages * Page - 1 |-> 0]
  /\ vars = (State :> 0) @@ (Snapshot :> 0)
  /\ running = "init"
  /\ \E p \in Programs : todo = EmitInit(p.defaults) /\ calls = p.calls
  /\ values = {}
  /\ ev = <<>> /\ evState = <<>> /\ evSnapshot = <<>> /\ differences = {}

InitReturns ==
  /\ running = "init" /\ todo = <<>>
  /\ running' = "none"
  /\ UNCHANGED <<avars, compiled, todo, calls, evaluated>>

\* dispatch_action: new locals, and the snapshot is the pointer.
Dispatch ==
  /\ running = "none" /\ calls # <<>> /\ Head(calls)[1] = "dispatch"
  /\ running' = "dispatch_action"
  /\ vars' = (State :> vars[State]) @@ (Snapshot :> vars[State])
  /\ todo' = EmitStmts(Head(calls)[2]) /\ calls' = Tail(calls)
  /\ ev' = <<>> /\ evSnapshot' = evState
  /\ UNCHANGED <<avars, mem, values, evState, differences>>

\* alloc is exported: the host asks for room of its own, for the argument of a
\* call or for anything else, and may ask for any word.
HostAlloc ==
  /\ running = "none" /\ calls # <<>> /\ Head(calls)[1] = "alloc"
  /\ \E size \in Head(calls)[2] : Alloc(size) \/ AllocFails(size)
  /\ calls' = Tail(calls)
  /\ UNCHANGED <<compiled, running, todo, evaluated>>

Returning == running = "dispatch_action" /\ todo = <<>>

\* The invariants hold.
Commits ==
  /\ Returning
  /\ running' = "none"
  /\ UNCHANGED <<avars, compiled, todo, calls, evaluated>>

\* Seeded defect: the memory of the call is taken back with it.
RollsBack_Frees ==
  /\ Returning
  /\ vars' = [vars EXCEPT ![State] = vars[Snapshot]]
  /\ evState' = evSnapshot
  /\ heap' = vars[Snapshot] + ValueWords
  /\ running' = "none"
  /\ UNCHANGED <<pages, blocks, mem, values, todo, calls, ev, evSnapshot, differences>>

\* One is violated: the pointer is restored, then the call traps.
RollsBack ==
  /\ Returning
  /\ vars' = [vars EXCEPT ![State] = vars[Snapshot]]
  /\ evState' = evSnapshot
  /\ running' = "none"
  /\ UNCHANGED <<avars, mem, values, todo, calls, ev, evSnapshot, differences>>

VNext == Step \/ InitReturns \/ Dispatch \/ HostAlloc \/ Commits \/ RollsBack

VSpec == VInit /\ [][VNext]_vvars

-----------------------------------------------------------------------------
\* Properties

\* What a pointer stands for, to a depth of levels.
RECURSIVE Denote(_, _, _)
Denote(m, p, depth) ==
  LET array == WordAt(m, p + 1)
      count == IF WordAt(m, p + 2) < MaxEntries THEN WordAt(m, p + 2) ELSE MaxEntries
      Key(k) == Text(WordAt(m, array + EntryWords * (k - 1)))
      Value(k) == WordAt(m, array + EntryWords * (k - 1) + 1)
      Entry(key) == CHOOSE k \in 1 .. count :
        Key(k) = key /\ \A j \in 1 .. k - 1 : Key(j) # key
  IN CASE depth = 0 -> <<"deep">>
       [] depth > 0 /\ WordAt(m, p) = NIL -> <<"nil">>
       [] depth > 0 /\ WordAt(m, p) = NUMBER -> <<"number", array>>
       [] depth > 0 /\ WordAt(m, p) = LIST ->
            <<"list", [k \in 1 .. count |-> Denote(m, WordAt(m, array + k - 1), depth - 1)]>>
       [] depth > 0 /\ WordAt(m, p) = RECORD ->
            <<"record", [key \in {Key(k) : k \in 1 .. count} |->
                           Denote(m, Value(Entry(key)), depth - 1)]>>
       [] OTHER -> <<"none">>

Depth == 5

Meaning(p) == Denote(mem, p, Depth)

\* The allocator's part of every step is one of its own steps (BumpAlloc's
\* theorems hold of the values' memory), or none.
AllocatorObeyed == ASpec

\* No value constructed is ever changed by a later instruction, call or
\* rollback: what the snapshot, a local, a list and the state share stays what
\* each of them took it to be (the immutable-update model of `set`).
ValuesImmutable ==
  [][\A p \in values : Denote(mem', p, Depth) = Denote(mem, p, Depth)]_mem

Compared ==
  /\ running # "init" /\ evState # <<>>
  /\ differences = {}
  /\ todo # <<>> => Head(todo).op # "done"

\* The compiled state, its snapshot and its locals stand for the evaluator's
\* values: after every statement, within the next one, after a rollback, and
\* when memory runs out in the middle of a statement; except where one of
\* Differences has come up.
SameValues ==
  Compared =>
    /\ Meaning(vars[State]) = <<"record", evState>>
    /\ running = "dispatch_action" => Meaning(vars[Snapshot]) = <<"record", evSnapshot>>
    /\ \A x \in DOMAIN ev : Meaning(vars[x]) = ev[x]

\* Of all the values constructed up to the end of a call, val_eq never takes
\* two different ones for equal, and is exact for nil and numbers.  (Of equal
\* records and lists it knows only those that share their entries, where the
\* evaluator compares contents.)
EqSound ==
  running = "none" => LET meaning == [p \in values |-> Meaning(p)] IN
  \A p, q \in values :
    /\ ValEq(p, q) => meaning[p] = meaning[q]
    /\ WordAt(mem, p) \in {NIL, NUMBER} => ValEq(p, q) = (meaning[p] = meaning[q])
=============================================================================
