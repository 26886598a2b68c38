------------------------------- MODULE Parser -------------------------------
(***************************************************************************)
(* The parser of pepl-parser as a stack machine over Grammar: the stack    *)
(* holds what the open parse_ functions have still to do, the next first.  *)
(* Its subject is error recovery.  A function that returns None drops what *)
(* its callers had still to do, up to the nearest iteration of a loop that *)
(* catches None (its end is marked "catch" on the stack), resynchronizes   *)
(* and goes on; the nesting counters are fields of the parser, and what    *)
(* was dropped leaves them as they are.                                    *)
(*                                                                         *)
(* The input is a prefix followed by any tokens, each chosen when it       *)
(* becomes the current one: every stream the lexer can deliver, and more.  *)
(***************************************************************************)
EXTENDS Naturals, FiniteSets, FiniteSetsExt, Grammar

CONSTANTS
  Prefixes,   \* the possible beginnings of the input
  Input,      \* the tokens tried after the prefix
  MaxTokens,  \* bound on their number
  MaxErrors,  \* MAX_ERRORS
  Limit,      \* how deep expressions, for loops, lambdas and records nest
  MaxParams   \* parameters of an action or a lambda

Counter == {"expression", "for", "lambda", "record"}

ASSUME ParserAssumption ==
  /\ Input \subseteq Token
  /\ Prefixes \subseteq Seq(Token) \ {<<>>}
  /\ MaxTokens \in Nat /\ MaxErrors \in Nat \ {0} /\ MaxParams \in Nat
  /\ Limit \in [Counter -> Nat \ {0}]

VARIABLES
  stack,
  look,    \* the current token
  ahead,   \* what is left of the prefix after it
  taken,   \* how many tokens were chosen after the prefix
  errors,  \* total_errors, counted up to MaxErrors
  depth,   \* expr_depth, for_depth, lambda_depth, record_depth
  params,  \* the length of the parameter list read last, up to MaxParams + 1
  last,    \* last_order, 0 before the first block
  seen,    \* the blocks got that may come once; "field" if the state block
           \* read last has a field
  result,  \* of parse_program
  begun    \* history: the blocks begun while no error was reported

vars == <<stack, look, ahead, taken, errors, depth, params, last, seen,
          result, begun>>
input == <<look, ahead, taken>>
notes == <<params, last, seen, begun>>

too_many_errors == errors >= MaxErrors

-----------------------------------------------------------------------------
\* Blocks of a space, and loops

\* BlockOrder
Rank == [type |-> 1, state |-> 2, capabilities |-> 3, credentials |-> 4,
         derived |-> 5, invariant |-> 6, action |-> 7, view |-> 8,
         update |-> 9, handleEvent |-> 10]
Single == {"state", "capabilities", "credentials", "derived", "update",
           "handleEvent"}

\* One turn of the loop over the blocks of a space.
SpaceBlock(t) ==
  IF t \notin BlockKeyword THEN <<"error", "synchronize">>
  ELSE IF t \in seen THEN <<"in order", "error", "synchronize">>
  ELSE CASE t = "type" -> <<"in order", "parse_type_decl">>
         [] t = "state" -> <<"in order", "parse_state_block", "got state">>
         [] t = "capabilities" ->
              <<"in order", "parse_capabilities_block", "got capabilities">>
         [] t = "credentials" ->
              <<"in order", "parse_credentials_block", "got credentials">>
         [] t = "derived" ->
              <<"in order", "parse_derived_block", "got derived">>
         [] t = "invariant" -> <<"in order", "parse_invariant_decl">>
         [] t = "action" -> <<"in order", "parse_action_decl">>
         [] t = "view" -> <<"in order", "parse_view_decl">>
         [] t = "update" -> <<"in order", "parse_update_decl", "got update">>
         [] t = "handleEvent" ->
              <<"in order", "parse_handle_event_decl", "got handleEvent">>

\* An iteration of each loop that catches None.
Body(t) == [
  blocks            |-> SpaceBlock(t),
  tests_blocks      |-> <<"parse_tests_block">>,
  state_fields      |-> <<"parse_state_field">>,
  derived_fields    |-> <<"parse_derived_field">>,
  test_cases        |-> <<"parse_test_case">>,
  response_mappings |-> <<"parse_response_mapping">>,
  statements        |-> <<"parse_statement">>,
  elements          |-> <<"parse_ui_element">>,
  props             |-> <<"parse_prop_assign">>,
  type_fields       |-> <<"parse_record_type_field">>,
  arms              |-> <<"parse_match_arm">>]

Loop == {"blocks", "tests_blocks", "state_fields", "derived_fields",
         "test_cases", "response_mappings", "statements", "elements",
         "props", "type_fields", "arms"}

\* A defect: newlines are left standing.
After_NoNewlines(loop) ==
  IF loop \in {"type_fields", "arms"} THEN <<"eat_comma">> ELSE <<>>

\* What follows an iteration, failed or not.
After(loop) == IF loop \in {"type_fields", "arms"}
               THEN <<"eat_comma", "skip_newlines">> ELSE <<"skip_newlines">>

LoopEnds(loop) ==
  IF loop = "tests_blocks" THEN look # "tests" ELSE look \in End

\* A defect: only the loop over blocks looks at the errors.
GivesUp_BlocksOnly(loop) == loop = "blocks" /\ too_many_errors

\* The loop over the props of a component does not look at the errors.
GivesUp(loop) == loop # "props" /\ too_many_errors

Turn(loop) ==
  IF LoopEnds(loop) \/ GivesUp(loop) THEN <<>>
  ELSE Body(look)[loop] \o <<"catch">> \o After(loop) \o <<loop>>

\* Productions that depend on more than the token.
Noted == [
  credential_list |->
    When(look \notin End /\ ~too_many_errors, <<"parse_credential">>),
  param_limit     |-> When(params > MaxParams, <<"error">>),
  state_not_empty |-> When("field" \notin seen, <<"error">>),
  state_given     |-> When("state" \notin seen, <<"error">>)]

NotedProduction ==
  {"credential_list", "param_limit", "state_not_empty", "state_given"}

-----------------------------------------------------------------------------
\* Marks on the stack

Enters == [x \in {"for+", "lambda+", "record+"} |->
             CASE x = "for+" -> "for" [] x = "lambda+" -> "lambda"
               [] x = "record+" -> "record"]
Leaves == [x \in {"expression-", "for-", "lambda-", "record-"} |->
             CASE x = "expression-" -> "expression" [] x = "for-" -> "for"
               [] x = "lambda-" -> "lambda" [] x = "record-" -> "record"]
Gets == [x \in {"got state", "got capabilities", "got credentials",
                "got derived", "got update", "got handleEvent",
                "got field"} |->
           CASE x = "got state" -> "state"
             [] x = "got capabilities" -> "capabilities"
             [] x = "got credentials" -> "credentials"
             [] x = "got derived" -> "derived"
             [] x = "got update" -> "update"
             [] x = "got handleEvent" -> "handleEvent"
             [] x = "got field" -> "field"]

Item ==
  Production \cup NotedProduction \cup Loop \cup Expectation \cup
  DOMAIN Enters \cup DOMAIN Leaves \cup DOMAIN Gets \cup
  {"parse_expression", "error", "none", "in order", "no field", "no param",
   "one param"}

\* How many functions on the stack have incremented counter c and have still
\* to decrement it.
Open(c) ==
  LET count(S) == Cardinality({i \in DOMAIN stack : stack[i] \in S})
      leaving == {x \in DOMAIN Leaves : Leaves[x] = c}
      entering == {x \in DOMAIN Enters : Enters[x] = c}
  IN  count(leaving \cup (IF c = "lambda" THEN {"lambda_body"} ELSE {}))
        - count(entering)

-----------------------------------------------------------------------------

Init ==
  /\ \E p \in Prefixes : look = Head(p) /\ ahead = Tail(p)
  /\ stack = <<"skip_newlines", "parse_program">>
  /\ taken = 0 /\ errors = 0
  /\ depth = [c \in Counter |-> 0]
  /\ params = 0 /\ last = 0 /\ seen = {}
  /\ result = "none" /\ begun = <<>>

Running == stack # <<>>
Top == Head(stack)
Rest == Tail(stack)

\* advance: the next token becomes the current one; past eof there is only
\* eof.
Advance ==
  \/ ahead # <<>> /\ look' = Head(ahead) /\ ahead' = Tail(ahead)
     /\ UNCHANGED taken
  \/ ahead = <<>> /\ look # "eof" /\ taken < MaxTokens
     /\ look' \in Input /\ taken' = taken + 1 /\ UNCHANGED ahead
  \/ ahead = <<>> /\ look' = "eof" /\ UNCHANGED <<ahead, taken>>

\* error_at: MaxErrors are kept.
Report ==
  /\ errors' = IF too_many_errors THEN errors ELSE errors + 1
  /\ begun' = <<>>

\* The iterations that have begun and not ended.
Catchers == {i \in DOMAIN stack : stack[i] = "catch"}

\* A defect: a failing expression leaves its counter incremented.
Unwind_KeepsDepth ==
  /\ stack' = IF Catchers = {} THEN <<>>
              ELSE <<"synchronize">>
                     \o SubSeq(stack, Min(Catchers) + 1, Len(stack))
  /\ UNCHANGED depth

\* None is returned up to the loop that catches it, or out of parse_program.
\* parse_expression decrements its counter on every path.
Unwind ==
  LET n == IF Catchers = {} THEN Len(stack) ELSE Min(Catchers)
      ended == {i \in 1..n : stack[i] = "expression-"}
  IN  /\ stack' = IF Catchers = {} THEN <<>>
                  ELSE <<"synchronize">> \o SubSeq(stack, n + 1, Len(stack))
      /\ depth' = [depth EXCEPT !["expression"] = @ - Cardinality(ended)]

Replace(items) == stack' = items \o Rest

\* expect, and the other expect_ functions.
Expect ==
  /\ Running /\ Top \in Expectation /\ look \in Accepts(Top)
  /\ Advance /\ stack' = Rest
  /\ UNCHANGED <<errors, depth, notes, result>>

Unexpected ==
  /\ Running /\ Top \in Expectation /\ look \notin Accepts(Top)
  /\ Report /\ Unwind
  /\ UNCHANGED <<input, params, last, seen, result>>

\* A function that reported its error, or had none, returns None.
ReturnNone ==
  /\ Running /\ Top = "none"
  /\ Unwind
  /\ UNCHANGED <<input, errors, notes, result>>

ReportError ==
  /\ Running /\ Top = "error"
  /\ Report /\ stack' = Rest
  /\ UNCHANGED <<input, depth, params, last, seen, result>>

Expand ==
  /\ Running
  /\ \/ Top \in Production /\ Replace(Table[look][Top])
     \/ Top \in NotedProduction /\ Replace(Noted[Top])
     \/ Top \in Loop /\ Replace(Turn(Top))
  /\ result' = IF Top = "end_of_file" THEN "some" ELSE result
  /\ UNCHANGED <<input, errors, depth, notes>>

\* parse_expression: too deep is an error and None.
Expression ==
  /\ Running /\ Top = "parse_expression"
  /\ \/ /\ depth["expression"] < Limit["expression"]
        /\ depth' = [depth EXCEPT !["expression"] = @ + 1]
        /\ Replace(<<"parse_or", "expression-">>)
        /\ UNCHANGED <<errors, begun>>
     \/ /\ depth["expression"] >= Limit["expression"]
        /\ Report /\ Unwind
  /\ UNCHANGED <<input, params, last, seen, result>>

\* A for loop, lambda or record begins: too deep is only an error.
Enter ==
  /\ Running /\ Top \in DOMAIN Enters
  /\ LET c == Enters[Top]
     IN  /\ depth' = [depth EXCEPT ![c] = @ + 1]
         /\ IF depth[c] + 1 > Limit[c] THEN Report
                                       ELSE UNCHANGED <<errors, begun>>
  /\ stack' = Rest
  /\ UNCHANGED <<input, params, last, seen, result>>

Leave ==
  /\ Running /\ Top \in DOMAIN Leaves
  /\ depth' = [depth EXCEPT ![Leaves[Top]] = @ - 1]
  /\ stack' = Rest
  /\ UNCHANGED <<input, errors, notes, result>>

\* A defect: the first block fixes what may follow.
InOrder_KeepsFirst ==
  /\ Running /\ Top = "in order"
  /\ IF Rank[look] < last THEN Report
     ELSE /\ UNCHANGED errors
          /\ begun' = When(errors = 0, Append(begun, look))
  /\ last' = IF last = 0 THEN Rank[look] ELSE last
  /\ stack' = Rest
  /\ UNCHANGED <<input, depth, params, seen, result>>

\* The order of blocks.
InOrder ==
  /\ Running /\ Top = "in order"
  /\ IF Rank[look] < last THEN Report
     ELSE /\ UNCHANGED errors
          /\ begun' = When(errors = 0, Append(begun, look))
  /\ last' = Rank[look]
  /\ stack' = Rest
  /\ UNCHANGED <<input, depth, params, seen, result>>

\* A block that may come once, or a field of the state block, was parsed.
Got ==
  /\ Running
  /\ \/ Top \in DOMAIN Gets /\ seen' = seen \cup {Gets[Top]}
     \/ Top = "no field" /\ seen' = seen \ {"field"}
  /\ stack' = Rest
  /\ UNCHANGED <<input, errors, depth, params, last, result, begun>>

CountParam ==
  /\ Running
  /\ \/ Top = "no param" /\ params' = 0
     \/ Top = "one param"
        /\ params' = IF params > MaxParams THEN params ELSE params + 1
  /\ stack' = Rest
  /\ UNCHANGED <<input, errors, depth, last, seen, result, begun>>

Next ==
  \/ Expect \/ Unexpected \/ ReturnNone \/ ReportError
  \/ Expand \/ Expression \/ Enter \/ Leave
  \/ InOrder \/ Got \/ CountParam

Spec == Init /\ [][Next]_vars

\* Parsing is one synchronous call.
FairSpec == Spec /\ WF_vars(Next)

-----------------------------------------------------------------------------
\* Properties

\* Tokens are skipped, and a function returns None, only after an error was
\* reported: what the parser accepts without error it has read entirely.
SkipsOnlyAfterError ==
  Running /\ Top \in {"synchronize", "none"} => errors > 0

\* The expression counter is the number of open parse_expression calls, also
\* after errors; the other three are while there was no error, and are never
\* below the true nesting after one, so that nesting beyond a limit never
\* goes unreported.
DepthsCovered ==
  /\ depth["expression"] = Open("expression")
  /\ \A c \in Counter \ {"expression"} :
       /\ depth[c] >= Open(c)
       /\ errors = 0 => depth[c] = Open(c)
       /\ Open(c) > Limit[c] => errors > 0

\* A program accepted without error has been read to its end, and its blocks
\* come in the prescribed order, the single ones once and the state block
\* not missing.
AcceptedWellFormed ==
  ~Running /\ result = "some" /\ errors = 0 =>
    /\ look = "eof"
    /\ "state" \in seen
    /\ \A i, j \in DOMAIN begun :
         i < j => /\ Rank[begun[i]] <= Rank[begun[j]]
                  /\ begun[i] = begun[j] => begun[i] \notin Single

\* The innermost loop is one of the two that go on whatever the number of
\* errors.
InUncapped ==
  \E i \in DOMAIN stack :
    /\ stack[i] \in {"props", "capability_list", "capability"}
    /\ \A j \in 1..(i - 1) : stack[j] \notin Loop

\* The parser ends on every input, unless it gets stuck in one of these two
\* loops: everywhere else the limit on errors ends a loop that does not
\* advance.
HaltsIfCapped == <>~Running \/ <>[]InUncapped

\* The parser ends on every input.
Halts == <>~Running
=============================================================================
