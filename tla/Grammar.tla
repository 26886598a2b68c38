------------------------------- MODULE Grammar -------------------------------
(***************************************************************************)
(* The productions of the recursive-descent parser (pepl-parser): what     *)
(* each parse_ function does when the current token is t, as a sequence.   *)
(* An element is a token or token class to expect ("{", "a name"), another *)
(* production, a loop, or a mark that Parser interprets ("error", "none",  *)
(* "for+", "got state", ...).  Where a function looks at the token in its  *)
(* middle, its rest is a production of its own.  Only kinds of tokens are  *)
(* told apart, and kinds that every function treats alike share a name;    *)
(* which tree is built is not modelled.                                    *)
(***************************************************************************)
EXTENDS Sequences

\* TokenKind, by what the parser distinguishes.
Module == {"module", "string type", "list type", "color type"}
Names == {"ident", "Ident", "with_responses"}
BlockKeyword == {"type", "state", "capabilities", "credentials", "derived",
                 "invariant", "action", "view", "update", "handleEvent"}
Keyword ==
  BlockKeyword \cup Module \cup
  {"space", "set", "let", "if", "else", "for", "in", "match", "return",
   "required", "optional", "tests", "test", "assert", "fn", "true", "nil",
   "not", "and", "number type", "bool type", "Result", "Surface",
   "InputEvent"}
Comparison == {"<", ">", "=="}
Token ==
  Keyword \cup Names \cup Comparison \cup
  {"newline", "eof", "{", "}", "(", ")", "[", "]", ",", ":", "=", "->",
   "|", ".", "?", "...", "_", "??", "-", "+", "number", "string",
   "string start", "string part", "string end", "${", "}$"}

End == {"}", "eof"}

\* What the expect_ functions accept.
Expectation == Token \cup {"any", "a name", "a Name", "a field", "a module",
                           "a member"}
Accepts(x) ==
  CASE x = "any"      -> Token
    [] x = "a name"   -> Names
    [] x = "a Name"   -> {"Ident"}
    [] x = "a field"  -> Names \cup Keyword
    [] x = "a module" -> Names \cup Module
    [] x = "a member" -> Names \cup {"set", "type", "match", "update"}
    [] OTHER          -> {x}

\* x when the condition holds, else nothing.
When(condition, x) == IF condition THEN x ELSE <<>>

-----------------------------------------------------------------------------
\* Between the tokens (parser.rs)

Cursor(t) == [
  skip_newlines |-> When(t = "newline", <<"any", "skip_newlines">>),
  expect_newline_or_eof |->
    CASE t = "newline" -> <<"any", "skip_newlines">>
      [] t \in End     -> <<>>
      [] OTHER         -> <<"error">>,
  eat_comma |-> When(t = ",", <<"any">>)]

\* The end of an iteration that did not fail: nothing to resynchronize.
Recovery(t) == [
  catch |-> <<>>,
  synchronize |->
    CASE t = "newline" -> <<"any", "skip_newlines">>
      [] t \in End \cup BlockKeyword \cup
               {"space", "set", "let", "if", "for", "match", "return",
                "tests", "test", "assert"} -> <<>>
      [] OTHER -> <<"any", "synchronize">>]

-----------------------------------------------------------------------------
\* Declarations (parse_decl.rs)

Program(t) == [
  parse_program |-> <<"skip_newlines", "parse_space_decl", "after_space">>,
  after_space   |-> <<"skip_newlines", "tests_blocks", "end_of_file">>,
  end_of_file   |-> When(t # "eof", <<"error">>),
  parse_space_decl |->
    <<"space", "a name", "{", "skip_newlines", "blocks", "state_given", "}">>]

TypeAndState(t) == [
  parse_type_decl |-> <<"any", "a name", "=", "skip_newlines", "type_body">>,
  type_body |-> IF t = "|" THEN <<"variants">>
                ELSE <<"parse_type_annotation", "expect_newline_or_eof">>,
  variants |-> When(t = "|", <<"any", "skip_newlines", "parse_variant_def",
                               "skip_newlines", "variants">>),
  parse_variant_def |-> <<"a name", "variant_params">>,
  variant_params |-> When(t = "(", <<"any", "parse_param_list", ")">>),
  parse_state_block |-> <<"any", "{", "skip_newlines", "no field",
                          "state_fields", "}", "state_not_empty">>,
  parse_state_field |->
    <<"a field", ":", "parse_type_annotation", "=", "parse_expression",
      "expect_newline_or_eof", "got field">>]

\* The loop of the capabilities block does not look at the errors.
CapabilitiesAndCredentials(t) == [
  parse_capabilities_block |->
    <<"any", "{", "skip_newlines", "capability_list", "}">>,
  capability_list |-> When(t \notin End, <<"skip_newlines", "capability">>),
  capability |->
    CASE t = "}" -> <<>>
      [] t \in {"required", "optional"} ->
           <<"any", ":", "parse_ident_list", "skip_newlines",
             "capability_list">>
      [] OTHER -> <<"error", "synchronize", "capability_list">>,
  parse_ident_list |-> <<"[", "skip_newlines", "idents", "]">>,
  idents |-> When(t \notin {"]", "eof"},
    <<"skip_newlines", "a module", "eat_comma", "skip_newlines", "idents">>),
  parse_credentials_block |->
    <<"any", "{", "skip_newlines", "credential_list", "}">>,
  parse_credential |-> <<"a name", ":", "parse_type_annotation",
    "expect_newline_or_eof", "skip_newlines", "credential_list">>]

DerivedInvariantAction(t) == [
  parse_derived_block |->
    <<"any", "{", "skip_newlines", "derived_fields", "}">>,
  parse_derived_field |->
    <<"a field", ":", "parse_type_annotation", "=", "parse_expression",
      "expect_newline_or_eof">>,
  parse_invariant_decl |-> <<"any", "a name", "{", "skip_newlines",
    "parse_expression", "skip_newlines", "}">>,
  parse_action_decl |-> <<"any", "a name", "(", "parse_param_list",
    "param_limit", ")", "parse_block">>,
  parse_param_list |-> <<"no param", "skip_newlines", "first_param">>,
  first_param |-> When(t # ")", <<"param">>),
  param |-> <<"skip_newlines", "a name", ":", "parse_type_annotation",
              "one param", "skip_newlines", "more_params">>,
  more_params |-> When(t = ",", <<"any", "skip_newlines", "first_param">>)]

ViewAndGameLoop == [
  parse_view_decl |-> <<"any", "a name", "(", "parse_param_list", ")", "->",
                        "Surface", "parse_ui_block">>,
  parse_update_decl |->
    <<"any", "(", "a name", ":", "number type", ")", "parse_block">>,
  parse_handle_event_decl |->
    <<"any", "(", "a name", ":", "InputEvent", ")", "parse_block">>]

Tests(t) == [
  parse_tests_block |-> <<"any", "{", "skip_newlines", "test_cases", "}">>,
  parse_test_case |->
    <<"test", "string", "parse_with_responses", "parse_block">>,
  parse_with_responses |->
    When(t = "with_responses",
         <<"any", "{", "skip_newlines", "response_mappings", "}">>),
  parse_response_mapping |->
    <<"a module", ".", "a name", "(", "parse_arg_list", ")", "->",
      "parse_expression", "eat_comma", "skip_newlines">>]

-----------------------------------------------------------------------------
\* Statements (parse_stmt.rs)

Statements(t) == [
  parse_block |-> <<"{", "skip_newlines", "statements", "}">>,
  parse_statement |-> <<"skip_newlines", "statement">>,
  statement |->
    CASE t \in End -> <<"none">>
      [] t = "set" -> <<"parse_set_stmt">>
      [] t = "let" -> <<"parse_let_binding">>
      [] t = "if" -> <<"parse_if_expr_node">>
      [] t = "for" -> <<"parse_for_expr_node">>
      [] t = "match" -> <<"parse_match_expr_node">>
      [] t = "return" -> <<"any", "expect_newline_or_eof">>
      [] t = "assert" -> <<"any", "parse_expression", "message",
                           "expect_newline_or_eof">>
      [] OTHER -> <<"parse_expression", "expect_newline_or_eof">>,
  message |-> When(t = ",", <<"any", "string">>),
  parse_set_stmt |-> <<"any", "a name", "path", "=", "parse_expression",
                       "expect_newline_or_eof">>,
  path |-> When(t = ".", <<"any", "a field", "path">>),
  parse_let_binding |-> <<"any", "let_name", "=", "parse_expression",
                          "expect_newline_or_eof">>,
  let_name |-> IF t = "_" THEN <<"any">> ELSE <<"a name", "let_type">>,
  let_type |-> When(t = ":", <<"any", "parse_type_annotation">>)]

-----------------------------------------------------------------------------
\* Views (parse_ui.rs)

Ui(t) == [
  parse_ui_block |-> <<"{", "skip_newlines", "elements", "}">>,
  parse_ui_element |-> <<"skip_newlines", "element">>,
  element |->
    CASE t = "let" -> <<"parse_let_binding">>
      [] t = "if" -> <<"parse_ui_if">>
      [] t = "for" -> <<"parse_ui_for">>
      [] t = "Ident" -> <<"parse_component_expr">>
      [] OTHER -> <<"error", "none">>,
  parse_component_expr |->
    <<"a Name", "{", "skip_newlines", "props", "}", "children">>,
  children |-> When(t = "{", <<"parse_ui_block">>),
  parse_prop_assign |->
    <<"a name", ":", "parse_expression", "eat_comma", "skip_newlines">>,
  parse_ui_if |-> <<"any", "parse_expression", "parse_ui_block", "ui_else">>,
  ui_else |-> When(t = "else", <<"any", "ui_else_branch">>),
  ui_else_branch |->
    IF t = "if" THEN <<"parse_ui_if">> ELSE <<"parse_ui_block">>,
  parse_ui_for |-> <<"any", "a name", "index", "in", "parse_expression",
                     "parse_ui_block">>]

-----------------------------------------------------------------------------
\* Types (parse_type.rs)

Types(t) == [
  parse_type_annotation |->
    CASE t \in Names \cup {"number type", "string type", "bool type", "nil",
                           "color type", "Surface", "InputEvent"} -> <<"any">>
      [] t = "list type" -> <<"any", "<", "parse_type_annotation", ">">>
      [] t = "Result" -> <<"any", "<", "parse_type_annotation", ",",
                           "parse_type_annotation", ">">>
      [] t = "{" -> <<"any", "skip_newlines", "type_fields", "}">>
      [] t = "(" -> <<"any", "type_params", ")", "->",
                      "parse_type_annotation">>
      [] OTHER -> <<"error", "none">>,
  type_params |-> When(t \notin {")", "eof"},
                       <<"parse_type_annotation", "more_type_params">>),
  more_type_params |-> When(t = ",", <<"any", "type_params">>),
  parse_record_type_field |->
    <<"a field", "question", ":", "parse_type_annotation">>,
  question |-> When(t = "?", <<"any">>)]

-----------------------------------------------------------------------------
\* Expressions (parse_expr.rs).  parse_or, parse_and and parse_nil_coalesce
\* are one level, parse_add and parse_mul another.

Precedence(t) == [
  parse_or |-> <<"parse_comparison", "or_rest">>,
  or_rest |-> When(t \in {"and", "??"},
                   <<"any", "parse_comparison", "or_rest">>),
  parse_comparison |-> <<"parse_add", "comparison_rest">>,
  comparison_rest |->
    When(t \in Comparison, <<"any", "parse_add", "no_chaining">>),
  no_chaining |-> When(t \in Comparison, <<"error">>)]

UnaryAndPostfix(t) == [
  parse_add |-> <<"parse_unary", "add_rest">>,
  add_rest |-> When(t \in {"+", "-"}, <<"any", "parse_unary", "add_rest">>),
  parse_unary |-> IF t \in {"not", "-"} THEN <<"any", "parse_postfix">>
                                        ELSE <<"parse_postfix">>,
  parse_postfix |-> <<"parse_primary", "postfix_rest">>,
  postfix_rest |->
    CASE t = "?" -> <<"any", "postfix_rest">>
      [] t = "." -> <<"any", "a member", "call", "postfix_rest">>
      [] OTHER -> <<>>]

Primary(t) == [
  parse_primary |->
    CASE t \in {"number", "string", "true", "nil"} -> <<"any">>
      [] t = "string start" -> <<"any", "parse_string_interpolation">>
      [] t = "[" -> <<"parse_list_literal">>
      [] t = "{" -> <<"parse_record_literal">>
      [] t = "(" -> <<"any", "parse_expression", ")">>
      [] t = "if" -> <<"parse_if_expr_node">>
      [] t = "for" -> <<"parse_for_expr_node">>
      [] t = "match" -> <<"parse_match_expr_node">>
      [] t = "fn" -> <<"parse_lambda">>
      [] t \in Module -> <<"parse_qualified_call">>
      [] t \in Names -> <<"any", "call">>
      [] OTHER -> <<"error", "none">>]

Calls(t) == [
  parse_qualified_call |->
    <<"a module", ".", "a member", "(", "parse_arg_list", ")">>,
  call |-> When(t = "(", <<"any", "parse_arg_list", ")">>),
  parse_arg_list |-> <<"skip_newlines", "args">>,
  args |-> When(t # ")", <<"parse_expression", "skip_newlines", "more_args">>),
  more_args |-> When(t = ",", <<"any", "skip_newlines", "args">>)]

ControlFlow(t) == [
  parse_if_expr_node |->
    <<"any", "parse_expression", "parse_block", "else_branch">>,
  else_branch |-> When(t = "else", <<"any", "else_kind">>),
  else_kind |-> IF t = "if" THEN <<"parse_if_expr_node">>
                            ELSE <<"parse_block">>,
  parse_for_expr_node |-> <<"any", "for+", "a name", "index", "in",
                            "parse_expression", "parse_block", "for-">>,
  index |-> When(t = ",", <<"any", "a name">>),
  parse_match_expr_node |->
    <<"any", "parse_expression", "{", "skip_newlines", "arms", "}">>,
  parse_match_arm |-> <<"parse_pattern", "->", "arm_body">>,
  arm_body |-> IF t = "{" THEN <<"parse_block">> ELSE <<"parse_expression">>,
  parse_pattern |-> <<"skip_newlines", "pattern">>,
  pattern |-> IF t = "_" THEN <<"any">> ELSE <<"a name", "bindings">>,
  bindings |-> When(t = "(", <<"any", "first_binding", ")">>),
  first_binding |-> When(t # ")", <<"a name", "more_bindings">>),
  more_bindings |-> When(t = ",", <<"any", "a name", "more_bindings">>)]

LambdaAndList(t) == [
  parse_lambda |-> <<"any", "(", "parse_param_list", "param_limit", ")",
                     "lambda+", "lambda_body">>,
  lambda_body |-> IF t = "{" THEN <<"parse_block", "lambda-">>
                             ELSE <<"error", "lambda-", "none">>,
  parse_list_literal |-> <<"any", "skip_newlines", "items", "]">>,
  items |-> When(t # "]", <<"parse_expression", "skip_newlines", "more_items">>),
  more_items |-> When(t = ",", <<"any", "skip_newlines", "items">>)]

RecordAndString(t) == [
  parse_record_literal |->
    <<"any", "record+", "skip_newlines", "entries", "}", "record-">>,
  entries |->
    CASE t = "}" -> <<>>
      [] t = "..." -> <<"any", "parse_expression", "skip_newlines",
                        "more_entries">>
      [] OTHER -> <<"a field", ":", "parse_expression", "skip_newlines",
                    "more_entries">>,
  more_entries |-> When(t = ",", <<"any", "skip_newlines", "entries">>),
  parse_string_interpolation |->
    <<"${", "parse_expression", "}$", "string_rest">>,
  string_rest |->
    CASE t = "string part" -> <<"any", "parse_string_interpolation">>
      [] t = "string end" -> <<"any">>
      [] OTHER -> <<"error", "none">>]

-----------------------------------------------------------------------------

\* The groups define different productions, the same ones for every token.
Groups(t) ==
  {Cursor(t), Recovery(t), Program(t), TypeAndState(t),
   CapabilitiesAndCredentials(t), DerivedInvariantAction(t), ViewAndGameLoop,
   Tests(t), Statements(t), Ui(t), Types(t), Precedence(t),
   UnaryAndPostfix(t), Primary(t), Calls(t), ControlFlow(t), LambdaAndList(t),
   RecordAndString(t)}

Production == UNION {DOMAIN group : group \in Groups("eof")}

\* By token and production.
Table ==
  [t \in Token |->
     [p \in Production |->
        (CHOOSE group \in Groups(t) : p \in DOMAIN group)[p]]]
=============================================================================
