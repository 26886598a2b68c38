------------------------------ MODULE MCParser ------------------------------
(***************************************************************************)
(* Inputs that begin in the middle of each kind of construct, and go on    *)
(* with any few tokens.                                                    *)
(***************************************************************************)
EXTENDS Parser

Space == <<"space", "ident", "{">>
State == Space \o <<"state", "{", "ident", ":", "number type", "=", "number",
                    "newline", "}">>
Action == State \o <<"action", "ident", "(", ")", "{">>
View == State \o <<"view", "ident", "(", ")", "->", "Surface", "{">>

MCPrefixes == {
  Space, State, Action, View,
  Space \o <<"type", "ident", "=">>,
  Space \o <<"state", "{", "ident", ":", "{">>,
  State \o <<"capabilities", "{">>,
  State \o <<"credentials", "{">>,
  State \o <<"derived", "{", "}">>,
  State \o <<"action", "ident", "(", "ident", ":", "number type">>,
  State \o <<"}", "tests", "{", "test", "string">>,
  Action \o <<"for", "ident", "in", "ident", "{">>,
  Action \o <<"match", "ident", "{">>,
  Action \o <<"fn", "(", ")", "{">>,
  Action \o <<"ident", "(", "{", "ident", ":">>,
  Action \o <<"string start", "${", "ident">>,
  View \o <<"Ident", "{">>}

MCInput == {
  "newline", "{", "}", "(", ")", "]", ",", ":", "=", "->", "<", "+",
  "ident", "number", "string", "number type", "}$", "string end",
  "state", "derived", "action", "for", "in", "fn", "if", "set", "_",
  "required", "tests"}

MCLimit == [expression |-> 2, for |-> 1, lambda |-> 1, record |-> 1]
=============================================================================
