---------------------------- MODULE ParserProofs -----------------------------
(***************************************************************************)
(* What the parser keeps right on inputs of any length, with any limits.   *)
(* All three theorems rest on one invariant of its stack, that is, of what *)
(* the functions of the parser still have to do: everything on it stands   *)
(* where the productions put it, and until the first error nothing on it   *)
(* skips or gives up without reporting first. To it the second adds what   *)
(* the nesting counters count, and the third what a program without error  *)
(* has seen and will still see. That each production of the grammar keeps  *)
(* the invariant is shown once, by the form of what it is replaced by.     *)
(***************************************************************************)
EXTENDS Parser, SequenceTheorems, FiniteSetTheorems, TLAPS

-----------------------------------------------------------------------------
\* Sequences, and how often members of a set occur in one.

\* Every stack is a sequence of what it holds: marks and productions need no
\* common set.
Elements(s) == {s[i] : i \in DOMAIN s}
IsSeq(s) == s \in Seq(Elements(s))

\* The library's facts about sequences, in this form.
LEMMA SeqFacts ==
  ASSUME NEW s, IsSeq(s)
  PROVE  Len(s) \in Nat /\ DOMAIN s = 1..Len(s) /\ (s # <<>> => Len(s) >= 1)
BY DEF IsSeq

LEMMA MemberSeq ==
  ASSUME NEW S, NEW s \in Seq(S)
  PROVE  IsSeq(s)
<1>1. Len(s) \in Nat /\ DOMAIN s = 1..Len(s)
  OBVIOUS
<1>2. \A i \in 1..Len(s) : s[i] \in Elements(s)
  BY <1>1 DEF Elements
<1>3. s = [i \in 1..Len(s) |-> s[i]]
  BY <1>1
<1> QED BY <1>1, <1>2, <1>3 DEF IsSeq

LEMMA EmptyIsSeq == IsSeq(<<>>)
BY DEF IsSeq

LEMMA ConcatFacts ==
  ASSUME NEW a, NEW b, IsSeq(a), IsSeq(b)
  PROVE  /\ IsSeq(a \o b)
         /\ Len(a \o b) = Len(a) + Len(b)
         /\ \A i \in 1..Len(a) : (a \o b)[i] = a[i]
         /\ \A i \in 1..Len(b) : (a \o b)[Len(a) + i] = b[i]
<1> DEFINE S == Elements(a) \cup Elements(b)
<1>1. a \in Seq(S) /\ b \in Seq(S)
  BY DEF IsSeq
<1> HIDE DEF S
<1>2. IsSeq(a \o b)
  BY <1>1, MemberSeq, ConcatProperties
<1> QED BY <1>1, <1>2, ConcatProperties

LEMMA TailFacts ==
  ASSUME NEW s, IsSeq(s), s # <<>>
  PROVE  /\ IsSeq(Tail(s))
         /\ Len(Tail(s)) = Len(s) - 1
         /\ \A i \in 1..(Len(s) - 1) : Tail(s)[i] = s[i + 1]
         /\ Head(s) = s[1] /\ Len(s) \in Nat /\ Len(s) >= 1
<1>1. s \in Seq(Elements(s))
  BY DEF IsSeq
<1>2. Tail(s) \in Seq(Elements(s))
  BY <1>1
<1>3. IsSeq(Tail(s))
  BY <1>2, MemberSeq
<1> QED BY <1>1, <1>3

LEMMA SubSeqFacts ==
  ASSUME NEW s, IsSeq(s), NEW n \in 1..(Len(s) + 1)
  PROVE  LET r == SubSeq(s, n, Len(s)) IN
         /\ IsSeq(r)
         /\ Len(r) = Len(s) - n + 1
         /\ \A i \in 1..(Len(s) - n + 1) : r[i] = s[n + i - 1]
<1>1. s \in Seq(Elements(s)) /\ Len(s) \in Nat
  BY DEF IsSeq
<1>2. SubSeq(s, n, Len(s)) \in Seq(Elements(s))
  BY <1>1
<1>3. IsSeq(SubSeq(s, n, Len(s)))
  BY <1>2, MemberSeq
<1> QED BY <1>1, <1>3

LEMMA PrefixFacts ==
  ASSUME NEW s, IsSeq(s), NEW n \in 1..(Len(s) + 1)
  PROVE  LET p == SubSeq(s, 1, n - 1) IN
         /\ IsSeq(p)
         /\ Len(p) = n - 1
         /\ \A i \in 1..(n - 1) : p[i] = s[i]
         /\ s = p \o SubSeq(s, n, Len(s))
<1>1. s \in Seq(Elements(s)) /\ Len(s) \in Nat
  BY DEF IsSeq
<1>2. SubSeq(s, 1, n - 1) \in Seq(Elements(s))
  BY <1>1
<1>3. IsSeq(SubSeq(s, 1, n - 1))
  BY <1>2, MemberSeq
<1>4. /\ 1 \in 1..(Len(s) + 1) /\ n - 1 \in (1 - 1)..Len(s)
      /\ Len(s) \in (n - 1)..Len(s) /\ n - 1 + 1 = n
  BY <1>1
<1>5. SubSeq(s, 1, n - 1) \o SubSeq(s, (n - 1) + 1, Len(s)) = SubSeq(s, 1, Len(s))
  <2> DEFINE k == n - 1
  <2>1. k \in (1 - 1)..Len(s) /\ Len(s) \in k..Len(s)
    BY <1>4
  <2> HIDE DEF k
  <2>2. SubSeq(s, 1, k) \o SubSeq(s, k + 1, Len(s)) = SubSeq(s, 1, Len(s))
    BY <1>1, <1>4, <2>1, ConcatAdjacentSubSeq
  <2> QED BY <2>2 DEF k
<1>6. s = SubSeq(s, 1, n - 1) \o SubSeq(s, n, Len(s))
  BY <1>1, <1>4, <1>5, SubSeqFull
<1>7. /\ Len(SubSeq(s, 1, n - 1)) = n - 1
      /\ \A i \in 1..(n - 1) : SubSeq(s, 1, n - 1)[i] = s[i]
  BY <1>1
<1> QED BY <1>3, <1>6, <1>7

-----------------------------------------------------------------------------
\* How many items of s are in S.
Where(s, S) == {i \in DOMAIN s : s[i] \in S}
Count(s, S) == Cardinality(Where(s, S))

LEMMA CountType ==
  ASSUME NEW s, IsSeq(s), NEW S
  PROVE  IsFiniteSet(Where(s, S)) /\ Count(s, S) \in Nat
<1>1. Where(s, S) \in SUBSET (1..Len(s)) /\ Len(s) \in Nat
  BY SeqFacts DEF Where
<1>2. IsFiniteSet(1..Len(s))
  BY <1>1, FS_Interval
<1> QED BY <1>1, <1>2, FS_Subset, FS_CardinalityType DEF Count

LEMMA CountNone ==
  ASSUME NEW s, NEW S, \A i \in DOMAIN s : s[i] \notin S
  PROVE  Count(s, S) = 0
<1>1. Where(s, S) = {}
  BY DEF Where
<1> QED BY <1>1, FS_EmptySet DEF Count

LEMMA CountOne ==
  ASSUME NEW s, NEW S, NEW k \in DOMAIN s, s[k] \in S,
         \A i \in DOMAIN s : i # k => s[i] \notin S
  PROVE  Count(s, S) = 1
<1>1. Where(s, S) = {k}
  BY DEF Where
<1> QED BY <1>1, FS_Singleton DEF Count

LEMMA CountConcat ==
  ASSUME NEW a, NEW b, IsSeq(a), IsSeq(b), NEW S
  PROVE  Count(a \o b, S) = Count(a, S) + Count(b, S)
<1> DEFINE A == Where(a, S)
           B == Where(b, S)
           C == {i \in (Len(a) + 1)..(Len(a) + Len(b)) : (a \o b)[i] \in S}
           f == [i \in B |-> Len(a) + i]
<1>1. /\ Len(a) \in Nat /\ DOMAIN a = 1..Len(a)
      /\ Len(b) \in Nat /\ DOMAIN b = 1..Len(b)
  BY SeqFacts
<1>2. /\ IsSeq(a \o b) /\ Len(a \o b) = Len(a) + Len(b)
      /\ \A i \in 1..Len(a) : (a \o b)[i] = a[i]
      /\ \A i \in 1..Len(b) : (a \o b)[Len(a) + i] = b[i]
  BY ConcatFacts
<1>3. DOMAIN (a \o b) = 1..(Len(a) + Len(b))
  BY <1>2, SeqFacts
<1>4. Where(a \o b, S) = A \cup C
  BY <1>1, <1>2, <1>3 DEF Where
<1>5. A \cap C = {}
  BY <1>1 DEF Where
<1>6. f \in [B -> C]
  BY <1>1, <1>2 DEF Where
<1>7. \A x, y \in B : f[x] = f[y] => x = y
  BY <1>1 DEF Where
<1>8. \A c \in C : \E x \in B : f[x] = c
  <2> SUFFICES ASSUME NEW c \in C PROVE \E x \in B : f[x] = c
    OBVIOUS
  <2>1. c - Len(a) \in 1..Len(b) /\ Len(a) + (c - Len(a)) = c
    BY <1>1
  <2>2. c - Len(a) \in B
    BY <2>1, <1>1, <1>2 DEF Where
  <2> QED BY <2>1, <2>2
<1>9. f \in Bijection(B, C)
  BY <1>6, <1>7, <1>8 DEF Bijection, Injection, Surjection, IsInjective
<1>10. IsFiniteSet(A) /\ IsFiniteSet(B) /\ Count(a, S) \in Nat /\ Count(b, S) \in Nat
  BY CountType
<1>11. IsFiniteSet(C) /\ Cardinality(C) = Cardinality(B)
  BY <1>9, <1>10, FS_Bijection DEF ExistsBijection
<1>12. Cardinality(A \cup C) = Cardinality(A) + Cardinality(C) - Cardinality({})
  <2> HIDE DEF A, C
  <2> QED BY <1>5, <1>10, <1>11, FS_Union
<1> HIDE DEF A, B, C
<1>13. Cardinality(A \cup C) = Cardinality(A) + Cardinality(B)
  BY <1>10, <1>11, <1>12, FS_EmptySet, FS_CardinalityType
<1> QED BY <1>4, <1>13 DEF Count, A, B

-----------------------------------------------------------------------------
\* The productions of Grammar, as far as marks are concerned.

\* Marks are not productions, and are on the stack only where the productions
\* say so; so are these productions.
Mark == {"error", "none", "in order", "for+", "for-", "lambda+", "lambda-",
         "record+", "record-", "expression-", "got state",
         "got capabilities", "got credentials", "got derived", "got update",
         "got handleEvent"}
Special ==
  Mark \cup {"synchronize", "statement", "statements", "parse_statement",
            "parse_program", "after_space", "end_of_file",
            "parse_space_decl", "blocks", "state_given", "lambda_body"}

Plain(u) == IsSeq(u) /\ \A i \in DOMAIN u : u[i] \notin Special

\* What production p does at token t, as far as marks and the productions
\* above are concerned.
Shape(p, t, u) ==
  /\ p \notin Mark \cup {"any", "blocks", "statements", "state_given"}
  /\ CASE p = "skip_newlines" ->
            u = When(t = "newline", <<"any", "skip_newlines">>)
       [] p = "synchronize" -> Plain(u) \/ u = <<"any", "synchronize">>
       [] p = "parse_program" ->
            u = <<"skip_newlines", "parse_space_decl", "after_space">>
       [] p = "after_space" ->
            u = <<"skip_newlines", "tests_blocks", "end_of_file">>
       [] p = "end_of_file" -> u = When(t # "eof", <<"error">>)
       [] p = "parse_space_decl" ->
            u = <<"space", "a name", "{", "skip_newlines", "blocks",
                  "state_given", "}">>
       [] p = "parse_block" ->
            u = <<"{", "skip_newlines", "statements", "}">>
       [] p = "parse_statement" -> u = <<"skip_newlines", "statement">>
       [] p = "statement" -> IF t \in End THEN u = <<"none">> ELSE Plain(u)
       [] p = "parse_for_expr_node" ->
            u = <<"any", "for+", "a name", "index", "in", "parse_expression",
                  "parse_block", "for-">>
       [] p = "parse_lambda" ->
            u = <<"any", "(", "parse_param_list", "param_limit", ")",
                  "lambda+", "lambda_body">>
       [] p = "lambda_body" ->
            u = IF t = "{" THEN <<"parse_block", "lambda-">>
                           ELSE <<"error", "lambda-", "none">>
       [] p = "parse_record_literal" ->
            u = <<"any", "record+", "skip_newlines", "entries", "}",
                  "record-">>
       [] OTHER -> \/ Plain(u)
                   \/ u = <<"error">>
                   \/ u = <<"error", "none">>
                   \/ u = <<"error", "synchronize", "capability_list">>

LEMMA PlainTuples ==
  /\ Plain(<<>>)
  /\ \A a :
       {a} \cap Special = {} => Plain(<<a>>)
  /\ \A a, b :
       {a, b} \cap Special = {} => Plain(<<a, b>>)
  /\ \A a, b, c :
       {a, b, c} \cap Special = {} => Plain(<<a, b, c>>)
  /\ \A a, b, c, d :
       {a, b, c, d} \cap Special = {} => Plain(<<a, b, c, d>>)
  /\ \A a, b, c, d, e :
       {a, b, c, d, e} \cap Special = {} => Plain(<<a, b, c, d, e>>)
  /\ \A a, b, c, d, e, f :
       {a, b, c, d, e, f} \cap Special = {} => Plain(<<a, b, c, d, e, f>>)
  /\ \A a, b, c, d, e, f, g :
       {a, b, c, d, e, f, g} \cap Special = {} => Plain(<<a, b, c, d, e, f, g>>)
  /\ \A a, b, c, d, e, f, g, h :
       {a, b, c, d, e, f, g, h} \cap Special = {} => Plain(<<a, b, c, d, e, f, g, h>>)
  /\ \A a, b, c, d, e, f, g, h, i :
       {a, b, c, d, e, f, g, h, i} \cap Special = {} =>
           Plain(<<a, b, c, d, e, f, g, h, i>>)
  /\ \A a, b, c, d, e, f, g, h, i, j :
       {a, b, c, d, e, f, g, h, i, j} \cap Special = {} =>
           Plain(<<a, b, c, d, e, f, g, h, i, j>>)
BY DEF Plain, IsSeq, Elements

\* The groups of productions of Grammar, one by one.
LEMMA CursorShape ==
  ASSUME NEW t
  PROVE  /\ DOMAIN Cursor(t) = DOMAIN Cursor("eof")
         /\ \A p \in DOMAIN Cursor(t) : Shape(p, t, Cursor(t)[p])
<1>1. /\ Shape("skip_newlines", t, Cursor(t).skip_newlines)
      /\ Shape("expect_newline_or_eof", t, Cursor(t).expect_newline_or_eof)
      /\ Shape("eat_comma", t, Cursor(t).eat_comma)
  BY PlainTuples, Zenon DEF Cursor, Shape, Special, Mark, When, End
<1>2. \A x : DOMAIN Cursor(x) =
      {"skip_newlines", "expect_newline_or_eof", "eat_comma"}
  BY Zenon DEF Cursor
<1> QED BY <1>1, <1>2, Zenon

LEMMA RecoveryShape ==
  ASSUME NEW t
  PROVE  /\ DOMAIN Recovery(t) = DOMAIN Recovery("eof")
         /\ \A p \in DOMAIN Recovery(t) : Shape(p, t, Recovery(t)[p])
<1>1. /\ Shape("catch", t, Recovery(t).catch)
      /\ Shape("synchronize", t, Recovery(t).synchronize)
  BY PlainTuples, Zenon DEF Recovery, Shape, Special, Mark, End,
    BlockKeyword
<1>2. \A x : DOMAIN Recovery(x) =
      {"catch", "synchronize"}
  BY Zenon DEF Recovery
<1> QED BY <1>1, <1>2, Zenon

LEMMA ProgramShape ==
  ASSUME NEW t
  PROVE  /\ DOMAIN Program(t) = DOMAIN Program("eof")
         /\ \A p \in DOMAIN Program(t) : Shape(p, t, Program(t)[p])
<1>1. /\ Shape("parse_program", t, Program(t).parse_program)
      /\ Shape("after_space", t, Program(t).after_space)
      /\ Shape("end_of_file", t, Program(t).end_of_file)
      /\ Shape("parse_space_decl", t, Program(t).parse_space_decl)
  BY PlainTuples, Zenon DEF Program, Shape, Special, Mark, When
<1>2. \A x : DOMAIN Program(x) =
      {"parse_program", "after_space", "end_of_file",
       "parse_space_decl"}
  BY Zenon DEF Program
<1> QED BY <1>1, <1>2, Zenon

LEMMA TypeAndStateShape ==
  ASSUME NEW t
  PROVE  /\ DOMAIN TypeAndState(t) = DOMAIN TypeAndState("eof")
         /\ \A p \in DOMAIN TypeAndState(t) : Shape(p, t, TypeAndState(t)[p])
<1>1. /\ Shape("parse_type_decl", t, TypeAndState(t).parse_type_decl)
      /\ Shape("type_body", t, TypeAndState(t).type_body)
      /\ Shape("variants", t, TypeAndState(t).variants)
      /\ Shape("parse_variant_def", t, TypeAndState(t).parse_variant_def)
      /\ Shape("variant_params", t, TypeAndState(t).variant_params)
      /\ Shape("parse_state_block", t, TypeAndState(t).parse_state_block)
      /\ Shape("parse_state_field", t, TypeAndState(t).parse_state_field)
  BY PlainTuples, Zenon DEF TypeAndState, Shape, Special, Mark, When
<1>2. \A x : DOMAIN TypeAndState(x) =
      {"parse_type_decl", "type_body", "variants",
       "parse_variant_def", "variant_params",
       "parse_state_block", "parse_state_field"}
  BY Zenon DEF TypeAndState
<1> QED BY <1>1, <1>2, Zenon

LEMMA CapabilitiesAndCredentialsShape ==
  ASSUME NEW t
  PROVE  /\ DOMAIN CapabilitiesAndCredentials(t) = DOMAIN CapabilitiesAndCredentials("eof")
         /\ \A p \in DOMAIN CapabilitiesAndCredentials(t) :
              Shape(p, t, CapabilitiesAndCredentials(t)[p])
<1>1. /\ Shape("parse_capabilities_block", t, CapabilitiesAndCredentials(t).parse_capabilities_block)
      /\ Shape("capability_list", t, CapabilitiesAndCredentials(t).capability_list)
      /\ Shape("capability", t, CapabilitiesAndCredentials(t).capability)
      /\ Shape("parse_ident_list", t, CapabilitiesAndCredentials(t).parse_ident_list)
      /\ Shape("idents", t, CapabilitiesAndCredentials(t).idents)
      /\ Shape("parse_credentials_block", t, CapabilitiesAndCredentials(t).parse_credentials_block)
      /\ Shape("parse_credential", t, CapabilitiesAndCredentials(t).parse_credential)
  BY PlainTuples, Zenon DEF CapabilitiesAndCredentials, Shape, Special,
    Mark, When, End
<1>2. \A x : DOMAIN CapabilitiesAndCredentials(x) =
      {"parse_capabilities_block", "capability_list",
       "capability", "parse_ident_list", "idents",
       "parse_credentials_block", "parse_credential"}
  BY Zenon DEF CapabilitiesAndCredentials
<1> QED BY <1>1, <1>2, Zenon

LEMMA DerivedInvariantActionShape ==
  ASSUME NEW t
  PROVE  /\ DOMAIN DerivedInvariantAction(t) = DOMAIN DerivedInvariantAction("eof")
         /\ \A p \in DOMAIN DerivedInvariantAction(t) :
              Shape(p, t, DerivedInvariantAction(t)[p])
<1>1. /\ Shape("parse_derived_block", t, DerivedInvariantAction(t).parse_derived_block)
      /\ Shape("parse_derived_field", t, DerivedInvariantAction(t).parse_derived_field)
      /\ Shape("parse_invariant_decl", t, DerivedInvariantAction(t).parse_invariant_decl)
      /\ Shape("parse_action_decl", t, DerivedInvariantAction(t).parse_action_decl)
      /\ Shape("parse_param_list", t, DerivedInvariantAction(t).parse_param_list)
      /\ Shape("first_param", t, DerivedInvariantAction(t).first_param)
      /\ Shape("param", t, DerivedInvariantAction(t).param)
      /\ Shape("more_params", t, DerivedInvariantAction(t).more_params)
  BY PlainTuples, Zenon DEF DerivedInvariantAction, Shape, Special, Mark,
    When
<1>2. \A x : DOMAIN DerivedInvariantAction(x) =
      {"parse_derived_block", "parse_derived_field",
       "parse_invariant_decl", "parse_action_decl",
       "parse_param_list", "first_param", "param",
       "more_params"}
  BY Zenon DEF DerivedInvariantAction
<1> QED BY <1>1, <1>2, Zenon

LEMMA ViewAndGameLoopShape ==
  ASSUME NEW t
  PROVE  /\ DOMAIN ViewAndGameLoop = DOMAIN ViewAndGameLoop
         /\ \A p \in DOMAIN ViewAndGameLoop : Shape(p, t, ViewAndGameLoop[p])
<1>1. /\ Shape("parse_view_decl", t, ViewAndGameLoop.parse_view_decl)
      /\ Shape("parse_update_decl", t, ViewAndGameLoop.parse_update_decl)
      /\ Shape("parse_handle_event_decl", t, ViewAndGameLoop.parse_handle_event_decl)
  BY PlainTuples, Zenon DEF ViewAndGameLoop, Shape, Special, Mark
<1>2. DOMAIN ViewAndGameLoop =
      {"parse_view_decl", "parse_update_decl",
       "parse_handle_event_decl"}
  BY Zenon DEF ViewAndGameLoop
<1> QED BY <1>1, <1>2, Zenon

LEMMA TestsShape ==
  ASSUME NEW t
  PROVE  /\ DOMAIN Tests(t) = DOMAIN Tests("eof")
         /\ \A p \in DOMAIN Tests(t) : Shape(p, t, Tests(t)[p])
<1>1. /\ Shape("parse_tests_block", t, Tests(t).parse_tests_block)
      /\ Shape("parse_test_case", t, Tests(t).parse_test_case)
      /\ Shape("parse_with_responses", t, Tests(t).parse_with_responses)
      /\ Shape("parse_response_mapping", t, Tests(t).parse_response_mapping)
  BY PlainTuples, Zenon DEF Tests, Shape, Special, Mark, When
<1>2. \A x : DOMAIN Tests(x) =
      {"parse_tests_block", "parse_test_case",
       "parse_with_responses", "parse_response_mapping"}
  BY Zenon DEF Tests
<1> QED BY <1>1, <1>2, Zenon

LEMMA StatementsShape ==
  ASSUME NEW t
  PROVE  /\ DOMAIN Statements(t) = DOMAIN Statements("eof")
         /\ \A p \in DOMAIN Statements(t) : Shape(p, t, Statements(t)[p])
<1>1. /\ Shape("parse_block", t, Statements(t).parse_block)
      /\ Shape("parse_statement", t, Statements(t).parse_statement)
      /\ Shape("statement", t, Statements(t).statement)
      /\ Shape("message", t, Statements(t).message)
      /\ Shape("parse_set_stmt", t, Statements(t).parse_set_stmt)
      /\ Shape("path", t, Statements(t).path)
      /\ Shape("parse_let_binding", t, Statements(t).parse_let_binding)
      /\ Shape("let_name", t, Statements(t).let_name)
      /\ Shape("let_type", t, Statements(t).let_type)
  BY PlainTuples, Zenon DEF Statements, Shape, Special, Mark, When, End
<1>2. \A x : DOMAIN Statements(x) =
      {"parse_block", "parse_statement", "statement", "message",
       "parse_set_stmt", "path", "parse_let_binding",
       "let_name", "let_type"}
  BY Zenon DEF Statements
<1> QED BY <1>1, <1>2, Zenon

LEMMA UiShape ==
  ASSUME NEW t
  PROVE  /\ DOMAIN Ui(t) = DOMAIN Ui("eof")
         /\ \A p \in DOMAIN Ui(t) : Shape(p, t, Ui(t)[p])
<1>1. /\ Shape("parse_ui_block", t, Ui(t).parse_ui_block)
      /\ Shape("parse_ui_element", t, Ui(t).parse_ui_element)
      /\ Shape("element", t, Ui(t).element)
      /\ Shape("parse_component_expr", t, Ui(t).parse_component_expr)
      /\ Shape("children", t, Ui(t).children)
      /\ Shape("parse_prop_assign", t, Ui(t).parse_prop_assign)
      /\ Shape("parse_ui_if", t, Ui(t).parse_ui_if)
      /\ Shape("ui_else", t, Ui(t).ui_else)
      /\ Shape("ui_else_branch", t, Ui(t).ui_else_branch)
      /\ Shape("parse_ui_for", t, Ui(t).parse_ui_for)
  BY PlainTuples, Zenon DEF Ui, Shape, Special, Mark, When
<1>2. \A x : DOMAIN Ui(x) =
      {"parse_ui_block", "parse_ui_element", "element",
       "parse_component_expr", "children",
       "parse_prop_assign", "parse_ui_if", "ui_else",
       "ui_else_branch", "parse_ui_for"}
  BY Zenon DEF Ui
<1> QED BY <1>1, <1>2, Zenon

LEMMA TypesShape ==
  ASSUME NEW t
  PROVE  /\ DOMAIN Types(t) = DOMAIN Types("eof")
         /\ \A p \in DOMAIN Types(t) : Shape(p, t, Types(t)[p])
<1>1. /\ Shape("parse_type_annotation", t, Types(t).parse_type_annotation)
      /\ Shape("type_params", t, Types(t).type_params)
      /\ Shape("more_type_params", t, Types(t).more_type_params)
      /\ Shape("parse_record_type_field", t, Types(t).parse_record_type_field)
      /\ Shape("question", t, Types(t).question)
  BY PlainTuples, Zenon DEF Types, Shape, Special, Mark, When, Names
<1>2. \A x : DOMAIN Types(x) =
      {"parse_type_annotation", "type_params", "more_type_params",
       "parse_record_type_field", "question"}
  BY Zenon DEF Types
<1> QED BY <1>1, <1>2, Zenon

LEMMA PrecedenceShape ==
  ASSUME NEW t
  PROVE  /\ DOMAIN Precedence(t) = DOMAIN Precedence("eof")
         /\ \A p \in DOMAIN Precedence(t) : Shape(p, t, Precedence(t)[p])
<1>1. /\ Shape("parse_or", t, Precedence(t).parse_or)
      /\ Shape("or_rest", t, Precedence(t).or_rest)
      /\ Shape("parse_comparison", t, Precedence(t).parse_comparison)
      /\ Shape("comparison_rest", t, Precedence(t).comparison_rest)
      /\ Shape("no_chaining", t, Precedence(t).no_chaining)
  BY PlainTuples, Zenon DEF Precedence, Shape, Special, Mark, When,
    Comparison
<1>2. \A x : DOMAIN Precedence(x) =
      {"parse_or", "or_rest", "parse_comparison",
       "comparison_rest", "no_chaining"}
  BY Zenon DEF Precedence
<1> QED BY <1>1, <1>2, Zenon

LEMMA UnaryAndPostfixShape ==
  ASSUME NEW t
  PROVE  /\ DOMAIN UnaryAndPostfix(t) = DOMAIN UnaryAndPostfix("eof")
         /\ \A p \in DOMAIN UnaryAndPostfix(t) : Shape(p, t, UnaryAndPostfix(t)[p])
<1>1. /\ Shape("parse_add", t, UnaryAndPostfix(t).parse_add)
      /\ Shape("add_rest", t, UnaryAndPostfix(t).add_rest)
      /\ Shape("parse_unary", t, UnaryAndPostfix(t).parse_unary)
      /\ Shape("parse_postfix", t, UnaryAndPostfix(t).parse_postfix)
      /\ Shape("postfix_rest", t, UnaryAndPostfix(t).postfix_rest)
  BY PlainTuples, Zenon DEF UnaryAndPostfix, Shape, Special, Mark, When
<1>2. \A x : DOMAIN UnaryAndPostfix(x) =
      {"parse_add", "add_rest", "parse_unary", "parse_postfix",
       "postfix_rest"}
  BY Zenon DEF UnaryAndPostfix
<1> QED BY <1>1, <1>2, Zenon

LEMMA PrimaryShape ==
  ASSUME NEW t
  PROVE  /\ DOMAIN Primary(t) = DOMAIN Primary("eof")
         /\ \A p \in DOMAIN Primary(t) : Shape(p, t, Primary(t)[p])
<1>1. /\ Shape("parse_primary", t, Primary(t).parse_primary)
  BY PlainTuples, Zenon DEF Primary, Shape, Special, Mark, Names, Module
<1>2. \A x : DOMAIN Primary(x) =
      {"parse_primary"}
  BY Zenon DEF Primary
<1> QED BY <1>1, <1>2, Zenon

LEMMA CallsShape ==
  ASSUME NEW t
  PROVE  /\ DOMAIN Calls(t) = DOMAIN Calls("eof")
         /\ \A p \in DOMAIN Calls(t) : Shape(p, t, Calls(t)[p])
<1>1. /\ Shape("parse_qualified_call", t, Calls(t).parse_qualified_call)
      /\ Shape("call", t, Calls(t).call)
      /\ Shape("parse_arg_list", t, Calls(t).parse_arg_list)
      /\ Shape("args", t, Calls(t).args)
      /\ Shape("more_args", t, Calls(t).more_args)
  BY PlainTuples, Zenon DEF Calls, Shape, Special, Mark, When
<1>2. \A x : DOMAIN Calls(x) =
      {"parse_qualified_call", "call", "parse_arg_list", "args",
       "more_args"}
  BY Zenon DEF Calls
<1> QED BY <1>1, <1>2, Zenon

LEMMA ControlFlowShape ==
  ASSUME NEW t
  PROVE  /\ DOMAIN ControlFlow(t) = DOMAIN ControlFlow("eof")
         /\ \A p \in DOMAIN ControlFlow(t) : Shape(p, t, ControlFlow(t)[p])
<1>1. /\ Shape("parse_if_expr_node", t, ControlFlow(t).parse_if_expr_node)
      /\ Shape("else_branch", t, ControlFlow(t).else_branch)
      /\ Shape("else_kind", t, ControlFlow(t).else_kind)
      /\ Shape("parse_for_expr_node", t, ControlFlow(t).parse_for_expr_node)
      /\ Shape("index", t, ControlFlow(t).index)
      /\ Shape("parse_match_expr_node", t, ControlFlow(t).parse_match_expr_node)
      /\ Shape("parse_match_arm", t, ControlFlow(t).parse_match_arm)
      /\ Shape("arm_body", t, ControlFlow(t).arm_body)
      /\ Shape("parse_pattern", t, ControlFlow(t).parse_pattern)
      /\ Shape("pattern", t, ControlFlow(t).pattern)
      /\ Shape("bindings", t, ControlFlow(t).bindings)
      /\ Shape("first_binding", t, ControlFlow(t).first_binding)
      /\ Shape("more_bindings", t, ControlFlow(t).more_bindings)
  BY PlainTuples, Zenon DEF ControlFlow, Shape, Special, Mark, When
<1>2. \A x : DOMAIN ControlFlow(x) =
      {"parse_if_expr_node", "else_branch", "else_kind",
       "parse_for_expr_node", "index",
       "parse_match_expr_node", "parse_match_arm",
       "arm_body", "parse_pattern", "pattern", "bindings",
       "first_binding", "more_bindings"}
  BY Zenon DEF ControlFlow
<1> QED BY <1>1, <1>2, Zenon

LEMMA LambdaAndListShape ==
  ASSUME NEW t
  PROVE  /\ DOMAIN LambdaAndList(t) = DOMAIN LambdaAndList("eof")
         /\ \A p \in DOMAIN LambdaAndList(t) : Shape(p, t, LambdaAndList(t)[p])
<1>1. /\ Shape("parse_lambda", t, LambdaAndList(t).parse_lambda)
      /\ Shape("lambda_body", t, LambdaAndList(t).lambda_body)
      /\ Shape("parse_list_literal", t, LambdaAndList(t).parse_list_literal)
      /\ Shape("items", t, LambdaAndList(t).items)
      /\ Shape("more_items", t, LambdaAndList(t).more_items)
  BY PlainTuples, Zenon DEF LambdaAndList, Shape, Special, Mark, When
<1>2. \A x : DOMAIN LambdaAndList(x) =
      {"parse_lambda", "lambda_body", "parse_list_literal",
       "items", "more_items"}
  BY Zenon DEF LambdaAndList
<1> QED BY <1>1, <1>2, Zenon

LEMMA RecordAndStringShape ==
  ASSUME NEW t
  PROVE  /\ DOMAIN RecordAndString(t) = DOMAIN RecordAndString("eof")
         /\ \A p \in DOMAIN RecordAndString(t) : Shape(p, t, RecordAndString(t)[p])
<1>1. /\ Shape("parse_record_literal", t, RecordAndString(t).parse_record_literal)
      /\ Shape("entries", t, RecordAndString(t).entries)
      /\ Shape("more_entries", t, RecordAndString(t).more_entries)
      /\ Shape("parse_string_interpolation", t, RecordAndString(t).parse_string_interpolation)
      /\ Shape("string_rest", t, RecordAndString(t).string_rest)
  BY PlainTuples, Zenon DEF RecordAndString, Shape, Special, Mark, When
<1>2. \A x : DOMAIN RecordAndString(x) =
      {"parse_record_literal", "entries", "more_entries",
       "parse_string_interpolation", "string_rest"}
  BY Zenon DEF RecordAndString
<1> QED BY <1>1, <1>2, Zenon

\* Every production has its shape.
LEMMA ProductionShape ==
  ASSUME NEW t \in Token, NEW p \in Production
  PROVE  Shape(p, t, Table[t][p])
<1>1. \A group \in Groups(t) : \A q \in DOMAIN group : Shape(q, t, group[q])
  BY CursorShape, RecoveryShape, ProgramShape, TypeAndStateShape,
    CapabilitiesAndCredentialsShape, DerivedInvariantActionShape,
    ViewAndGameLoopShape, TestsShape, StatementsShape, UiShape, TypesShape,
    PrecedenceShape, UnaryAndPostfixShape, PrimaryShape, CallsShape,
    ControlFlowShape, LambdaAndListShape, RecordAndStringShape, Zenon DEF
    Groups
<1>2. \E group \in Groups(t) : p \in DOMAIN group
  <2>1. PICK g \in Groups("eof") : p \in DOMAIN g
    BY Zenon DEF Production
  <2>2. \E h \in Groups(t) : DOMAIN h = DOMAIN g
  BY   <2>1, CursorShape, RecoveryShape, ProgramShape, TypeAndStateShape,
    CapabilitiesAndCredentialsShape, DerivedInvariantActionShape,
    ViewAndGameLoopShape, TestsShape, StatementsShape, UiShape, TypesShape,
    PrecedenceShape, UnaryAndPostfixShape, PrimaryShape, CallsShape,
    ControlFlowShape, LambdaAndListShape, RecordAndStringShape, Zenon DEF
    Groups
  <2> QED BY <2>1, <2>2, Zenon
<1>3. Table[t][p] = (CHOOSE group \in Groups(t) : p \in DOMAIN group)[p]
  BY DEF Table
<1> QED BY <1>1, <1>2, <1>3, Zenon

-----------------------------------------------------------------------------
\* What may stand where on the stack, and which counters are open.

\* The mark under which require_block_order looks at the current block.
Ordered == "in order"

\* What the code's call structure says of item i of stack s at token t: statements
\* are parsed behind their newlines, and never at the end of a block; nothing
\* follows a program but its end; a counter is raised directly behind the token
\* that opens it, and that of a lambda under the body that lowers it.
PlacedAt(s, t, i) ==
  /\ s[i] = "parse_statement" => i = 1 /\ t \notin End \cup {"newline"}
  /\ s[i] = "statement" =>
       /\ t \notin End \cup {"newline"}
       /\ i = 1 \/ (i = 2 /\ s[1] = "skip_newlines")
  /\ s[i] = "statements" =>
       IF i = 1 THEN t # "newline" ELSE s[i - 1] = "skip_newlines"
  /\ s[i] = Ordered => i = 1 /\ t \in BlockKeyword
  /\ s[i] \in {"parse_program", "after_space", "end_of_file"} => i = Len(s)
  /\ s[i] \in {"parse_program", "parse_space_decl"} =>
       \A j \in 1..(i - 1) : s[j] \in {"any", "skip_newlines"}
  /\ s[i] \in {"for+", "record+"} => i = 1 \/ (i = 2 /\ s[1] = "any")
  /\ s[i] = "lambda+" => i < Len(s) /\ s[i + 1] = "lambda_body"

Placed(s, t) == \A i \in DOMAIN s : PlacedAt(s, t, i)

\* A function returns None, or skips, behind a report.
Guarded(s) ==
  \A i \in DOMAIN s :
    s[i] \in {"none", "synchronize"} => \E j \in 1..(i - 1) : s[j] = "error"

\* Opened is the number of functions on the stack that have counted themselves
\* in and not yet out: those whose exit is there and whose entry is not.
Closing(c) == {x \in DOMAIN Leaves : Leaves[x] = c}
                \cup (IF c = "lambda" THEN {"lambda_body"} ELSE {})
Opening(c) == {x \in DOMAIN Enters : Enters[x] = c}
Opened(s, c) == Count(s, Closing(c)) - Count(s, Opening(c))

\* At token t the items u may stand where production p stood.
Suits(p, t, u) ==
  /\ IsSeq(u) /\ Placed(u, t)
  /\ p \notin Mark \cup {"any"}
  /\ p # "synchronize" /\ (p = "statement" => t \notin End) => Guarded(u)
  /\ \A i \in DOMAIN u :
       /\ u[i] \in {"parse_program", "after_space", "end_of_file"} =>
            p \in {"parse_program", "after_space"}
       /\ u[i] # "parse_program"
       /\ u[i] = "parse_space_decl" => p = "parse_program"
       /\ u[i] = "blocks" => p \in {"blocks", "parse_space_decl"}
       /\ u[i] = Ordered => p = "blocks"
  /\ p = "parse_program" => \E i \in DOMAIN u : u[i] = "parse_space_decl"
  /\ p = "parse_space_decl" => \E i \in DOMAIN u : u[i] = "state_given"

\* And they leave every counter as p does.
Fits(p, t, u) ==
  /\ Suits(p, t, u)
  /\ \A c \in Counter : Opened(u, c) = Opened(<<p>>, c)

\* The marks of the four counters.
LEMMA Brackets ==
  /\ Closing("expression") = {"expression-"} /\ Opening("expression") = {}
  /\ Closing("for") = {"for-"} /\ Opening("for") = {"for+"}
  /\ Closing("lambda") = {"lambda-", "lambda_body"}
  /\ Opening("lambda") = {"lambda+"}
  /\ Closing("record") = {"record-"} /\ Opening("record") = {"record+"}
BY Zenon DEF Closing, Opening, Enters, Leaves

LEMMA BracketsSpecial ==
  ASSUME NEW c \in Counter
  PROVE  Closing(c) \cup Opening(c) \subseteq Special
BY Brackets, Zenon DEF Counter, Special, Mark

LEMMA BracketsMark ==
  ASSUME NEW c \in Counter, NEW x \in Closing(c) \cup Opening(c), x # "lambda_body"
  PROVE  x \in Mark
BY Brackets, Zenon DEF Counter, Mark

\* Plain items count nothing.
LEMMA PlainOpened ==
  ASSUME NEW u, Plain(u), NEW c \in Counter
  PROVE  Opened(u, c) = 0
<1>1. \A i \in DOMAIN u : u[i] \notin Closing(c) /\ u[i] \notin Opening(c)
  BY BracketsSpecial, Zenon DEF Plain
<1>2. Count(u, Closing(c)) = 0 /\ Count(u, Opening(c)) = 0
  BY <1>1, CountNone
<1> QED BY <1>2 DEF Opened

LEMMA SingleOpened ==
  ASSUME NEW p, NEW c \in Counter
  PROVE  /\ p \notin Mark \cup {"lambda_body"} => Opened(<<p>>, c) = 0
         /\ p = "lambda_body" => Opened(<<p>>, c) = IF c = "lambda" THEN 1 ELSE 0
         /\ p \in Closing(c) => Opened(<<p>>, c) = 1
         /\ p \in Opening(c) => Opened(<<p>>, c) = -1
         /\ p \notin Closing(c) \cup Opening(c) => Opened(<<p>>, c) = 0
<1>1. DOMAIN <<p>> = {1} /\ <<p>>[1] = p
  OBVIOUS
<1>2. \A S : Count(<<p>>, S) = IF p \in S THEN 1 ELSE 0
  BY <1>1, CountOne, CountNone
<1>3. Closing(c) \cap Opening(c) = {}
  BY Brackets, Zenon DEF Counter
<1>4. "lambda_body" \in Closing(c) <=> c = "lambda"
  BY Brackets, Zenon DEF Counter
<1>5. "lambda_body" \notin Opening(c)
  BY Brackets, Zenon DEF Counter
<1>6. p \notin Mark \cup {"lambda_body"} => p \notin Closing(c) \cup Opening(c)
  BY BracketsMark
<1> QED BY <1>2, <1>3, <1>4, <1>5, <1>6 DEF Opened

\* All marks of counters, and the body of a lambda, which lowers one.
Bracket == {"expression-", "for-", "for+", "lambda-", "lambda_body", "lambda+",
            "record-", "record+"}

\* Names that are told apart below.
LEMMA SpecialItems ==
  /\ {"parse_statement", "statement", "statements", "parse_program",
      "after_space", "end_of_file", "parse_space_decl", "for+", "record+",
      "lambda+", "none", "synchronize", "blocks", Ordered} \subseteq Special
  /\ Ordered \notin {"any", "for+", "for-", "lambda+", "lambda-", "record+",
       "record-", "lambda_body", "statement", "statements", "skip_newlines",
           "parse_statement",
       "parse_program",
       "parse_space_decl", "after_space", "end_of_file", "blocks",
       "state_given", "synchronize", "none", "error", "parse_block"}
  /\ Bracket \subseteq Special
  /\ Bracket \cap {"parse_statement", "statement", "statements",
       "parse_program", "after_space", "end_of_file", "parse_space_decl",
       "none", "synchronize", "blocks", Ordered, "error", "any", "state_given",
       "skip_newlines"} = {}
BY Zenon DEF Special, Mark, Ordered, Bracket

LEMMA Unbracketed ==
  ASSUME NEW p, NEW u, p \notin Mark \cup {"lambda_body"},
         \A i \in DOMAIN u : u[i] \notin Bracket,
         NEW c \in Counter
  PROVE  Opened(u, c) = Opened(<<p>>, c)
<1>1. Closing(c) \subseteq Bracket /\ Opening(c) \subseteq Bracket
  BY Brackets, Zenon DEF Counter, Bracket
<1>2. Count(u, Closing(c)) = 0 /\ Count(u, Opening(c)) = 0
  BY <1>1, CountNone
<1> QED BY <1>2, SingleOpened DEF Opened

\* Plain items fit anywhere but in the place of a mark.
LEMMA PlainFits ==
  ASSUME NEW p, NEW t, NEW u, Plain(u),
         p \notin Mark \cup {"any", "lambda_body", "parse_program",
             "parse_space_decl"}
  PROVE  Fits(p, t, u)
<1>1. \A i \in DOMAIN u : u[i] \notin Special
  BY DEF Plain
<1>3. Placed(u, t)
  BY <1>1, SpecialItems DEF Placed, PlacedAt
<1>4. Guarded(u)
  BY <1>1, SpecialItems DEF Guarded
<1>5. \A c \in Counter : Opened(u, c) = Opened(<<p>>, c)
  BY PlainOpened, SingleOpened
<1> QED BY <1>1, <1>3, <1>4, <1>5, SpecialItems DEF Fits, Suits, Plain

-----------------------------------------------------------------------------
\* Every production keeps both: the special ones.

\* Tuples of each length, as sequences.
LEMMA Tuple1 ==
  \A a : LET u == <<a>> IN
    /\ IsSeq(u) /\ DOMAIN u = 1..1 /\ Len(u) = 1
    /\ u[1] = a
BY DEF IsSeq, Elements

LEMMA Tuple2 ==
  \A a, b : LET u == <<a, b>> IN
    /\ IsSeq(u) /\ DOMAIN u = 1..2 /\ Len(u) = 2
    /\ u[1] = a /\ u[2] = b
BY DEF IsSeq, Elements

LEMMA Tuple3 ==
  \A a, b, c : LET u == <<a, b, c>> IN
    /\ IsSeq(u) /\ DOMAIN u = 1..3 /\ Len(u) = 3
    /\ u[1] = a /\ u[2] = b /\ u[3] = c
BY DEF IsSeq, Elements

LEMMA Tuple4 ==
  \A a, b, c, d : LET u == <<a, b, c, d>> IN
    /\ IsSeq(u) /\ DOMAIN u = 1..4 /\ Len(u) = 4
    /\ u[1] = a /\ u[2] = b /\ u[3] = c /\ u[4] = d
BY DEF IsSeq, Elements

LEMMA Tuple6 ==
  \A a, b, c, d, e, f : LET u == <<a, b, c, d, e, f>> IN
    /\ IsSeq(u) /\ DOMAIN u = 1..6 /\ Len(u) = 6
    /\ u[1] = a /\ u[2] = b /\ u[3] = c /\ u[4] = d /\ u[5] = e
    /\ u[6] = f
BY DEF IsSeq, Elements

LEMMA Tuple7 ==
  \A a, b, c, d, e, f, g : LET u == <<a, b, c, d, e, f, g>> IN
    /\ IsSeq(u) /\ DOMAIN u = 1..7 /\ Len(u) = 7
    /\ u[1] = a /\ u[2] = b /\ u[3] = c /\ u[4] = d /\ u[5] = e
    /\ u[6] = f /\ u[7] = g
BY DEF IsSeq, Elements

LEMMA Tuple8 ==
  \A a, b, c, d, e, f, g, h : LET u == <<a, b, c, d, e, f, g, h>> IN
    /\ IsSeq(u) /\ DOMAIN u = 1..8 /\ Len(u) = 8
    /\ u[1] = a /\ u[2] = b /\ u[3] = c /\ u[4] = d /\ u[5] = e
    /\ u[6] = f /\ u[7] = g /\ u[8] = h
BY DEF IsSeq, Elements

\* The productions that count, or that lead to the blocks.
LEMMA ForFits ==
  ASSUME NEW t, NEW u, IsSeq(u), DOMAIN u = 1..8, Len(u) = 8,
         u[1] = "any", u[2] = "for+", u[3] \notin Special, u[4]
         \notin Special, u[5] \notin Special, u[6] \notin Special, u[7]
         \notin Special, u[8] = "for-"
  PROVE  Fits("parse_for_expr_node", t, u)
<1>1. Placed(u, t)
  BY SpecialItems, SMT DEF Placed, PlacedAt
<1>2. Guarded(u)
  BY SpecialItems, SMT DEF Guarded
<1>3. \A c \in Counter : Opened(u, c) = Opened(<<"parse_for_expr_node">>, c)
  <2>1. \A c \in Counter : Opened(<<"parse_for_expr_node">>, c) = 0
    BY SingleOpened, Zenon DEF Mark
  <2>2. {"expression-", "for-", "for+", "lambda-", "lambda_body", "lambda+",
         "record-", "record+"} \subseteq Special
    BY Zenon DEF Special, Mark
  <2>3. /\ Count(u, {}) = 0 /\ Count(u, {"expression-"}) = 0
        /\ Count(u, {"lambda-", "lambda_body"}) = 0
        /\ Count(u, {"lambda+"}) = 0 /\ Count(u, {"record-"}) = 0
        /\ Count(u, {"record+"}) = 0
    BY <2>2, CountNone, SMT
  <2>4. /\ Count(u, {"for-"}) = 1 /\ Count(u, {"for+"}) = 1
    BY <2>2, CountOne, SMT
  <2> QED BY <2>1, <2>3, <2>4, Brackets, SMTT(30) DEF Opened, Counter
<1>4. "parse_for_expr_node" \notin Mark \cup {"any"}
  BY Zenon DEF Mark
<1> QED BY <1>1, <1>2, <1>3, <1>4, SpecialItems, SMT DEF Fits, Suits

LEMMA LambdaFits ==
  ASSUME NEW t, NEW u, IsSeq(u), DOMAIN u = 1..7, Len(u) = 7,
         u[1] = "any", u[2] \notin Special, u[3] \notin Special, u[4]
         \notin Special, u[5] \notin Special, u[6] = "lambda+",
         u[7] = "lambda_body"
  PROVE  Fits("parse_lambda", t, u)
<1>1. Placed(u, t)
  BY SpecialItems, SMT DEF Placed, PlacedAt
<1>2. Guarded(u)
  BY SpecialItems, SMT DEF Guarded
<1>3. \A c \in Counter : Opened(u, c) = Opened(<<"parse_lambda">>, c)
  <2>1. \A c \in Counter : Opened(<<"parse_lambda">>, c) = 0
    BY SingleOpened, Zenon DEF Mark
  <2>2. {"expression-", "for-", "for+", "lambda-", "lambda_body", "lambda+",
         "record-", "record+"} \subseteq Special
    BY Zenon DEF Special, Mark
  <2>3. /\ Count(u, {}) = 0 /\ Count(u, {"expression-"}) = 0
        /\ Count(u, {"for-"}) = 0 /\ Count(u, {"for+"}) = 0
        /\ Count(u, {"record-"}) = 0 /\ Count(u, {"record+"}) = 0
    BY <2>2, CountNone, SMT
  <2>4. /\ Count(u, {"lambda-", "lambda_body"}) = 1
        /\ Count(u, {"lambda+"}) = 1
    BY <2>2, CountOne, SMT
  <2> QED BY <2>1, <2>3, <2>4, Brackets, SMTT(30) DEF Opened, Counter
<1>4. "parse_lambda" \notin Mark \cup {"any"}
  BY Zenon DEF Mark
<1> QED BY <1>1, <1>2, <1>3, <1>4, SpecialItems, SMT DEF Fits, Suits

LEMMA BodyFits ==
  ASSUME NEW t, NEW u, IsSeq(u), DOMAIN u = 1..2, Len(u) = 2,
         u[1] \notin Special, u[2] = "lambda-"
  PROVE  Fits("lambda_body", t, u)
<1>1. Placed(u, t)
  BY SpecialItems, SMT DEF Placed, PlacedAt
<1>2. Guarded(u)
  BY SpecialItems, SMT DEF Guarded
<1>3. \A c \in Counter : Opened(u, c) = Opened(<<"lambda_body">>, c)
  <2>1. \A c \in Counter :
            Opened(<<"lambda_body">>, c) = IF c = "lambda" THEN 1 ELSE 0
    BY SingleOpened, Zenon
  <2>2. {"expression-", "for-", "for+", "lambda-", "lambda_body", "lambda+",
         "record-", "record+"} \subseteq Special
    BY Zenon DEF Special, Mark
  <2>3. /\ Count(u, {}) = 0 /\ Count(u, {"expression-"}) = 0
        /\ Count(u, {"for-"}) = 0 /\ Count(u, {"for+"}) = 0
        /\ Count(u, {"lambda+"}) = 0 /\ Count(u, {"record-"}) = 0
        /\ Count(u, {"record+"}) = 0
    BY <2>2, CountNone, SMT
  <2>4. /\ Count(u, {"lambda-", "lambda_body"}) = 1
    BY <2>2, CountOne, SMT
  <2> QED BY <2>1, <2>3, <2>4, Brackets, SMTT(30) DEF Opened, Counter
<1>4. "lambda_body" \notin Mark \cup {"any"}
  BY Zenon DEF Mark
<1> QED BY <1>1, <1>2, <1>3, <1>4, SpecialItems, SMT DEF Fits, Suits

LEMMA NoBodyFits ==
  ASSUME NEW t, NEW u, IsSeq(u), DOMAIN u = 1..3, Len(u) = 3,
         u[1] = "error", u[2] = "lambda-", u[3] = "none"
  PROVE  Fits("lambda_body", t, u)
<1>1. Placed(u, t)
  BY SpecialItems, SMT DEF Placed, PlacedAt
<1>2. Guarded(u)
  BY SpecialItems, SMT DEF Guarded
<1>3. \A c \in Counter : Opened(u, c) = Opened(<<"lambda_body">>, c)
  <2>1. \A c \in Counter :
            Opened(<<"lambda_body">>, c) = IF c = "lambda" THEN 1 ELSE 0
    BY SingleOpened, Zenon
  <2>2. {"expression-", "for-", "for+", "lambda-", "lambda_body", "lambda+",
         "record-", "record+"} \subseteq Special
    BY Zenon DEF Special, Mark
  <2>3. /\ Count(u, {}) = 0 /\ Count(u, {"expression-"}) = 0
        /\ Count(u, {"for-"}) = 0 /\ Count(u, {"for+"}) = 0
        /\ Count(u, {"lambda+"}) = 0 /\ Count(u, {"record-"}) = 0
        /\ Count(u, {"record+"}) = 0
    BY <2>2, CountNone, SMT
  <2>4. /\ Count(u, {"lambda-", "lambda_body"}) = 1
    BY <2>2, CountOne, SMT
  <2> QED BY <2>1, <2>3, <2>4, Brackets, SMTT(30) DEF Opened, Counter
<1>4. "lambda_body" \notin Mark \cup {"any"}
  BY Zenon DEF Mark
<1> QED BY <1>1, <1>2, <1>3, <1>4, SpecialItems, SMT DEF Fits, Suits

LEMMA RecordFits ==
  ASSUME NEW t, NEW u, IsSeq(u), DOMAIN u = 1..6, Len(u) = 6,
         u[1] = "any", u[2] = "record+", u[3] = "skip_newlines", u[4]
         \notin Special, u[5] \notin Special, u[6] = "record-"
  PROVE  Fits("parse_record_literal", t, u)
<1>1. Placed(u, t)
  BY SpecialItems, SMT DEF Placed, PlacedAt
<1>2. Guarded(u)
  BY SpecialItems, SMT DEF Guarded
<1>3. \A c \in Counter : Opened(u, c) = Opened(<<"parse_record_literal">>, c)
  <2>1. \A c \in Counter : Opened(<<"parse_record_literal">>, c) = 0
    BY SingleOpened, Zenon DEF Mark
  <2>2. {"expression-", "for-", "for+", "lambda-", "lambda_body", "lambda+",
         "record-", "record+"} \subseteq Special
    BY Zenon DEF Special, Mark
  <2>3. /\ Count(u, {}) = 0 /\ Count(u, {"expression-"}) = 0
        /\ Count(u, {"for-"}) = 0 /\ Count(u, {"for+"}) = 0
        /\ Count(u, {"lambda-", "lambda_body"}) = 0
        /\ Count(u, {"lambda+"}) = 0
    BY <2>2, CountNone, SMT
  <2>4. /\ Count(u, {"record-"}) = 1 /\ Count(u, {"record+"}) = 1
    BY <2>2, CountOne, SMT
  <2> QED BY <2>1, <2>3, <2>4, Brackets, SMTT(30) DEF Opened, Counter
<1>4. "parse_record_literal" \notin Mark \cup {"any"}
  BY Zenon DEF Mark
<1> QED BY <1>1, <1>2, <1>3, <1>4, SpecialItems, SMT DEF Fits, Suits

LEMMA ProgramFits ==
  ASSUME NEW t, NEW u, IsSeq(u), DOMAIN u = 1..3, Len(u) = 3,
         u[1] = "skip_newlines", u[2] = "parse_space_decl",
         u[3] = "after_space"
  PROVE  Fits("parse_program", t, u)
<1>1. Placed(u, t)
  BY SpecialItems, SMT DEF Placed, PlacedAt
<1>2. Guarded(u)
  BY SpecialItems, SMT DEF Guarded
<1>3. \A c \in Counter : Opened(u, c) = Opened(<<"parse_program">>, c)
  <2>1. \A i \in DOMAIN u : u[i] \notin Bracket
    BY SpecialItems, SMT
  <2>2. "parse_program" \notin Mark \cup {"lambda_body"}
    BY Zenon DEF Mark
  <2> QED BY <2>1, <2>2, Unbracketed
<1>4. "parse_program" \notin Mark \cup {"any"}
  BY Zenon DEF Mark
<1> QED BY <1>1, <1>2, <1>3, <1>4, SpecialItems, SMT DEF Fits, Suits

LEMMA AfterFits ==
  ASSUME NEW t, NEW u, IsSeq(u), DOMAIN u = 1..3, Len(u) = 3,
         u[1] = "skip_newlines", u[2] \notin Special, u[3] = "end_of_file"
  PROVE  Fits("after_space", t, u)
<1>1. Placed(u, t)
  BY SpecialItems, SMT DEF Placed, PlacedAt
<1>2. Guarded(u)
  BY SpecialItems, SMT DEF Guarded
<1>3. \A c \in Counter : Opened(u, c) = Opened(<<"after_space">>, c)
  <2>1. \A i \in DOMAIN u : u[i] \notin Bracket
    BY SpecialItems, SMT
  <2>2. "after_space" \notin Mark \cup {"lambda_body"}
    BY Zenon DEF Mark
  <2> QED BY <2>1, <2>2, Unbracketed
<1>4. "after_space" \notin Mark \cup {"any"}
  BY Zenon DEF Mark
<1> QED BY <1>1, <1>2, <1>3, <1>4, SpecialItems, SMT DEF Fits, Suits

LEMMA SpaceFits ==
  ASSUME NEW t, NEW u, IsSeq(u), DOMAIN u = 1..7, Len(u) = 7,
         u[1] \notin Special, u[2] \notin Special, u[3] \notin Special,
         u[4] = "skip_newlines", u[5] = "blocks", u[6] = "state_given",
         u[7] \notin Special
  PROVE  Fits("parse_space_decl", t, u)
<1>1. Placed(u, t)
  BY SpecialItems, SMT DEF Placed, PlacedAt
<1>2. Guarded(u)
  BY SpecialItems, SMT DEF Guarded
<1>3. \A c \in Counter : Opened(u, c) = Opened(<<"parse_space_decl">>, c)
  <2>1. \A i \in DOMAIN u : u[i] \notin Bracket
    BY SpecialItems, SMT
  <2>2. "parse_space_decl" \notin Mark \cup {"lambda_body"}
    BY Zenon DEF Mark
  <2> QED BY <2>1, <2>2, Unbracketed
<1>4. "parse_space_decl" \notin Mark \cup {"any"}
  BY Zenon DEF Mark
<1> QED BY <1>1, <1>2, <1>3, <1>4, SpecialItems, SMT DEF Fits, Suits

LEMMA BlockFits ==
  ASSUME NEW t, NEW u, IsSeq(u), DOMAIN u = 1..4, Len(u) = 4,
         u[1] \notin Special, u[2] = "skip_newlines", u[3] = "statements",
         u[4] \notin Special
  PROVE  Fits("parse_block", t, u)
<1>1. Placed(u, t)
  BY SpecialItems, SMT DEF Placed, PlacedAt
<1>2. Guarded(u)
  BY SpecialItems, SMT DEF Guarded
<1>3. \A c \in Counter : Opened(u, c) = Opened(<<"parse_block">>, c)
  <2>1. \A i \in DOMAIN u : u[i] \notin Bracket
    BY SpecialItems, SMT
  <2>2. "parse_block" \notin Mark \cup {"lambda_body"}
    BY Zenon DEF Mark
  <2> QED BY <2>1, <2>2, Unbracketed
<1>4. "parse_block" \notin Mark \cup {"any"}
  BY Zenon DEF Mark
<1> QED BY <1>1, <1>2, <1>3, <1>4, SpecialItems, SMT DEF Fits, Suits

LEMMA SynchronizeFits ==
  ASSUME NEW t, NEW u, IsSeq(u), DOMAIN u = 1..2, Len(u) = 2,
         u[1] = "any", u[2] = "synchronize"
  PROVE  Fits("synchronize", t, u)
<1>1. Placed(u, t)
  BY SpecialItems, SMT DEF Placed, PlacedAt
<1>3. \A c \in Counter : Opened(u, c) = Opened(<<"synchronize">>, c)
  <2>1. \A i \in DOMAIN u : u[i] \notin Bracket
    BY SpecialItems, SMT
  <2>2. "synchronize" \notin Mark \cup {"lambda_body"}
    BY Zenon DEF Mark
  <2> QED BY <2>1, <2>2, Unbracketed
<1>4. "synchronize" \notin Mark \cup {"any"}
  BY Zenon DEF Mark
<1> QED BY <1>1, <1>3, <1>4, SpecialItems, SMT DEF Fits, Suits

LEMMA EmptyStatementFits ==
  ASSUME NEW t, NEW u, IsSeq(u), DOMAIN u = 1..1, Len(u) = 1,
         u[1] = "none", t \in End
  PROVE  Fits("statement", t, u)
<1>1. Placed(u, t)
  BY SpecialItems, SMT DEF Placed, PlacedAt
<1>3. \A c \in Counter : Opened(u, c) = Opened(<<"statement">>, c)
  <2>1. \A i \in DOMAIN u : u[i] \notin Bracket
    BY SpecialItems, SMT
  <2>2. "statement" \notin Mark \cup {"lambda_body"}
    BY Zenon DEF Mark
  <2> QED BY <2>1, <2>2, Unbracketed
<1>4. "statement" \notin Mark \cup {"any"}
  BY Zenon DEF Mark
<1> QED BY <1>1, <1>3, <1>4, SpecialItems, SMT DEF Fits, Suits

LEMMA StatementFits ==
  ASSUME NEW t, NEW u, IsSeq(u), DOMAIN u = 1..2, Len(u) = 2,
         u[1] = "skip_newlines", u[2] = "statement", t \notin End \cup {"newline"}
  PROVE  Fits("parse_statement", t, u)
<1>1. Placed(u, t)
  BY SpecialItems, SMT DEF Placed, PlacedAt
<1>2. Guarded(u)
  BY SpecialItems, SMT DEF Guarded
<1>3. \A c \in Counter : Opened(u, c) = Opened(<<"parse_statement">>, c)
  <2>1. \A i \in DOMAIN u : u[i] \notin Bracket
    BY SpecialItems, SMT
  <2>2. "parse_statement" \notin Mark \cup {"lambda_body"}
    BY Zenon DEF Mark
  <2> QED BY <2>1, <2>2, Unbracketed
<1>4. "parse_statement" \notin Mark \cup {"any"}
  BY Zenon DEF Mark
<1> QED BY <1>1, <1>2, <1>3, <1>4, SpecialItems, SMT DEF Fits, Suits

-----------------------------------------------------------------------------
\* Every production keeps both: the others.

\* A report, and what a function does after it.
LEMMA ErrorFits ==
  ASSUME NEW p, NEW t, NEW u, IsSeq(u), 1 \in DOMAIN u, u[1] = "error",
         \A i \in DOMAIN u :
           u[i] \in Special => u[i] \in {"error", "none", "synchronize"},
         p \notin Mark \cup {"any", "lambda_body", "parse_program",
                           "parse_space_decl"}
  PROVE  Fits(p, t, u)
<1>1. DOMAIN u = 1..Len(u) /\ Len(u) \in Nat
  BY SeqFacts
<1>2. Placed(u, t)
  BY SpecialItems, SMT DEF Placed, PlacedAt
<1>3. Guarded(u)
  BY <1>1, SMT DEF Guarded
<1>4. \A c \in Counter : Opened(u, c) = Opened(<<p>>, c)
  <2>1. \A i \in DOMAIN u : u[i] \notin Bracket
    BY SpecialItems, SMT
  <2> QED BY <2>1, Unbracketed, Zenon
<1>5. \A i \in DOMAIN u :
          u[i] \notin {"parse_program", "after_space", "end_of_file",
              "parse_space_decl", "blocks", Ordered}
  BY SpecialItems, SMT
<1> QED BY <1>2, <1>3, <1>4, <1>5, Zenon DEF Fits, Suits

\* The marks of the blocks that can be had once.
Got1 == DOMAIN Gets

LEMMA GotItems ==
  Got1 \cap (Bracket \cup
    {"parse_statement", "statement", "statements",
     "parse_program", "after_space", "end_of_file", "parse_space_decl",
     "none", "synchronize", "blocks", Ordered, "error", "any", "state_given"}) = {}
BY Zenon DEF Got1, Gets, Bracket, Ordered

\* A turn over the blocks, or over the statements.
LEMMA BlocksFits ==
  ASSUME NEW t, NEW u, IsSeq(u),
         \A i \in DOMAIN u :
           /\ u[i] \in Special =>
                u[i] \in {"error", "blocks", "synchronize", Ordered} \cup Got1
           /\ u[i] = Ordered => i = 1 /\ t \in BlockKeyword
           /\ u[i] = "synchronize" => \E j \in 1..(i - 1) : u[j] = "error"
  PROVE  Fits("blocks", t, u)
<1> DEFINE others == {"parse_statement", "statement", "statements", "parse_program",
                   "after_space", "end_of_file", "parse_space_decl", "none"}
<1>1. others \subseteq Special \ Got1
  BY Zenon, SpecialItems, GotItems
<1>2. others \cap {"error", "blocks", "synchronize", Ordered} = {}
  BY Zenon, SpecialItems
<1>3. \A i \in DOMAIN u : u[i] \notin others \cup Bracket
  <2>1. Bracket \cap ({"error", "blocks", "synchronize", Ordered} \cup Got1) = {}
    BY SpecialItems, GotItems, Zenon
  <2> QED BY <1>1, <1>2, <2>1, SpecialItems, Zenon
<1>4. Placed(u, t)
  BY <1>3, Zenon DEF Placed, PlacedAt, Bracket
<1>5. Guarded(u)
  BY <1>3, Zenon DEF Guarded
<1>6. "blocks" \notin Mark \cup {"any", "lambda_body"}
  BY Zenon DEF Mark
<1>7. \A c \in Counter : Opened(u, c) = Opened(<<"blocks">>, c)
  BY <1>3, <1>6, Unbracketed, Zenon
<1> QED BY <1>3, <1>4, <1>5, <1>6, <1>7, Zenon DEF Fits, Suits

LEMMA StatementsFits ==
  ASSUME NEW t, t \notin End \cup {"newline"}, NEW u, IsSeq(u), DOMAIN u = 1..4,
         Len(u) = 4, u[1] = "parse_statement", u[2] = "catch",
         u[3] = "skip_newlines", u[4] = "statements"
  PROVE  Fits("statements", t, u)
<1>0. /\ u[1] \notin {"statement", "statements", Ordered}
      /\ u[2] \notin {"parse_statement", "statement", "statements", Ordered}
      /\ u[3] \notin {"parse_statement", "statement", "statements", Ordered}
      /\ u[4] \notin {"parse_statement", "statement", Ordered}
      /\ \A x \in {u[1], u[2], u[3], u[4]} :
           x \notin {"parse_program", "after_space", "end_of_file",
              "parse_space_decl", "for+", "record+", "lambda+", "none",
              "synchronize", "blocks", Ordered}
  BY DEF Ordered
<1>1. Placed(u, t)
  <2>1. PlacedAt(u, t, 1)
    BY <1>0, Zenon DEF PlacedAt
  <2>2. PlacedAt(u, t, 2)
    BY <1>0, Zenon DEF PlacedAt
  <2>3. PlacedAt(u, t, 3)
    BY <1>0, Zenon DEF PlacedAt
  <2>4. 4 - 1 = 3 /\ 4 # 1
    OBVIOUS
  <2>5. PlacedAt(u, t, 4)
    BY <1>0, <2>4, Zenon DEF PlacedAt
  <2>6. \A i \in DOMAIN u : i = 1 \/ i = 2 \/ i = 3 \/ i = 4
    OBVIOUS
  <2> QED BY <2>1, <2>2, <2>3, <2>5, <2>6, Zenon DEF Placed
<1>6. \A i \in DOMAIN u : i = 1 \/ i = 2 \/ i = 3 \/ i = 4
  OBVIOUS
<1>2. Guarded(u)
  BY <1>0, <1>6, Zenon DEF Guarded
<1>3. "statements" \notin Mark \cup {"any", "lambda_body"}
  BY Zenon DEF Mark
<1>4. \A c \in Counter : Opened(u, c) = Opened(<<"statements">>, c)
  <2>1. \A i \in DOMAIN u : u[i] \notin Bracket
    BY SpecialItems, SMT DEF Bracket
  <2> QED BY <1>3, <2>1, Unbracketed, Zenon
<1>5. Suits("statements", t, u)
  BY <1>0, <1>1, <1>2, <1>3, <1>6, Zenon DEF Suits
<1> QED BY <1>4, <1>5 DEF Fits

LEMMA ErrorTuples ==
  ASSUME NEW p, NEW t,
         p \notin Mark \cup {"any", "lambda_body", "parse_program",
                           "parse_space_decl"}
  PROVE  /\ Fits(p, t, <<"error">>)
         /\ Fits(p, t, <<"error", "none">>)
         /\ Fits(p, t, <<"error", "synchronize", "capability_list">>)
<1>1. "capability_list" \notin Special
  BY Zenon DEF Special, Mark
<1>2. /\ \A u : IsSeq(u) /\ DOMAIN u = 1..1 /\ u[1] = "error" => Fits(p, t, u)
      /\ \A u : IsSeq(u) /\ DOMAIN u = 1..2 /\ u[1] = "error" /\ u[2] = "none" =>
           Fits(p, t, u)
      /\ \A u : IsSeq(u) /\ DOMAIN u = 1..3 /\ u[1] = "error" /\ u[2] = "synchronize" /\ u[3] \notin Special => Fits(p, t, u)
  BY ErrorFits, SMT
<1>3. Fits(p, t, <<"error">>)
  BY <1>2, Tuple1, Zenon
<1>4. Fits(p, t, <<"error", "none">>)
  BY <1>2, Tuple2, Zenon
<1>5. Fits(p, t, <<"error", "synchronize", "capability_list">>)
  BY <1>1, <1>2, Tuple3, Zenon
<1> QED BY <1>3, <1>4, <1>5

\* Every production fits.
LEMMA ShapeFits ==
  ASSUME NEW p, NEW t, NEW u, Shape(p, t, u),
         p = "parse_statement" => t \notin End \cup {"newline"}
  PROVE  Fits(p, t, u)
<1>0. p \notin Mark \cup {"any"}
  BY Zenon DEF Shape
<1>1. CASE p = "skip_newlines"
  <2>1. Plain(u)
    BY <1>1, PlainTuples, Zenon DEF Shape, When, Special, Mark
  <2> QED BY <1>0, <1>1, <2>1, PlainFits, Zenon
<1>2. CASE p = "synchronize"
  <2>1. Plain(u) \/ u = <<"any", "synchronize">>
    BY <1>2, Zenon DEF Shape
  <2> QED BY <1>0, <1>2, <2>1, PlainFits, SynchronizeFits, Tuple2, Zenon
<1>3. CASE p = "parse_program"
  <2>1. u = <<"skip_newlines", "parse_space_decl", "after_space">>
    BY <1>3, Zenon DEF Shape
  <2> QED BY <1>3, <2>1, ProgramFits, Tuple3, Zenon
<1>4. CASE p = "after_space"
  <2>1. u = <<"skip_newlines", "tests_blocks", "end_of_file">>
    BY <1>4, Zenon DEF Shape
  <2>2. "tests_blocks" \notin Special
    BY Zenon DEF Special, Mark
  <2> QED BY <1>4, <2>1, <2>2, AfterFits, Tuple3, Zenon
<1>5. CASE p = "end_of_file"
  <2>1. u = <<>> \/ u = <<"error">>
    BY <1>5, Zenon DEF Shape, When
  <2>2. Plain(<<>>)
    BY PlainTuples
  <2> QED BY <1>0, <1>5, <2>1, <2>2, ErrorTuples, PlainFits, Zenon
<1>6. CASE p = "parse_space_decl"
  <2>1. u = <<"space", "a name", "{", "skip_newlines", "blocks",
              "state_given", "}">>
    BY <1>6, Zenon DEF Shape
  <2>2. {"space", "a name", "{", "}"} \cap Special = {}
    BY Zenon DEF Special, Mark
  <2> QED BY <1>6, <2>1, <2>2, SpaceFits, Tuple7, Zenon
<1>7. CASE p = "parse_block"
  <2>1. u = <<"{", "skip_newlines", "statements", "}">>
    BY <1>7, Zenon DEF Shape
  <2>2. {"{", "}"} \cap Special = {}
    BY Zenon DEF Special, Mark
  <2> QED BY <1>7, <2>1, <2>2, BlockFits, Tuple4, Zenon
<1>8. CASE p = "parse_statement"
  <2>1. u = <<"skip_newlines", "statement">>
    BY <1>8, Zenon DEF Shape
  <2> QED BY <1>8, <2>1, StatementFits, Tuple2, Zenon
<1>9. CASE p = "statement"
  <2>1. IF t \in End THEN u = <<"none">> ELSE Plain(u)
    BY <1>9, Zenon DEF Shape
  <2> QED BY <1>0, <1>9, <2>1, PlainFits, EmptyStatementFits, Tuple1, Zenon
<1>10. CASE p = "parse_for_expr_node"
  <2>1. u = <<"any", "for+", "a name", "index", "in", "parse_expression",
              "parse_block", "for-">>
    BY <1>10, Zenon DEF Shape
  <2>2. {"a name", "index", "in", "parse_expression", "parse_block"} \cap Special = {}
    BY Zenon DEF Special, Mark
  <2> QED BY <1>10, <2>1, <2>2, ForFits, Tuple8, Zenon
<1>11. CASE p = "parse_lambda"
  <2>1. u = <<"any", "(", "parse_param_list", "param_limit", ")",
              "lambda+", "lambda_body">>
    BY <1>11, Zenon DEF Shape
  <2>2. {"(", "parse_param_list", "param_limit", ")"} \cap Special = {}
    BY Zenon DEF Special, Mark
  <2> QED BY <1>11, <2>1, <2>2, LambdaFits, Tuple7, Zenon
<1>12. CASE p = "lambda_body"
  <2>1. u = <<"parse_block", "lambda-">> \/ u = <<"error", "lambda-", "none">>
    BY <1>12, Zenon DEF Shape
  <2>2. "parse_block" \notin Special
    BY Zenon DEF Special, Mark
  <2>3. u = <<"parse_block", "lambda-">> => Fits("lambda_body", t, u)
    BY <2>2, BodyFits, Tuple2, Zenon
  <2>4. u = <<"error", "lambda-", "none">> => Fits("lambda_body", t, u)
    BY NoBodyFits, Tuple3, Zenon
  <2> QED BY <1>12, <2>1, <2>3, <2>4
<1>13. CASE p = "parse_record_literal"
  <2>1. u = <<"any", "record+", "skip_newlines", "entries", "}", "record-">>
    BY <1>13, Zenon DEF Shape
  <2>2. {"entries", "}"} \cap Special = {}
    BY Zenon DEF Special, Mark
  <2> QED BY <1>13, <2>1, <2>2, RecordFits, Tuple6, Zenon
<1>14. CASE p \notin {"skip_newlines", "synchronize", "parse_program", "after_space",
            "end_of_file", "parse_space_decl", "parse_block", "parse_statement",
            "statement", "parse_for_expr_node", "parse_lambda", "lambda_body",
            "parse_record_literal"}
  <2>1. \/ Plain(u) \/ u = <<"error">> \/ u = <<"error", "none">>
        \/ u = <<"error", "synchronize", "capability_list">>
    BY <1>14, Zenon DEF Shape
  <2>2. p \notin Mark \cup {"any", "lambda_body", "parse_program", "parse_space_decl"}
    BY <1>0, <1>14, Zenon
  <2> QED BY <2>1, <2>2, PlainFits, ErrorTuples
<1> QED BY <1>1, <1>2, <1>3, <1>4, <1>5, <1>6, <1>7, <1>8, <1>9, <1>10, <1>11,
           <1>12, <1>13, <1>14, Zenon

-----------------------------------------------------------------------------
\* The turns of the loops: blocks.

\* Plain items one after the other.
LEMMA PlainConcat ==
  ASSUME NEW a, NEW b, Plain(a), Plain(b)
  PROVE  Plain(a \o b)
<1>1. IsSeq(a) /\ IsSeq(b)
  BY DEF Plain
<1>2. /\ IsSeq(a \o b) /\ Len(a \o b) = Len(a) + Len(b)
      /\ \A i \in 1..Len(a) : (a \o b)[i] = a[i]
      /\ \A i \in 1..Len(b) : (a \o b)[Len(a) + i] = b[i]
  BY <1>1, ConcatFacts
<1>3. /\ Len(a) \in Nat /\ DOMAIN a = 1..Len(a)
      /\ Len(b) \in Nat /\ DOMAIN b = 1..Len(b)
      /\ DOMAIN (a \o b) = 1..(Len(a) + Len(b))
  BY <1>1, <1>2, SeqFacts
<1>4. ASSUME NEW i \in DOMAIN (a \o b)
      PROVE  (a \o b)[i] \notin Special
  <2>1. CASE i <= Len(a)
    BY <1>2, <1>3, <2>1 DEF Plain
  <2>2. CASE i > Len(a)
    <3>1. i - Len(a) \in 1..Len(b) /\ Len(a) + (i - Len(a)) = i
      BY <1>3, <2>2
    <3>2. (a \o b)[i] = b[i - Len(a)]
      BY <1>2, <3>1
    <3> QED BY <1>3, <3>1, <3>2 DEF Plain
  <2> QED BY <1>3, <2>1, <2>2
<1> QED BY <1>2, <1>4 DEF Plain

\* What one turn over the blocks does at the current token.
BlockForm(u) ==
  \/ u = <<"error", "synchronize">>
  \/ /\ look \in BlockKeyword /\ look \in seen
     /\ u = <<"in order", "error", "synchronize">>
  \/ /\ look \in BlockKeyword /\ look \notin seen \cup Single
     /\ \E x : x \notin Special /\ u = <<"in order", x>>
  \/ /\ look \in BlockKeyword /\ look \notin seen
     /\ \E x, y : /\ x \notin Special /\ y \in DOMAIN Gets
                  /\ Gets[y] = look /\ u = <<"in order", x, y>>

BlockItems(u) ==
  /\ IsSeq(u)
  /\ \/ Len(u) = 2 /\ u[1] = "error" /\ u[2] = "synchronize"
     \/ /\ look \in BlockKeyword /\ look \in seen
        /\ Len(u) = 3 /\ u[1] = Ordered /\ u[2] = "error" /\ u[3] = "synchronize"
     \/ /\ look \in BlockKeyword /\ look \notin seen \cup Single
        /\ Len(u) = 2 /\ u[1] = Ordered /\ u[2] \notin Special
     \/ /\ look \in BlockKeyword /\ look \notin seen
        /\ Len(u) = 3 /\ u[1] = Ordered /\ u[2] \notin Special
        /\ u[3] \in Got1 /\ Gets[u[3]] = look

\* The arms of the match in parse_space_decl.
LEMMA SpaceBlockForms == BlockForm(SpaceBlock(look))
<1>1. CASE look \notin BlockKeyword \/ look \in seen
  BY <1>1, Zenon DEF SpaceBlock, BlockForm
<1>2. CASE look \in BlockKeyword \ seen
  <2>1. CASE look = "type"
    <3>1. SpaceBlock(look) = <<"in order", "parse_type_decl">>
      BY <1>2, <2>1, Zenon DEF SpaceBlock
    <3>2. "parse_type_decl" \notin Special /\ look \notin Single
      BY <2>1, Zenon DEF Special, Mark, Single
    <3> QED BY <1>2, <3>1, <3>2, Zenon DEF BlockForm
  <2>2. CASE look = "state"
    <3>1. SpaceBlock(look) = <<"in order", "parse_state_block", "got state">>
      BY <1>2, <2>2, Zenon DEF SpaceBlock
    <3>2. /\ "parse_state_block" \notin Special
          /\ "got state" \in DOMAIN Gets /\ Gets["got state"] = look
      BY <2>2, Zenon DEF Special, Mark, Gets
    <3> QED BY <1>2, <3>1, <3>2, Zenon DEF BlockForm
  <2>3. CASE look = "capabilities"
    <3>1. SpaceBlock(look) = <<"in order", "parse_capabilities_block", "got capabilities">>
      BY <1>2, <2>3, Zenon DEF SpaceBlock
    <3>2. /\ "parse_capabilities_block" \notin Special
          /\ "got capabilities" \in DOMAIN Gets /\ Gets["got capabilities"] = look
      BY <2>3, Zenon DEF Special, Mark, Gets
    <3> QED BY <1>2, <3>1, <3>2, Zenon DEF BlockForm
  <2>4. CASE look = "credentials"
    <3>1. SpaceBlock(look) = <<"in order", "parse_credentials_block", "got credentials">>
      BY <1>2, <2>4, Zenon DEF SpaceBlock
    <3>2. /\ "parse_credentials_block" \notin Special
          /\ "got credentials" \in DOMAIN Gets /\ Gets["got credentials"] = look
      BY <2>4, Zenon DEF Special, Mark, Gets
    <3> QED BY <1>2, <3>1, <3>2, Zenon DEF BlockForm
  <2>5. CASE look = "derived"
    <3>1. SpaceBlock(look) = <<"in order", "parse_derived_block", "got derived">>
      BY <1>2, <2>5, Zenon DEF SpaceBlock
    <3>2. /\ "parse_derived_block" \notin Special
          /\ "got derived" \in DOMAIN Gets /\ Gets["got derived"] = look
      BY <2>5, Zenon DEF Special, Mark, Gets
    <3> QED BY <1>2, <3>1, <3>2, Zenon DEF BlockForm
  <2>6. CASE look = "invariant"
    <3>1. SpaceBlock(look) = <<"in order", "parse_invariant_decl">>
      BY <1>2, <2>6, Zenon DEF SpaceBlock
    <3>2. "parse_invariant_decl" \notin Special /\ look \notin Single
      BY <2>6, Zenon DEF Special, Mark, Single
    <3> QED BY <1>2, <3>1, <3>2, Zenon DEF BlockForm
  <2>7. CASE look = "action"
    <3>1. SpaceBlock(look) = <<"in order", "parse_action_decl">>
      BY <1>2, <2>7, Zenon DEF SpaceBlock
    <3>2. "parse_action_decl" \notin Special /\ look \notin Single
      BY <2>7, Zenon DEF Special, Mark, Single
    <3> QED BY <1>2, <3>1, <3>2, Zenon DEF BlockForm
  <2>8. CASE look = "view"
    <3>1. SpaceBlock(look) = <<"in order", "parse_view_decl">>
      BY <1>2, <2>8, Zenon DEF SpaceBlock
    <3>2. "parse_view_decl" \notin Special /\ look \notin Single
      BY <2>8, Zenon DEF Special, Mark, Single
    <3> QED BY <1>2, <3>1, <3>2, Zenon DEF BlockForm
  <2>9. CASE look = "update"
    <3>1. SpaceBlock(look) = <<"in order", "parse_update_decl", "got update">>
      BY <1>2, <2>9, Zenon DEF SpaceBlock
    <3>2. /\ "parse_update_decl" \notin Special
          /\ "got update" \in DOMAIN Gets /\ Gets["got update"] = look
      BY <2>9, Zenon DEF Special, Mark, Gets
    <3> QED BY <1>2, <3>1, <3>2, Zenon DEF BlockForm
  <2>10. CASE look = "handleEvent"
    <3>1. SpaceBlock(look) = <<"in order", "parse_handle_event_decl", "got handleEvent">>
      BY <1>2, <2>10, Zenon DEF SpaceBlock
    <3>2. /\ "parse_handle_event_decl" \notin Special
          /\ "got handleEvent" \in DOMAIN Gets /\ Gets["got handleEvent"] = look
      BY <2>10, Zenon DEF Special, Mark, Gets
    <3> QED BY <1>2, <3>1, <3>2, Zenon DEF BlockForm
  <2> QED BY <1>2, <2>1, <2>2, <2>3, <2>4, <2>5, <2>6, <2>7, <2>8, <2>9, <2>10,
          Zenon DEF BlockKeyword
<1> QED BY <1>1, <1>2

LEMMA BlockFormItems ==
  ASSUME NEW u, BlockForm(u)
  PROVE  BlockItems(u)
<1>1. ASSUME u = <<"error", "synchronize">>
      PROVE  IsSeq(u) /\ Len(u) = 2 /\ u[1] = "error" /\ u[2] = "synchronize"
  BY <1>1, Tuple2, Zenon
<1>2. ASSUME u = <<"in order", "error", "synchronize">>
      PROVE  /\ IsSeq(u) /\ Len(u) = 3 /\ u[1] = Ordered /\ u[2] = "error"
             /\ u[3] = "synchronize"
  BY <1>2, Tuple3, Zenon DEF Ordered
<1>3. ASSUME NEW x, u = <<"in order", x>>
      PROVE  IsSeq(u) /\ Len(u) = 2 /\ u[1] = Ordered /\ u[2] = x
  BY <1>3, Tuple2, Zenon DEF Ordered
<1>4. ASSUME NEW x, NEW y, u = <<"in order", x, y>>
      PROVE  IsSeq(u) /\ Len(u) = 3 /\ u[1] = Ordered /\ u[2] = x /\ u[3] = y
  BY <1>4, Tuple3, Zenon DEF Ordered
<1> QED BY <1>1, <1>2, <1>3, <1>4, Zenon DEF BlockForm, BlockItems, Got1

\* u is b and three more items.
Extends(u, b, x, y, z) ==
  /\ IsSeq(u) /\ Len(b) \in Nat /\ Len(u) = Len(b) + 3
  /\ DOMAIN u = 1..(Len(b) + 3)
  /\ \A i \in 1..Len(b) : u[i] = b[i]
  /\ u[Len(b) + 1] = x /\ u[Len(b) + 2] = y /\ u[Len(b) + 3] = z

LEMMA ConcatOne ==
  ASSUME NEW b, IsSeq(b), NEW x
  PROVE  LET v == b \o <<x>> IN
         /\ IsSeq(v) /\ Len(b) \in Nat /\ Len(v) = Len(b) + 1
         /\ \A i \in 1..Len(b) : v[i] = b[i]
         /\ v[Len(b) + 1] = x
<1>1. IsSeq(<<x>>) /\ Len(<<x>>) = 1 /\ <<x>>[1] = x
  BY Tuple1, Zenon
<1>2. Len(b) \in Nat
  BY SeqFacts
<1> QED BY <1>1, <1>2, ConcatFacts

LEMMA ConcatThree ==
  ASSUME NEW b, IsSeq(b), NEW x, NEW y, NEW z
  PROVE  Extends(((b \o <<x>>) \o <<y>>) \o <<z>>, b, x, y, z)
<1> DEFINE v == b \o <<x>>
           w == v \o <<y>>
           u == w \o <<z>>
<1>1. /\ IsSeq(v) /\ Len(b) \in Nat /\ Len(v) = Len(b) + 1
      /\ \A i \in 1..Len(b) : v[i] = b[i]
      /\ v[Len(b) + 1] = x
  BY ConcatOne
<1> HIDE DEF v
<1>2. /\ IsSeq(w) /\ Len(w) = Len(v) + 1
      /\ \A i \in 1..Len(v) : w[i] = v[i]
      /\ w[Len(v) + 1] = y
  BY <1>1, ConcatOne
<1> HIDE DEF w
<1>3. /\ IsSeq(u) /\ Len(u) = Len(w) + 1
      /\ \A i \in 1..Len(w) : u[i] = w[i]
      /\ u[Len(w) + 1] = z
  BY <1>2, ConcatOne
<1> HIDE DEF u
<1>4. Len(u) = Len(b) + 3 /\ DOMAIN u = 1..(Len(b) + 3)
  BY <1>1, <1>2, <1>3, SeqFacts
<1>5. \A i \in 1..Len(b) : u[i] = b[i]
  BY <1>1, <1>2, <1>3
<1>6. u[Len(b) + 1] = x /\ u[Len(b) + 2] = y /\ u[Len(b) + 3] = z
  BY <1>1, <1>2, <1>3
<1>7. Extends(u, b, x, y, z)
  BY <1>1, <1>3, <1>4, <1>5, <1>6 DEF Extends
<1> QED BY <1>7 DEF u, w, v

\* One turn over the blocks.
BlocksTurn(u) ==
  /\ IsSeq(u) /\ DOMAIN u = 1..Len(u)
  /\ \/ /\ Len(u) = 5 /\ u[1] = "error" /\ u[2] = "synchronize"
        /\ u[3] = "catch" /\ u[4] = "skip_newlines" /\ u[5] = "blocks"
     \/ /\ look \in BlockKeyword /\ look \in seen
        /\ Len(u) = 6 /\ u[1] = Ordered /\ u[2] = "error" /\ u[3] = "synchronize"
        /\ u[4] = "catch" /\ u[5] = "skip_newlines" /\ u[6] = "blocks"
     \/ /\ look \in BlockKeyword /\ look \notin seen \cup Single
        /\ Len(u) = 5 /\ u[1] = Ordered /\ u[2] \notin Special
        /\ u[3] = "catch" /\ u[4] = "skip_newlines" /\ u[5] = "blocks"
     \/ /\ look \in BlockKeyword /\ look \notin seen
        /\ Len(u) = 6 /\ u[1] = Ordered /\ u[2] \notin Special
        /\ u[3] \in Got1 /\ Gets[u[3]] = look
        /\ u[4] = "catch" /\ u[5] = "skip_newlines" /\ u[6] = "blocks"

LEMMA BlocksTurns ==
  ASSUME NEW b, BlockItems(b)
  PROVE  BlocksTurn(((b \o <<"catch">>) \o <<"skip_newlines">>) \o <<"blocks">>)
<1>1. IsSeq(b)
  BY DEF BlockItems
<1>2. \A u : Extends(u, b, "catch", "skip_newlines", "blocks") => BlocksTurn(u)
  BY SMT DEF BlocksTurn, BlockItems, Extends
<1> QED BY <1>1, <1>2, ConcatThree, Zenon

-----------------------------------------------------------------------------
\* The turns of the loops: the others.

\* A turn of a loop fits the loop.
LEMMA BlocksTurnFits ==
  ASSUME NEW u, BlocksTurn(u)
  PROVE  Fits("blocks", look, u)
<1>1. ASSUME NEW i \in DOMAIN u
      PROVE  /\ u[i] \in Special =>
                  u[i] \in {"error", "blocks", "synchronize", Ordered} \cup Got1
             /\ u[i] = Ordered => i = 1 /\ look \in BlockKeyword
             /\ u[i] = "synchronize" => \E j \in 1..(i - 1) : u[j] = "error"
  <2>1. "skip_newlines" \notin Special /\ "catch" \notin Special
    BY Zenon DEF Special, Mark
  <2> QED BY <2>1, SpecialItems, GotItems, SMT DEF BlocksTurn
<1> QED BY <1>1, BlocksFits DEF BlocksTurn

LEMMA PlainBody ==
  ASSUME NEW t, NEW loop \in Loop \ {"blocks", "statements"}
  PROVE  /\ Plain(Body(t)[loop]) /\ Plain(<<"catch">>)
         /\ Plain(After(loop)) /\ Plain(<<loop>>)
<1>1. /\ Plain(Body(t).tests_blocks)
      /\ Plain(Body(t).state_fields)
      /\ Plain(Body(t).derived_fields)
      /\ Plain(Body(t).test_cases)
      /\ Plain(Body(t).response_mappings)
      /\ Plain(Body(t).elements)
      /\ Plain(Body(t).props)
      /\ Plain(Body(t).type_fields)
      /\ Plain(Body(t).arms)
  BY PlainTuples, Zenon DEF Body, Special, Mark
<1>2. Plain(After(loop)) /\ Plain(<<"catch">>)
  BY PlainTuples, Zenon DEF After, Special, Mark
<1>3. Plain(<<loop>>)
  BY PlainTuples, Zenon DEF Loop, Special, Mark
<1> QED BY <1>1, <1>2, <1>3, Zenon DEF Loop

LEMMA StatementsBody ==
  /\ Body(look)["statements"] = <<"parse_statement">>
  /\ After("statements") = <<"skip_newlines">>
  /\ Body(look)["blocks"] = SpaceBlock(look)
  /\ After("blocks") = <<"skip_newlines">>
BY Zenon DEF Body, After

\* So do all turns, and the productions that look at what was seen.
LEMMA TurnFits ==
  ASSUME NEW loop \in Loop, loop = "statements" => look # "newline"
  PROVE  /\ Fits(loop, look, Turn(loop))
         /\ loop = "blocks" => Turn(loop) = <<>> \/ BlocksTurn(Turn(loop))
<1>1. Plain(<<>>)
  BY PlainTuples
<1>2. loop \notin Mark \cup {"any", "lambda_body", "parse_program",
          "parse_space_decl"}
  BY Zenon DEF Loop, Mark
<1>3. CASE LoopEnds(loop) \/ GivesUp(loop)
  BY <1>1, <1>2, <1>3, PlainFits, Zenon DEF Turn
<1>4. CASE ~(LoopEnds(loop) \/ GivesUp(loop)) /\ loop = "blocks"
  <2>1. Turn(loop) = ((SpaceBlock(look) \o <<"catch">>) \o <<"skip_newlines">>)
                       \o <<"blocks">>
    BY <1>4, StatementsBody, Zenon DEF Turn
  <2>2. BlocksTurn(Turn(loop))
    BY <2>1, SpaceBlockForms, BlockFormItems, BlocksTurns, Zenon
  <2> QED BY <1>4, <2>2, BlocksTurnFits
<1>5. CASE ~(LoopEnds(loop) \/ GivesUp(loop)) /\ loop = "statements"
  <2>1. Turn(loop) = ((<<"parse_statement">> \o <<"catch">>) \o <<"skip_newlines">>)
                       \o <<"statements">>
    BY <1>5, StatementsBody, Zenon DEF Turn
  <2>2. look \notin End \cup {"newline"}
    BY <1>5, Zenon DEF LoopEnds
  <2>3. Extends(Turn(loop), <<"parse_statement">>, "catch", "skip_newlines",
                "statements")
    BY <2>1, ConcatThree, Tuple1, Zenon
  <2>4. \A b, u : /\ Len(b) = 1 /\ b[1] = "parse_statement"
                  /\ Extends(u, b, "catch", "skip_newlines", "statements")
                  => Fits("statements", look, u)
    BY <2>2, StatementsFits, SMT DEF Extends
  <2> QED BY <1>5, <2>3, <2>4, Tuple1, Zenon
<1>6. CASE ~(LoopEnds(loop) \/ GivesUp(loop)) /\ loop \notin {"blocks", "statements"}
  <2>1. Turn(loop) = ((Body(look)[loop] \o <<"catch">>) \o After(loop)) \o <<loop>>
    BY <1>6, Zenon DEF Turn
  <2>2. Plain(Turn(loop))
    BY <1>6, <2>1, PlainBody, PlainConcat
  <2> QED BY <1>2, <1>6, <2>2, PlainFits, Zenon
<1> QED BY <1>3, <1>4, <1>5, <1>6, Zenon

LEMMA NotedFits ==
  ASSUME NEW p \in NotedProduction
  PROVE  /\ Fits(p, look, Noted[p])
         /\ p = "state_given" =>
              Noted[p] = IF "state" \in seen THEN <<>> ELSE <<"error">>
<1>1. Plain(Noted.credential_list)
  BY PlainTuples, Zenon DEF Noted, When, Special, Mark
<1>2. Plain(<<>>)
  BY PlainTuples
<1>3. /\ Noted.param_limit \in {<<>>, <<"error">>}
      /\ Noted.state_not_empty \in {<<>>, <<"error">>}
      /\ Noted.state_given = IF "state" \in seen THEN <<>> ELSE <<"error">>
  BY Zenon DEF Noted, When
<1>4. Plain(Noted[p]) \/ Noted[p] = <<"error">>
  BY <1>1, <1>2, <1>3, Zenon DEF NotedProduction
<1>5. p \notin Mark \cup {"any", "lambda_body", "parse_program", "parse_space_decl"}
  BY Zenon DEF NotedProduction, Mark
<1> QED BY <1>3, <1>4, <1>5, PlainFits, ErrorTuples, Zenon

-----------------------------------------------------------------------------
\* Replacing the top of the stack, or all above a loop.

\* v is u and what is left of s from position n on.
Cut(v, s, n, u) ==
  /\ IsSeq(v) /\ Len(u) \in Nat /\ Len(s) \in Nat
  /\ n \in 2..(Len(s) + 1)
  /\ Len(v) = Len(u) + Len(s) - n + 1
  /\ DOMAIN u = 1..Len(u) /\ DOMAIN s = 1..Len(s) /\ DOMAIN v = 1..Len(v)
  /\ \A i \in 1..Len(u) : v[i] = u[i]
  /\ \A i \in n..Len(s) : v[Len(u) + i - n + 1] = s[i]

\* Replacing the top and popping it are cuts.
LEMMA ReplaceOver ==
  ASSUME NEW s, IsSeq(s), s # <<>>, NEW u, IsSeq(u)
  PROVE  Cut(u \o Tail(s), s, 2, u)
<1> DEFINE r == Tail(s)
<1>1. /\ IsSeq(r) /\ Len(r) = Len(s) - 1 /\ Len(s) \in Nat /\ Len(s) >= 1
      /\ \A i \in 1..(Len(s) - 1) : r[i] = s[i + 1]
  BY TailFacts
<1> HIDE DEF r
<1>2. /\ IsSeq(u \o r) /\ Len(u \o r) = Len(u) + Len(r)
      /\ \A i \in 1..Len(u) : (u \o r)[i] = u[i]
      /\ \A i \in 1..Len(r) : (u \o r)[Len(u) + i] = r[i]
  <2>1. IsSeq(r)
    BY <1>1
  <2> QED BY <2>1, ConcatFacts
<1>3. /\ Len(u) \in Nat /\ DOMAIN u = 1..Len(u) /\ DOMAIN s = 1..Len(s)
      /\ DOMAIN (u \o r) = 1..Len(u \o r)
  BY <1>2, SeqFacts
<1>4. \A i \in 2..Len(s) : (u \o r)[Len(u) + i - 2 + 1] = s[i]
  <2> TAKE i \in 2..Len(s)
  <2>1. /\ i - 1 \in 1..Len(r) /\ (i - 1) + 1 = i
        /\ Len(u) + (i - 1) = Len(u) + i - 2 + 1
    BY <1>1, <1>3
  <2> QED BY <1>1, <1>2, <2>1
<1> QED BY <1>1, <1>2, <1>3, <1>4 DEF Cut, r

LEMMA PopOver ==
  ASSUME NEW s, IsSeq(s), s # <<>>
  PROVE  Cut(Tail(s), s, 2, <<>>)
<1>1. /\ IsSeq(Tail(s)) /\ Len(Tail(s)) = Len(s) - 1 /\ Len(s) \in Nat /\ Len(s) >= 1
      /\ \A i \in 1..(Len(s) - 1) : Tail(s)[i] = s[i + 1]
  BY TailFacts
<1>2. DOMAIN s = 1..Len(s) /\ DOMAIN Tail(s) = 1..Len(Tail(s))
  BY <1>1, SeqFacts
<1>3. \A i \in 2..Len(s) : Tail(s)[0 + i - 2 + 1] = s[i]
  BY <1>1
<1> QED BY <1>1, <1>2, <1>3 DEF Cut

\* An item of the new stack is one of the new items or one of the old.
LEMMA CutItem ==
  ASSUME NEW v, NEW s, NEW n, NEW u, Cut(v, s, n, u), NEW i \in DOMAIN v
  PROVE  \/ i \in 1..Len(u) /\ v[i] = u[i]
         \/ \E j \in n..Len(s) : j = i - Len(u) + n - 1 /\ v[i] = s[j]
<1>1. CASE i <= Len(u)
  BY <1>1 DEF Cut
<1>2. CASE i > Len(u)
  <2> DEFINE j == i - Len(u) + n - 1
  <2>1. j \in n..Len(s) /\ Len(u) + j - n + 1 = i
    BY <1>2 DEF Cut
  <2>2. v[i] = s[j]
    BY <2>1 DEF Cut
  <2> QED BY <2>1, <2>2
<1> QED BY <1>1, <1>2 DEF Cut

\* What is left of the old stack keeps its neighbours.
LEMMA CutNeighbours ==
  ASSUME NEW v, NEW s, NEW n, NEW u, Cut(v, s, n, u), NEW i, i \in DOMAIN v,
         NEW j, j \in n..Len(s), j = i - Len(u) + n - 1
  PROVE  /\ i \in 1..Len(v) /\ j \in DOMAIN s /\ j >= 2 /\ i >= 1
         /\ Len(s) \in Nat /\ Len(v) \in Nat /\ j <= Len(s)
         /\ j > n => i > 1 /\ v[i - 1] = s[j - 1]
         /\ j = n => i = Len(u) + 1
         /\ j < Len(s) => i < Len(v) /\ v[i + 1] = s[j + 1]
         /\ j = Len(s) => i = Len(v)
<1>1. /\ Len(u) \in Nat /\ Len(s) \in Nat
      /\ n \in 2..(Len(s) + 1) /\ Len(v) = Len(u) + Len(s) - n + 1
      /\ \A k \in n..Len(s) : v[Len(u) + k - n + 1] = s[k]
      /\ DOMAIN s = 1..Len(s) /\ i \in 1..Len(v)
      /\ j \in n..Len(s) /\ j = i - Len(u) + n - 1
  BY DEF Cut
<1>2. n \in Nat /\ i \in Nat /\ j \in Nat /\ n <= j /\ j <= Len(s) /\ 2 <= n
  BY <1>1
<1>3. /\ j >= 2 /\ i >= 1 /\ j \in 1..Len(s) /\ i \in 1..Len(v)
      /\ j > n => j - 1 \in n..Len(s) /\ Len(u) + (j - 1) - n + 1 = i - 1 /\ i > 1
      /\ j < Len(s) =>
           j + 1 \in n..Len(s) /\ Len(u) + (j + 1) - n + 1 = i + 1 /\ i < Len(v)
      /\ j = n => i = Len(u) + 1
      /\ j = Len(s) => i = Len(v)
      /\ Len(v) \in Nat
  <2>1. /\ Len(u) \in Nat /\ Len(s) \in Nat
        /\ Len(v) = Len(u) + Len(s) - n + 1 /\ j = i - Len(u) + n - 1
    BY <1>1
  <2>2. /\ i \in Int /\ n \in Int /\ j \in Int
        /\ Len(u) \in Int /\ Len(s) \in Int /\ Len(v) \in Int
    BY <1>2, <2>1
  <2>3. j >= 2 /\ i >= 1 /\ j \in 1..Len(s)
    BY <1>2, <2>1
  <2>4. i \in 1..Len(v)
    BY <1>2, <2>1
  <2>5. j > n => j - 1 \in n..Len(s) /\ i > 1
    BY <1>2, <2>1
  <2>6. Len(u) + (j - 1) - n + 1 = i - 1
    <3>1. i = Len(u) + j - n + 1
      BY <2>1, <2>2
    <3> QED BY <2>2, <3>1
  <2>7. j < Len(s) => j + 1 \in n..Len(s)
    BY <1>2, <2>1
  <2>8. j < Len(s) => Len(u) + (j + 1) - n + 1 = i + 1
    BY <1>2, <2>1
  <2>9. j < Len(s) => i < Len(v)
    BY <1>2, <2>1
  <2>10. j = n => i = Len(u) + 1
    BY <1>2, <2>1
  <2>11. j = Len(s) => i = Len(v)
    BY <1>2, <2>1
  <2>12. Len(v) \in Nat
    BY <1>2, <2>1
  <2> QED BY <2>3, <2>4, <2>5, <2>6, <2>7, <2>8, <2>9, <2>10, <2>11, <2>12, Zenon
<1>4. j > n => v[i - 1] = s[j - 1]
  <2>1. ASSUME j > n
        PROVE  v[Len(u) + (j - 1) - n + 1] = s[j - 1]
    BY <1>1, <1>3, <2>1, Zenon
  <2> QED BY <1>3, <2>1, Zenon
<1>5. j < Len(s) => v[i + 1] = s[j + 1]
  <2>1. ASSUME j < Len(s)
        PROVE  v[Len(u) + (j + 1) - n + 1] = s[j + 1]
    BY <1>1, <1>3, <2>1, Zenon
  <2> QED BY <1>3, <2>1, Zenon
<1> QED BY <1>1, <1>2, <1>3, <1>4, <1>5, Zenon

\* What was in its place stays there.
LEMMA KeptPlaced ==
  ASSUME NEW v, NEW s, NEW n, NEW u, Cut(v, s, n, u), NEW t, NEW t2, Placed(s, t),
         s[1] \notin {"any", "skip_newlines"},
         n > 2 => s[n - 1] = "catch",
         NEW i \in DOMAIN v,
         NEW j \in n..Len(s), j = i - Len(u) + n - 1, v[i] = s[j]
  PROVE  PlacedAt(v, t2, i)
<1>1. /\ i \in 1..Len(v) /\ j \in DOMAIN s /\ j >= 2 /\ i >= 1 /\ j <= Len(s)
      /\ Len(s) \in Nat /\ Len(v) \in Nat
      /\ j > n => i > 1 /\ v[i - 1] = s[j - 1]
      /\ j = n => i = Len(u) + 1
      /\ j < Len(s) => i < Len(v) /\ v[i + 1] = s[j + 1]
      /\ j = Len(s) => i = Len(v)
  BY CutNeighbours
<1>2. PlacedAt(s, t, j)
  BY <1>1 DEF Placed
<1>3. j \in Nat /\ j # 1 /\ 1 \in 1..(j - 1)
  BY <1>1
<1>4. /\ Len(u) \in Nat /\ n \in Nat /\ n >= 2 /\ j >= n
      /\ \A k \in 1..Len(u) : v[k] = u[k]
  BY <1>1 DEF Cut
<1>5. s[j] = "statements" => s[j - 1] = "skip_newlines"
  BY <1>2, <1>3, Zenon DEF PlacedAt
<1>6. ASSUME s[j] = "statements"
      PROVE  i # 1 /\ v[i - 1] = "skip_newlines"
  <2>1. CASE j > n
    BY <1>1, <1>5, <1>6, <2>1
  <2>2. CASE j = n /\ n = 2
    <3>1. s[1] = "skip_newlines"
      BY <1>5, <1>6, <2>2
    <3> QED BY <3>1
  <2>3. CASE j = n /\ n > 2
    <3>1. s[n - 1] = "catch" /\ s[n - 1] = "skip_newlines"
      BY <1>5, <1>6, <2>3
    <3> QED BY <3>1
  <2> QED BY <1>3, <1>4, <2>1, <2>2, <2>3
<1>7. s[j] \notin {"parse_program", "parse_space_decl"}
  BY <1>2, <1>3, Zenon DEF PlacedAt
<1>8. s[j] \notin {"parse_statement", Ordered, "statement", "for+", "record+"}
  BY <1>2, <1>3, Zenon DEF PlacedAt
<1>9. s[j] = "lambda+" => i < Len(v) /\ v[i + 1] = "lambda_body"
  BY <1>1, <1>2, Zenon DEF PlacedAt
<1>10. s[j] \in {"parse_program", "after_space", "end_of_file"} => i = Len(v)
  BY <1>1, <1>2, Zenon DEF PlacedAt
<1> QED BY <1>6, <1>7, <1>8, <1>9, <1>10, Zenon DEF PlacedAt

\* The new items stay where they may be.
LEMMA NewPlaced ==
  ASSUME NEW v, NEW s, NEW n, NEW u, Cut(v, s, n, u), NEW t, Placed(u, t),
         NEW i \in 1..Len(u), v[i] = u[i],
         u[i] \in {"parse_program", "after_space", "end_of_file"} =>
             n = 2 /\ Len(s) = 1
  PROVE  PlacedAt(v, t, i)
<1>1. /\ i \in DOMAIN u /\ i \in Nat /\ i >= 1 /\ Len(u) \in Nat /\ i <= Len(u)
      /\ \A k \in 1..Len(u) : v[k] = u[k]
      /\ Len(v) = Len(u) + Len(s) - n + 1 /\ n \in 2..(Len(s) + 1) /\ Len(s) \in Nat
      /\ Len(v) \in Nat
  BY DEF Cut
<1>2. PlacedAt(u, t, i)
  BY <1>1 DEF Placed
<1>3. i > 1 => v[i - 1] = u[i - 1] /\ v[1] = u[1]
  <2>1. i > 1 => i - 1 \in 1..Len(u) /\ 1 \in 1..Len(u)
    BY <1>1
  <2> QED BY <1>1, <2>1, Zenon
<1>4. i < Len(u) => i < Len(v) /\ v[i + 1] = u[i + 1]
  <2>1. i < Len(u) => i + 1 \in 1..Len(u)
    BY <1>1
  <2>2. i < Len(u) => i < Len(v)
    BY <1>1
  <2> QED BY <1>1, <2>1, <2>2, Zenon
<1>5. n = 2 /\ Len(s) = 1 => Len(v) = Len(u)
  BY <1>1
<1>6. i = 1 \/ i > 1
  BY <1>1
<1>7. 2 > 1
  OBVIOUS
<1>8. \A k \in 1..(i - 1) : v[k] = u[k]
  BY <1>1
<1>9. u[i] = "statements" =>
          IF i = 1 THEN t # "newline" ELSE v[i - 1] = "skip_newlines"
  BY <1>2, <1>3, <1>6, Zenon DEF PlacedAt
<1>10. u[i] \in {"parse_program", "after_space", "end_of_file"} => i = Len(v)
  BY <1>2, <1>5, Zenon DEF PlacedAt
<1>11. u[i] \in {"parse_program", "parse_space_decl"} =>
         \A j \in 1..(i - 1) : v[j] \in {"any", "skip_newlines"}
  BY <1>2, <1>8, Zenon DEF PlacedAt
<1>12. u[i] \in {"for+", "record+"} => i = 1 \/ (i = 2 /\ v[1] = "any")
  BY <1>2, <1>3, <1>7, Zenon DEF PlacedAt
<1>13. u[i] = "lambda+" => i < Len(v) /\ v[i + 1] = "lambda_body"
  BY <1>2, <1>4, Zenon DEF PlacedAt
<1>14. u[i] = "statement" => /\ t \notin End \cup {"newline"}
                             /\ i = 1 \/ (i = 2 /\ v[1] = "skip_newlines")
  BY <1>2, <1>3, <1>7, Zenon DEF PlacedAt
<1>15. /\ u[i] = "parse_statement" => i = 1 /\ t \notin End \cup {"newline"}
       /\ u[i] = Ordered => i = 1 /\ t \in BlockKeyword
  BY <1>2, Zenon DEF PlacedAt
<1> QED BY <1>9, <1>10, <1>11, <1>12, <1>13, <1>14, <1>15, Zenon DEF PlacedAt

\* Replacing, popping and unwinding keep everything in its place.
LEMMA ReplacePlaced ==
  ASSUME NEW s, NEW v, NEW u, Cut(v, s, 2, u), NEW t, Placed(s, t), Suits(s[1], t, u),
         s[1] # "skip_newlines"
  PROVE  Placed(v, t)
<1> SUFFICES ASSUME NEW i \in DOMAIN v
             PROVE  PlacedAt(v, t, i)
  BY DEF Placed
<1>1. ASSUME i \in 1..Len(u), v[i] = u[i]
      PROVE  PlacedAt(v, t, i)
  <2>1. Placed(u, t) /\ s[1] \notin {"any"}
    BY Zenon DEF Suits
  <2>2. i \in DOMAIN u /\ 1 \in DOMAIN s
    BY <1>1 DEF Cut
  <2>3. u[i] \in {"parse_program", "after_space", "end_of_file"} =>
          s[1] \in {"parse_program", "after_space"}
    BY <2>2, Zenon DEF Suits
  <2>4. s[1] \in {"parse_program", "after_space"} => Len(s) = 1
    BY <2>2, Zenon DEF Placed, PlacedAt
  <2> QED BY <1>1, <2>1, <2>3, <2>4, NewPlaced, Zenon
<1>2. ASSUME NEW j \in 2..Len(s), j = i - Len(u) + 2 - 1, v[i] = s[j]
      PROVE  PlacedAt(v, t, i)
  <2>1. s[1] \notin {"any", "skip_newlines"}
    BY Zenon DEF Suits
  <2>2. ~(2 > 2)
    OBVIOUS
  <2> QED BY <1>2, <2>1, <2>2, KeptPlaced
<1>3. CASE \E j \in 2..Len(s) : j = i - Len(u) + 2 - 1 /\ v[i] = s[j]
  BY <1>2, <1>3, Zenon
<1>4. \/ i \in 1..Len(u) /\ v[i] = u[i]
      \/ \E j \in 2..Len(s) : j = i - Len(u) + 2 - 1 /\ v[i] = s[j]
  BY CutItem
<1> QED BY <1>1, <1>3, <1>4, Zenon

LEMMA PopPlaced ==
  ASSUME NEW s, NEW v, Cut(v, s, 2, <<>>), NEW t, NEW t2, Placed(s, t),
         s[1] # "skip_newlines"
  PROVE  Placed(v, t2)
<1>1. /\ Len(s) \in Nat /\ Len(v) = Len(s) - 1
      /\ DOMAIN v = 1..Len(v) /\ DOMAIN s = 1..Len(s)
      /\ \A i \in 1..Len(v) : v[i] = s[i + 1]
  BY DEF Cut
<1> QED BY <1>1, SMTT(30) DEF Placed, PlacedAt

LEMMA UnwindPlaced ==
  ASSUME NEW s, NEW v, NEW n, Cut(v, s, n, <<"synchronize">>), NEW t, NEW t2,
         Placed(s, t), s[1] \notin {"any", "skip_newlines"}, s[n - 1] = "catch"
  PROVE  Placed(v, t2)
<1> DEFINE u == <<"synchronize">>
<1> SUFFICES ASSUME NEW i \in DOMAIN v
             PROVE  PlacedAt(v, t2, i)
  BY DEF Placed, PlacedAt
<1>1. CASE i \in 1..Len(u) /\ v[i] = u[i]
  <2>1. v[i] = "synchronize"
    BY <1>1
  <2> QED BY <2>1, SpecialItems, Zenon DEF PlacedAt
<1>2. ASSUME NEW j \in n..Len(s), j = i - Len(u) + n - 1, v[i] = s[j]
      PROVE  PlacedAt(v, t2, i)
  BY <1>2, KeptPlaced
<1>3. \/ i \in 1..Len(u) /\ v[i] = u[i]
      \/ \E j \in n..Len(s) : j = i - Len(u) + n - 1 /\ v[i] = s[j]
  <2>1. Cut(v, s, n, u)
    OBVIOUS
  <2> HIDE DEF u
  <2> QED BY <2>1, CutItem
<1> QED BY <1>1, <1>2, <1>3, Zenon

\* skip_newlines is done, or takes one newline.
LEMMA SkippedPlaced ==
  ASSUME NEW s, NEW v, NEW u, NEW t, Cut(v, s, 2, u), Placed(s, t),
         s[1] = "skip_newlines",
         t # "newline", Len(u) = 0
  PROVE  Placed(v, t)
<1> SUFFICES ASSUME NEW i \in DOMAIN v
             PROVE  PlacedAt(v, t, i)
  BY DEF Placed
<1> DEFINE j == i + 1
<1>1. /\ Len(s) \in Nat /\ Len(v) = Len(s) - 1
      /\ DOMAIN v = 1..Len(v) /\ DOMAIN s = 1..Len(s)
      /\ \A k \in 1..Len(v) : v[k] = s[k + 1]
  BY DEF Cut
<1>2. /\ j \in DOMAIN s /\ v[i] = s[j] /\ i \in Nat /\ i >= 1 /\ j # 1
      /\ j = 2 <=> i = 1
      /\ i = Len(v) <=> j = Len(s)
      /\ i < Len(v) <=> j < Len(s)
  BY <1>1
<1>3. i # 1 => v[i - 1] = s[j - 1]
  <2>1. i # 1 => i - 1 \in 1..Len(v) /\ (i - 1) + 1 = j - 1
    BY <1>1, <1>2
  <2> QED BY <1>1, <2>1, Zenon
<1>4. i < Len(v) => v[i + 1] = s[j + 1]
  <2>1. i < Len(v) => i + 1 \in 1..Len(v)
    BY <1>1, <1>2
  <2> QED BY <1>1, <2>1
<1>5. PlacedAt(s, t, j)
  BY <1>2 DEF Placed
<1>6. \A k \in 1..(i - 1) : k + 1 \in 1..(j - 1) /\ v[k] = s[k + 1]
  BY <1>1, <1>2
<1> HIDE DEF j
<1>7. s[j] \in {"parse_program", "parse_space_decl"} =>
        \A k \in 1..(i - 1) : v[k] \in {"any", "skip_newlines"}
  BY <1>5, <1>6, Zenon DEF PlacedAt
<1>8. s[j] \notin {"for+", "record+", Ordered, "parse_statement"}
  <2>1. s[1] # "any"
    OBVIOUS
  <2> QED BY <1>2, <1>5, <2>1, Zenon DEF PlacedAt
<1>9. s[j] = "statement" => t \notin End \cup {"newline"} /\ i = 1
  BY <1>2, <1>5, Zenon DEF PlacedAt
<1>10. s[j] = "statements" =>
           IF i = 1 THEN t # "newline" ELSE v[i - 1] = "skip_newlines"
  BY <1>2, <1>3, <1>5, Zenon DEF PlacedAt
<1>11. s[j] = "lambda+" => i < Len(v) /\ v[i + 1] = "lambda_body"
  BY <1>2, <1>4, <1>5, Zenon DEF PlacedAt
<1>12. s[j] \in {"parse_program", "after_space", "end_of_file"} => i = Len(v)
  BY <1>2, <1>5, Zenon DEF PlacedAt
<1> QED BY <1>2, <1>7, <1>8, <1>9, <1>10, <1>11, <1>12, Zenon DEF PlacedAt

LEMMA SkippingPlaced ==
  ASSUME NEW s, NEW v, NEW u, NEW t, Cut(v, s, 2, u), Placed(s, t),
         s[1] = "skip_newlines",
         t = "newline", Len(u) = 2, u[1] = "any", u[2] = "skip_newlines"
  PROVE  Placed(v, t)
<1> SUFFICES ASSUME NEW i \in DOMAIN v
             PROVE  PlacedAt(v, t, i)
  BY DEF Placed
<1> DEFINE j == i - 1
<1>1. /\ Len(s) \in Nat /\ Len(v) = Len(s) + 1
      /\ DOMAIN v = 1..Len(v) /\ DOMAIN s = 1..Len(s)
  BY DEF Cut
<1>2. v[1] = "any" /\ v[2] = "skip_newlines"
  <2>1. 1 \in 1..Len(u) /\ 2 \in 1..Len(u)
    OBVIOUS
  <2>2. v[1] = u[1] /\ v[2] = u[2]
    BY <2>1, Zenon DEF Cut
  <2> QED BY <2>2
<1>3. \A k \in 3..Len(v) : v[k] = s[k - 1] /\ k - 1 \in 2..Len(s)
  <2> TAKE k \in 3..Len(v)
  <2>1. k - 1 \in 2..Len(s) /\ Len(u) + (k - 1) - 2 + 1 = k
    BY <1>1
  <2>2. \A m \in 2..Len(s) : v[Len(u) + m - 2 + 1] = s[m]
    BY Zenon DEF Cut
  <2>3. v[Len(u) + (k - 1) - 2 + 1] = s[k - 1]
    BY <2>1, <2>2
  <2> QED BY <2>1, <2>3
<1>4. CASE i \in {1, 2}
  <2>1. v[i] \in {"any", "skip_newlines"}
    BY <1>2, <1>4
  <2>2. v[i] \notin Special
    BY <2>1, Zenon DEF Special, Mark
  <2> QED BY <2>2, SpecialItems, Zenon DEF PlacedAt
<1>5. CASE i \notin {1, 2}
  <2>1. /\ i \in 3..Len(v) /\ j \in DOMAIN s /\ i \in Nat /\ j # 1
        /\ i = Len(v) <=> j = Len(s)
        /\ i < Len(v) <=> j < Len(s)
        /\ i # 1 /\ 1 # 2
    BY <1>1, <1>5
  <2>2. v[i] = s[j]
    BY <1>3, <2>1
  <2>3. PlacedAt(s, t, j)
    BY <2>1 DEF Placed
  <2>4. s[j - 1] = "skip_newlines" => v[i - 1] = "skip_newlines"
    <3>1. CASE i = 3
      BY <1>2, <3>1
    <3>2. CASE i # 3
      <4>1. i - 1 \in 3..Len(v) /\ (i - 1) - 1 = j - 1
        BY <2>1, <3>2
      <4> QED BY <1>3, <4>1
    <3> QED BY <3>1, <3>2
  <2>5. i < Len(v) => v[i + 1] = s[j + 1]
    <3>1. i < Len(v) => i + 1 \in 3..Len(v) /\ (i + 1) - 1 = j + 1
      BY <1>1, <2>1
    <3> QED BY <1>3, <3>1
  <2>6. s[j] \in {"parse_program", "parse_space_decl"} =>
          \A k \in 1..(i - 1) : v[k] \in {"any", "skip_newlines"}
    <3> SUFFICES ASSUME s[j] \in {"parse_program", "parse_space_decl"},
                        NEW k \in 1..(i - 1)
                 PROVE  v[k] \in {"any", "skip_newlines"}
      OBVIOUS
    <3>1. CASE k \in {1, 2}
      BY <1>2, <3>1
    <3>2. CASE k \notin {1, 2}
      <4>1. k \in 3..Len(v) /\ k - 1 \in 1..(j - 1)
        BY <1>1, <2>1, <3>2
      <4>2. s[k - 1] \in {"any", "skip_newlines"}
        BY <2>3, <4>1, Zenon DEF PlacedAt
      <4> QED BY <1>3, <4>1, <4>2, Zenon
    <3> QED BY <3>1, <3>2
  <2> HIDE DEF j
  <2>7. s[j] \notin {"for+", "record+", Ordered, "parse_statement", "statement"}
    <3>1. s[1] # "any" /\ t \in End \cup {"newline"}
      OBVIOUS
    <3> QED BY <2>1, <2>3, <3>1, Zenon DEF PlacedAt
  <2>8. s[j] = "statements" => v[i - 1] = "skip_newlines"
    BY <2>1, <2>3, <2>4, Zenon DEF PlacedAt
  <2>9. s[j] = "lambda+" => i < Len(v) /\ v[i + 1] = "lambda_body"
    BY <2>1, <2>3, <2>5, Zenon DEF PlacedAt
  <2>10. s[j] \in {"parse_program", "after_space", "end_of_file"} => i = Len(v)
    BY <2>1, <2>3, Zenon DEF PlacedAt
  <2> QED BY <2>1, <2>2, <2>6, <2>7, <2>8, <2>9, <2>10, Zenon DEF PlacedAt
<1> QED BY <1>4, <1>5

-----------------------------------------------------------------------------
\* Errors come before what is skipped; unwinding.

\* s with its first item replaced by u.
Replaces(s, t, u, v) ==
  /\ Cut(v, s, 2, u) /\ Suits(s[1], t, u)
  /\ s[1] = "skip_newlines" =>
       \/ t # "newline" /\ Len(u) = 0
       \/ t = "newline" /\ Len(u) = 2 /\ u[1] = "any" /\ u[2] = "skip_newlines"

\* A fitting replacement keeps places and guards.
LEMMA ReplacesPlaced ==
  ASSUME NEW s, NEW t, NEW u, NEW v, Replaces(s, t, u, v), Placed(s, t)
  PROVE  Placed(v, t)
<1>1. CASE s[1] # "skip_newlines"
  BY <1>1, ReplacePlaced, Zenon DEF Replaces
<1>2. CASE s[1] = "skip_newlines" /\ t # "newline"
  BY <1>2, SkippedPlaced, Zenon DEF Replaces
<1>3. CASE s[1] = "skip_newlines" /\ t = "newline"
  BY <1>3, SkippingPlaced, Zenon DEF Replaces
<1> QED BY <1>1, <1>2, <1>3

LEMMA KeptGuarded ==
  ASSUME NEW s, NEW u, NEW v, Cut(v, s, 2, u), Guarded(s), Guarded(u), s[1] # "error"
  PROVE  Guarded(v)
<1>1. /\ Len(u) \in Nat /\ Len(s) \in Nat
      /\ DOMAIN u = 1..Len(u) /\ DOMAIN s = 1..Len(s)
      /\ DOMAIN v = 1..Len(v)
      /\ \A k \in 1..Len(u) : v[k] = u[k]
      /\ \A k \in 2..Len(s) : v[Len(u) + k - 2 + 1] = s[k]
  BY DEF Cut
<1> SUFFICES ASSUME NEW i \in DOMAIN v, v[i] \in {"none", "synchronize"}
             PROVE  \E j \in 1..(i - 1) : v[j] = "error"
  BY DEF Guarded
<1>2. ASSUME i \in 1..Len(u), v[i] = u[i]
      PROVE  \E j \in 1..(i - 1) : v[j] = "error"
  <2>1. PICK j \in 1..(i - 1) : u[j] = "error"
    BY <1>1, <1>2 DEF Guarded
  <2>2. j \in 1..Len(u)
    BY <1>1, <1>2
  <2> QED BY <1>1, <2>1, <2>2
<1>3. ASSUME NEW k \in 2..Len(s), k = i - Len(u) + 2 - 1, v[i] = s[k]
      PROVE  \E j \in 1..(i - 1) : v[j] = "error"
  <2>1. PICK m \in 1..(k - 1) : s[m] = "error"
    BY <1>1, <1>3 DEF Guarded
  <2>2. i \in Int /\ k \in Int /\ m \in Int /\ Len(u) \in Int
    BY <1>1, <1>3
  <2>3. m \in 2..Len(s)
    BY <1>1, <1>3, <2>1
  <2>4. v[Len(u) + m - 2 + 1] = "error"
    BY <1>1, <2>1, <2>3
  <2>5. Len(u) + m - 2 + 1 \in 1..(i - 1)
    BY <1>1, <1>3, <2>2, <2>3
  <2> QED BY <2>4, <2>5
<1>4. CASE \E k \in 2..Len(s) : k = i - Len(u) + 2 - 1 /\ v[i] = s[k]
  BY <1>3, <1>4, Zenon
<1>5. \/ i \in 1..Len(u) /\ v[i] = u[i]
      \/ \E k \in 2..Len(s) : k = i - Len(u) + 2 - 1 /\ v[i] = s[k]
  BY CutItem
<1> QED BY <1>2, <1>4, <1>5, Zenon

LEMMA ReplacesGuarded ==
  ASSUME NEW s, NEW t, NEW u, NEW v, Replaces(s, t, u, v), Placed(s, t), Guarded(s),
         1 \in DOMAIN s
  PROVE  Guarded(v)
<1>1. s[1] # "synchronize"
  BY DEF Guarded
<1>2. s[1] = "statement" => t \notin End
  BY Zenon DEF Placed, PlacedAt
<1>3. s[1] # "error"
  BY Zenon DEF Replaces, Suits, Mark
<1>4. Guarded(u)
  BY <1>1, <1>2, Zenon DEF Replaces, Suits
<1> QED BY <1>3, <1>4, KeptGuarded DEF Replaces

LEMMA PopGuarded ==
  ASSUME NEW s, NEW v, Cut(v, s, 2, <<>>), Guarded(s), s[1] # "error"
  PROVE  Guarded(v)
<1>1. Guarded(<<>>)
  BY DEF Guarded
<1> QED BY <1>1, KeptGuarded

\* The least element of a bounded set of numbers.
LEMMA MinFacts ==
  ASSUME NEW n \in Nat, NEW S \in SUBSET (1..n), S # {}
  PROVE  Min(S) \in S /\ \A y \in S : Min(S) <= y
<1> DEFINE U == 1..n
<1> DEFINE T == {W \in SUBSET U : \E k \in S : W = {j \in S : j <= k}}
<1>1. IsFiniteSet(U)
  BY FS_Interval
<1>2. IsWellFoundedOn(StrictSubsetOrdering(U), SUBSET U)
  <2> HIDE DEF U
  <2> QED BY <1>1, FS_StrictSubsetOrderingWellFounded, FS_FiniteSubsetsOfFinite
<1>3. \A k \in S : {j \in S : j <= k} \in T
  OBVIOUS
<1>4. T \subseteq SUBSET U /\ T # {}
  BY <1>3
<1>5. \E W \in T : \A V \in T : <<V, W>> \notin StrictSubsetOrdering(U)
  <2> HIDE DEF U, T
  <2> QED BY <1>2, <1>4, WFMin
<1>6. PICK W \in T : \A V \in T : <<V, W>> \notin StrictSubsetOrdering(U)
  BY <1>5
<1>7. PICK m \in S : W = {j \in S : j <= m}
  BY <1>6
<1>8. ASSUME NEW k \in S
      PROVE  m <= k
  <2> DEFINE V == {j \in S : j <= k}
  <2>1. V \in T
    BY <1>3
  <2>2. <<V, W>> \notin StrictSubsetOrdering(U)
    BY <1>6, <2>1
  <2>3. ~(V \subseteq W /\ V # W)
    <3>1. V \subseteq U /\ W \subseteq U
      BY <1>7
    <3> HIDE DEF V, U
    <3> QED BY <2>2, <3>1 DEF StrictSubsetOrdering
  <2>4. ASSUME k < m
        PROVE  FALSE
    <3>1. V \subseteq W /\ m \in W /\ m \notin V
      <4>1. \A j \in S : j <= k => j <= m
        BY <2>4
      <4>2. m <= m /\ ~(m <= k)
        BY <2>4
      <4> QED BY <1>7, <4>1, <4>2, Zenon
    <3> QED BY <2>3, <3>1
  <2>5. k \in Nat /\ m \in Nat
    OBVIOUS
  <2> QED BY <2>4, <2>5
<1> QED BY <1>8 DEF Min

\* The iterations on s that have begun and not ended.
Catches(s) == {i \in DOMAIN s : s[i] = "catch"}

\* Where what is left of s begins.
Caught(s) == IF Catches(s) = {} THEN Len(s) + 1 ELSE Min(Catches(s)) + 1

\* What a failing function leaves of stack s.
Unwound(s) ==
  IF Catches(s) = {} THEN <<>>
  ELSE <<"synchronize">> \o SubSeq(s, Caught(s), Len(s))

LEMMA CatchesFacts ==
  ASSUME NEW s, IsSeq(s)
  PROVE  /\ Len(s) \in Nat /\ DOMAIN s = 1..Len(s)
         /\ Caught(s) \in 1..(Len(s) + 1) /\ Caught(s) \in Nat
         /\ Caught(s) - 1 = IF Catches(s) = {} THEN Len(s) ELSE Min(Catches(s))
         /\ Catches(s) # {} => Caught(s) >= 2 /\ s[Caught(s) - 1] = "catch"
<1>1. Len(s) \in Nat /\ DOMAIN s = 1..Len(s)
  BY SeqFacts
<1>2. Catches(s) \in SUBSET (1..Len(s))
  BY <1>1 DEF Catches
<1>3. CASE Catches(s) = {}
  BY <1>1, <1>3 DEF Caught
<1>4. CASE Catches(s) # {}
  <2> DEFINE n == Min(Catches(s))
  <2>1. n \in Catches(s)
    BY <1>1, <1>2, <1>4, MinFacts
  <2> HIDE DEF n
  <2>2. n \in 1..Len(s) /\ s[n] = "catch"
    BY <1>1, <2>1 DEF Catches
  <2>3. Caught(s) = n + 1
    BY <1>4 DEF Caught, n
  <2>4. n = Min(Catches(s))
    BY DEF n
  <2>5. Caught(s) - 1 = n /\ Caught(s) >= 2 /\ Caught(s) \in 1..(Len(s) + 1)
    BY <1>1, <2>2, <2>3
  <2> QED BY <1>1, <1>4, <2>2, <2>4, <2>5
<1> QED BY <1>3, <1>4

\* Unwinding cuts the stack behind the nearest catch, below its top.
LEMMA UnwoundCut ==
  ASSUME NEW s, IsSeq(s), s # <<>>, s[1] # "catch", Catches(s) # {}
  PROVE  /\ Cut(Unwound(s), s, Caught(s), <<"synchronize">>)
         /\ s[Caught(s) - 1] = "catch"
<1> DEFINE n == Caught(s)
           u == <<"synchronize">>
           r == SubSeq(s, n, Len(s))
<1>1. /\ n \in 1..(Len(s) + 1) /\ n >= 2 /\ s[n - 1] = "catch"
      /\ Len(s) \in Nat /\ DOMAIN s = 1..Len(s)
  BY CatchesFacts
<1>2. Unwound(s) = u \o r
  BY DEF Unwound
<1>3. IsSeq(u) /\ Len(u) = 1
  BY Tuple1, Zenon
<1> HIDE DEF n, u
<1>4. /\ IsSeq(r) /\ Len(r) = Len(s) - n + 1
      /\ \A i \in 1..(Len(s) - n + 1) : r[i] = s[n + i - 1]
  BY <1>1, SubSeqFacts
<1> HIDE DEF r
<1>5. /\ IsSeq(u \o r) /\ Len(u \o r) = Len(u) + Len(r)
      /\ \A i \in 1..Len(u) : (u \o r)[i] = u[i]
      /\ \A i \in 1..Len(r) : (u \o r)[Len(u) + i] = r[i]
  <2>1. IsSeq(u) /\ IsSeq(r)
    BY <1>3, <1>4
  <2> QED BY <2>1, ConcatFacts
<1>6. DOMAIN u = 1..Len(u) /\ DOMAIN (u \o r) = 1..Len(u \o r)
  BY <1>3, <1>5, SeqFacts
<1>7. \A i \in n..Len(s) : (u \o r)[Len(u) + i - n + 1] = s[i]
  <2> TAKE i \in n..Len(s)
  <2> DEFINE k == i - n + 1
  <2>1. i \in Int /\ n \in Int /\ Len(s) \in Int
    BY <1>1
  <2>2. k \in 1..Len(r) /\ n + k - 1 = i
    BY <1>4, <2>1
  <2>3. Len(u) + k = Len(u) + i - n + 1
    BY <1>3, <2>1
  <2> HIDE DEF k
  <2>4. (u \o r)[Len(u) + k] = s[i]
    BY <1>4, <1>5, <2>2
  <2> QED BY <2>3, <2>4
<1>8. Len(u \o r) = Len(u) + Len(s) - n + 1
  BY <1>1, <1>3, <1>4, <1>5
<1>9. Len(u) \in Nat /\ n \in 2..(Len(s) + 1)
  BY <1>1, <1>3
<1>10. Cut(u \o r, s, n, u)
  BY <1>1, <1>5, <1>6, <1>7, <1>8, <1>9 DEF Cut
<1> QED BY <1>1, <1>2, <1>10 DEF n, u

-----------------------------------------------------------------------------
\* The invariant, and what Expand does.

\* The token, the tokens ahead and the number of errors.
TypesOK ==
  /\ look \in Token /\ ahead \in Seq(Token) /\ errors \in Nat

\* The stack: everything in its place, and while there is no error nothing
\* that skips or returns None without a report before it.
StackOK ==
  /\ IsSeq(stack) /\ Placed(stack, look)
  /\ errors = 0 => Guarded(stack)

\* Inductive, and enough for SkipsOnlyAfterError.
Core == TypesOK /\ StackOK

\* What Expand puts in the place of the top.
Expands(u) ==
  /\ stack' = u \o Tail(stack)
  /\ Replaces(stack, look, u, stack') /\ Fits(stack[1], look, u)
  /\ stack[1] = "blocks" => u = <<>> \/ BlocksTurn(u)
  /\ stack[1] = "state_given" => u = When("state" \notin seen, <<"error">>)
  /\ stack[1] = "end_of_file" => u = When(look # "eof", <<"error">>)

\* The stack while the parser runs.
LEMMA TopFacts ==
  ASSUME IsSeq(stack), Running
  PROVE  /\ Top = stack[1] /\ 1 \in DOMAIN stack /\ stack # <<>>
         /\ Len(stack) \in Nat /\ Len(stack) >= 1 /\ DOMAIN stack = 1..Len(stack)
         /\ IsSeq(Tail(stack))
<1>1. stack # <<>>
  BY DEF Running
<1>2. /\ Head(stack) = stack[1]
      /\ Len(stack) \in Nat /\ Len(stack) >= 1 /\ IsSeq(Tail(stack))
  BY <1>1, TailFacts
<1>3. DOMAIN stack = 1..Len(stack)
  BY SeqFacts
<1> QED BY <1>1, <1>2, <1>3 DEF Top

LEMMA SkipNewlines ==
  ASSUME NEW t, NEW u, u = When(t = "newline", <<"any", "skip_newlines">>)
  PROVE  \/ t # "newline" /\ Len(u) = 0
         \/ t = "newline" /\ Len(u) = 2 /\ u[1] = "any" /\ u[2] = "skip_newlines"
<1>1. CASE t = "newline"
  <2>1. u = <<"any", "skip_newlines">>
    BY <1>1 DEF When
  <2>2. Len(u) = 2 /\ u[1] = "any" /\ u[2] = "skip_newlines"
    <3>1. LET p == <<"any", "skip_newlines">> IN
          Len(p) = 2 /\ p[1] = "any" /\ p[2] = "skip_newlines"
      OBVIOUS
    <3> QED BY <2>1, <3>1, Zenon
  <2> QED BY <1>1, <2>2
<1>2. CASE t # "newline"
  <2>1. u = <<>>
    BY <1>2 DEF When
  <2> QED BY <1>2, <2>1
<1> QED BY <1>1, <1>2

\* What is expanded, fits.
LEMMA Expansion ==
  ASSUME Core, Expand
  PROVE  \E u : Expands(u)
<1>1. /\ Top = stack[1] /\ 1 \in DOMAIN stack /\ IsSeq(stack) /\ stack # <<>>
      /\ Placed(stack, look) /\ look \in Token
  BY TopFacts DEF Core, TypesOK, StackOK, Expand
<1>2. stack[1] = "parse_statement" => look \notin End \cup {"newline"}
  BY <1>1, Zenon DEF Placed, PlacedAt
<1>3. stack[1] = "statements" => look # "newline"
  BY <1>1, Zenon DEF Placed, PlacedAt
<1>4. ASSUME NEW u, stack' = u \o Tail(stack), Fits(stack[1], look, u),
             stack[1] = "skip_newlines" =>
               u = When(look = "newline", <<"any", "skip_newlines">>)
      PROVE  Replaces(stack, look, u, stack')
  <2>1. IsSeq(u) /\ Suits(stack[1], look, u)
    BY <1>4, Zenon DEF Fits, Suits
  <2>2. Cut(stack', stack, 2, u)
    BY <1>1, <1>4, <2>1, ReplaceOver
  <2> QED BY <1>4, <2>1, <2>2, SkipNewlines, Zenon DEF Replaces
<1>5. CASE Top \in Production /\ Replace(Table[look][Top])
  <2> DEFINE u == Table[look][Top]
  <2>1. Shape(stack[1], look, u)
    BY <1>1, <1>5, ProductionShape
  <2>2. stack' = u \o Tail(stack)
    BY <1>5 DEF Replace, Rest
  <2> HIDE DEF u
  <2>3. Fits(stack[1], look, u)
    BY <1>2, <2>1, ShapeFits
  <2>4. /\ stack[1] \notin {"blocks", "state_given"}
        /\ stack[1] = "skip_newlines" =>
             u = When(look = "newline", <<"any", "skip_newlines">>)
        /\ stack[1] = "end_of_file" => u = When(look # "eof", <<"error">>)
    BY <2>1, Zenon DEF Shape
  <2> QED BY <1>4, <2>2, <2>3, <2>4, Zenon DEF Expands
<1>6. CASE Top \in NotedProduction /\ Replace(Noted[Top])
  <2> DEFINE u == Noted[Top]
  <2>1. stack' = u \o Tail(stack)
    BY <1>6 DEF Replace, Rest
  <2>2. /\ Fits(stack[1], look, u)
        /\ stack[1] = "state_given" =>
             u = IF "state" \in seen THEN <<>> ELSE <<"error">>
    BY <1>1, <1>6, NotedFits
  <2> HIDE DEF u
  <2>3. stack[1] \notin {"blocks", "skip_newlines", "end_of_file"}
    BY <1>1, <1>6, Zenon DEF NotedProduction
  <2> QED BY <1>4, <2>1, <2>2, <2>3, Zenon DEF Expands, When
<1>7. CASE Top \in Loop /\ Replace(Turn(Top))
  <2> DEFINE u == Turn(Top)
  <2>1. stack' = u \o Tail(stack)
    BY <1>7 DEF Replace, Rest
  <2>2. /\ Fits(stack[1], look, u)
        /\ stack[1] = "blocks" => u = <<>> \/ BlocksTurn(u)
    BY <1>1, <1>3, <1>7, TurnFits
  <2> HIDE DEF u
  <2>3. stack[1] \notin {"state_given", "skip_newlines", "end_of_file"}
    BY <1>1, <1>7, Zenon DEF Loop
  <2> QED BY <1>4, <2>1, <2>2, <2>3, Zenon DEF Expands
<1> QED BY <1>5, <1>6, <1>7 DEF Expand

LEMMA AdvanceTypes ==
  ASSUME TypesOK, Advance
  PROVE  look' \in Token /\ ahead' \in Seq(Token)
<1>1. Input \subseteq Token /\ "eof" \in Token
  BY ParserAssumption, Zenon DEF Token
<1>2. ahead # <<>> => Head(ahead) \in Token /\ Tail(ahead) \in Seq(Token)
  BY DEF TypesOK
<1> QED BY <1>1, <1>2 DEF Advance, TypesOK

LEMMA ReportTypes ==
  ASSUME TypesOK, Report
  PROVE  errors' \in Nat /\ errors' > 0 /\ (errors > 0 => errors' > 0)
BY ParserAssumption DEF TypesOK, Report, too_many_errors

\* The top is dropped.
Pops == stack' = Tail(stack) /\ Cut(stack', stack, 2, <<>>)

LEMMA RestPops ==
  ASSUME IsSeq(stack), Running, stack' = Rest
  PROVE  Pops
BY TopFacts, PopOver DEF Rest, Pops

\* Popping and unwinding keep the stack in order.
LEMMA PopStackOK ==
  ASSUME Core, Running, Pops, errors' = 0 => errors = 0 /\ stack[1] # "error",
         stack[1] # "skip_newlines"
  PROVE  StackOK'
<1>1. IsSeq(stack') /\ Cut(stack', stack, 2, <<>>)
  BY DEF Pops, Cut
<1>2. Placed(stack', look')
  BY <1>1, PopPlaced DEF Core, StackOK
<1>3. errors' = 0 => Guarded(stack')
  BY <1>1, PopGuarded DEF Core, StackOK
<1> QED BY <1>1, <1>2, <1>3, Zenon DEF StackOK

LEMMA UnwindStackOK ==
  ASSUME Core, Running, stack' = Unwound(stack),
         stack[1] \notin {"catch", "any", "skip_newlines"},
         errors' # 0
  PROVE  StackOK'
<1>1. IsSeq(stack) /\ stack # <<>> /\ Placed(stack, look)
  BY TopFacts DEF Core, StackOK
<1>2. CASE Catches(stack) = {}
  <2>1. stack' = <<>>
    BY <1>2 DEF Unwound
  <2>2. Placed(<<>>, look') /\ IsSeq(<<>>)
    BY EmptyIsSeq DEF Placed
  <2> QED BY <2>1, <2>2 DEF StackOK
<1>3. CASE Catches(stack) # {}
  <2> DEFINE n == Caught(stack)
  <2>1. Cut(stack', stack, n, <<"synchronize">>) /\ stack[n - 1] = "catch"
    BY <1>1, <1>3, UnwoundCut
  <2> HIDE DEF n
  <2>2. IsSeq(stack')
    BY <2>1 DEF Cut
  <2>3. Placed(stack', look')
    BY <1>1, <2>1, UnwindPlaced
  <2> QED BY <2>2, <2>3 DEF StackOK
<1> QED BY <1>2, <1>3

-----------------------------------------------------------------------------
\* The steps keep the invariant; SkipsOnlyAfterError.

\* Tokens are not productions, marks or loops.
LEMMA ExpectationItems ==
  /\ Expectation \cap {"error", "skip_newlines", "none", "catch"} = {}
  /\ Expectation \cap (Mark \cup {"lambda_body", "end_of_file", "parse_program",
       "parse_space_decl", "state_given", "blocks", "synchronize"}) = {}
<1>1. "blocks" \notin Token /\ "catch" \notin Token
  BY Zenon DEF Token, Keyword, BlockKeyword, Module, Names, Comparison
<1>2. \A x \in Mark : x \notin Token
  <2>1. "error" \notin Token
    BY Zenon DEF Token, Keyword, BlockKeyword, Module, Names, Comparison
  <2>2. "none" \notin Token
    BY Zenon DEF Token, Keyword, BlockKeyword, Module, Names, Comparison
  <2>3. "in order" \notin Token
    BY Zenon DEF Token, Keyword, BlockKeyword, Module, Names, Comparison
  <2>4. "for+" \notin Token
    BY Zenon DEF Token, Keyword, BlockKeyword, Module, Names, Comparison
  <2>5. "for-" \notin Token
    BY Zenon DEF Token, Keyword, BlockKeyword, Module, Names, Comparison
  <2>6. "lambda+" \notin Token
    BY Zenon DEF Token, Keyword, BlockKeyword, Module, Names, Comparison
  <2>7. "lambda-" \notin Token
    BY Zenon DEF Token, Keyword, BlockKeyword, Module, Names, Comparison
  <2>8. "record+" \notin Token
    BY Zenon DEF Token, Keyword, BlockKeyword, Module, Names, Comparison
  <2>9. "record-" \notin Token
    BY Zenon DEF Token, Keyword, BlockKeyword, Module, Names, Comparison
  <2>10. "expression-" \notin Token
    BY Zenon DEF Token, Keyword, BlockKeyword, Module, Names, Comparison
  <2>11. "got state" \notin Token
    BY Zenon DEF Token, Keyword, BlockKeyword, Module, Names, Comparison
  <2>12. "got capabilities" \notin Token
    BY Zenon DEF Token, Keyword, BlockKeyword, Module, Names, Comparison
  <2>13. "got credentials" \notin Token
    BY Zenon DEF Token, Keyword, BlockKeyword, Module, Names, Comparison
  <2>14. "got derived" \notin Token
    BY Zenon DEF Token, Keyword, BlockKeyword, Module, Names, Comparison
  <2>15. "got update" \notin Token
    BY Zenon DEF Token, Keyword, BlockKeyword, Module, Names, Comparison
  <2>16. "got handleEvent" \notin Token
    BY Zenon DEF Token, Keyword, BlockKeyword, Module, Names, Comparison
  <2> QED BY <2>1, <2>2, <2>3, <2>4, <2>5, <2>6, <2>7, <2>8, <2>9, <2>10, <2>11,
          <2>12, <2>13, <2>14, <2>15, <2>16, Zenon DEF Mark
<1>11. \A x \in {"lambda_body", "end_of_file", "parse_program", "parse_space_decl",
           "state_given", "synchronize", "skip_newlines"} : x \notin Token
  <2>1. "lambda_body" \notin Token
    BY Zenon DEF Token, Keyword, BlockKeyword, Module, Names, Comparison
  <2>2. "end_of_file" \notin Token
    BY Zenon DEF Token, Keyword, BlockKeyword, Module, Names, Comparison
  <2>3. "parse_program" \notin Token
    BY Zenon DEF Token, Keyword, BlockKeyword, Module, Names, Comparison
  <2>4. "parse_space_decl" \notin Token
    BY Zenon DEF Token, Keyword, BlockKeyword, Module, Names, Comparison
  <2>5. "state_given" \notin Token
    BY Zenon DEF Token, Keyword, BlockKeyword, Module, Names, Comparison
  <2>6. "synchronize" \notin Token
    BY Zenon DEF Token, Keyword, BlockKeyword, Module, Names, Comparison
  <2>7. "skip_newlines" \notin Token
    BY Zenon DEF Token, Keyword, BlockKeyword, Module, Names, Comparison
  <2> QED BY <2>1, <2>2, <2>3, <2>4, <2>5, <2>6, <2>7, Zenon
<1>3. {"any", "a name", "a Name", "a field", "a module", "a member"} \cap
        {"skip_newlines", "catch"} = {}
  BY Zenon
<1>4. {"any", "a name", "a Name", "a field", "a module", "a member"} \cap
        (Mark \cup {"lambda_body", "end_of_file", "parse_program",
       "parse_space_decl", "state_given", "blocks", "synchronize"}) = {}
  BY Zenon DEF Mark
<1>5. {"error", "none"} \subseteq Mark
  BY Zenon DEF Mark
<1> QED BY <1>1, <1>2, <1>3, <1>4, <1>5, <1>11, Zenon DEF Expectation

LEMMA MarkItems ==
  /\ DOMAIN Enters = {"for+", "lambda+", "record+"}
  /\ DOMAIN Leaves = {"expression-", "for-", "lambda-", "record-"}
  /\ DOMAIN Gets = Got1
BY DEF Enters, Leaves, Got1

LEMMA UnwindIs ==
  ASSUME Unwind
  PROVE  stack' = Unwound(stack)
<1>1. Catchers = Catches(stack)
  BY DEF Catchers, Catches
<1>2. Catches(stack) # {} => Caught(stack) = Min(Catches(stack)) + 1
  BY DEF Caught
<1> QED BY <1>1, <1>2, Zenon DEF Unwind, Unwound

\* Each action keeps Core.
LEMMA ExpectCore ==
  ASSUME Core, Expect
  PROVE  Core'
<1>1. Running /\ Top \in Expectation /\ Advance /\ stack' = Rest /\ errors' = errors
  BY DEF Expect
<1>2. stack[1] \in Expectation
  BY <1>1, TopFacts DEF Core, StackOK
<1>3. stack[1] \notin {"error", "skip_newlines"}
  BY <1>2, ExpectationItems, Zenon
<1>4. StackOK'
  BY <1>1, <1>3, RestPops, PopStackOK DEF Core, StackOK
<1>5. look' \in Token /\ ahead' \in Seq(Token)
  BY <1>1, AdvanceTypes DEF Core
<1> QED BY <1>1, <1>4, <1>5 DEF Core, TypesOK

LEMMA UnexpectedCore ==
  ASSUME Core, Unexpected
  PROVE  Core'
<1>1. Running /\ Top \in Expectation /\ look \notin Accepts(Top) /\ Report /\ Unwind
      /\ look' = look /\ ahead' = ahead
  BY DEF Unexpected, input
<1>2. stack[1] \in Expectation /\ look \notin Accepts(stack[1]) /\ look \in Token
  BY <1>1, TopFacts DEF Core, StackOK, TypesOK
<1>3. stack[1] # "any"
  BY <1>2, Zenon DEF Accepts
<1>4. stack[1] \notin {"catch", "any", "skip_newlines"}
  BY <1>2, <1>3, ExpectationItems, Zenon
<1>5. errors' \in Nat /\ errors' # 0
  BY <1>1, ReportTypes DEF Core
<1>6. StackOK'
  BY <1>1, <1>4, <1>5, UnwindIs, UnwindStackOK
<1> QED BY <1>1, <1>5, <1>6 DEF Core, TypesOK

LEMMA NoneErrs ==
  ASSUME Core, Running, Top \in {"none", "synchronize"}
  PROVE  errors # 0
<1>1. stack[1] \in {"none", "synchronize"} /\ 1 \in DOMAIN stack
  BY TopFacts DEF Core, StackOK
<1>2. ~Guarded(stack)
  BY <1>1 DEF Guarded
<1> QED BY <1>2 DEF Core, StackOK

LEMMA ReturnNoneCore ==
  ASSUME Core, ReturnNone
  PROVE  Core'
<1>1. /\ Running /\ Top = "none" /\ Unwind
      /\ look' = look /\ ahead' = ahead /\ errors' = errors
  BY DEF ReturnNone, input
<1>2. errors' # 0
  BY <1>1, NoneErrs
<1>3. stack[1] = "none"
  BY <1>1, TopFacts DEF Core, StackOK
<1>4. stack[1] \notin {"catch", "any", "skip_newlines"}
  BY <1>3, Zenon
<1>5. StackOK'
  BY <1>1, <1>2, <1>4, UnwindIs, UnwindStackOK
<1> QED BY <1>1, <1>5 DEF Core, TypesOK

LEMMA ReportErrorCore ==
  ASSUME Core, ReportError
  PROVE  Core'
<1>1. /\ Running /\ Top = "error" /\ Report
      /\ stack' = Rest /\ look' = look /\ ahead' = ahead
  BY DEF ReportError, input
<1>2. errors' \in Nat /\ errors' # 0
  BY <1>1, ReportTypes DEF Core
<1>3. stack[1] # "skip_newlines"
  BY <1>1, TopFacts DEF Core, StackOK
<1>4. StackOK'
  BY <1>1, <1>2, <1>3, RestPops, PopStackOK DEF Core, StackOK
<1> QED BY <1>1, <1>2, <1>4 DEF Core, TypesOK

LEMMA ReplacesStackOK ==
  ASSUME Core, Running, NEW u, Replaces(stack, look, u, stack'), look' = look,
         errors' = errors
  PROVE  StackOK'
<1>1. IsSeq(stack')
  BY DEF Replaces, Cut
<1>2. Placed(stack', look')
  BY ReplacesPlaced DEF Core, StackOK
<1>3. errors' = 0 => Guarded(stack')
  BY TopFacts, ReplacesGuarded DEF Core, StackOK
<1> QED BY <1>1, <1>2, <1>3, Zenon DEF StackOK

LEMMA ExpandCore ==
  ASSUME Core, Expand
  PROVE  Core'
<1>1. PICK u : Expands(u)
  BY Expansion
<1>2. Running /\ look' = look /\ ahead' = ahead /\ errors' = errors
  BY DEF Expand, input
<1>3. StackOK'
  BY <1>1, <1>2, ReplacesStackOK DEF Expands
<1> QED BY <1>2, <1>3 DEF Core, TypesOK

\* parse_or and the mark behind it.
LEMMA PushSuits ==
  ASSUME NEW t
  PROVE  Suits("parse_expression", t, <<"parse_or", "expression-">>)
<1> DEFINE u == <<"parse_or", "expression-">>
<1>1. IsSeq(u) /\ DOMAIN u = 1..2 /\ u[1] = "parse_or" /\ u[2] = "expression-"
  BY Tuple2, Zenon
<1>2. {"parse_or", "expression-"} \cap {"parse_statement", "statement", "statements",
        "parse_program", "after_space", "end_of_file", "parse_space_decl", "for+",
            "record+",
        "lambda+", "none", "synchronize", "blocks", Ordered} = {}
  BY Zenon DEF Ordered
<1> HIDE DEF u
<1>3. \A i \in DOMAIN u : u[i] \in {"parse_or", "expression-"}
  BY <1>1
<1>4. \A i \in DOMAIN u : u[i] \notin {"parse_statement", "statement", "statements",
        "parse_program", "after_space", "end_of_file", "parse_space_decl", "for+",
            "record+",
        "lambda+", "none", "synchronize", "blocks", Ordered}
  BY <1>2, <1>3, Zenon
<1>5. Placed(u, t)
  BY <1>4, Zenon DEF Placed, PlacedAt
<1>6. Guarded(u)
  BY <1>4, Zenon DEF Guarded
<1>7. "parse_expression" \notin Mark \cup {"any"}
  BY Zenon DEF Mark
<1> QED BY <1>1, <1>4, <1>5, <1>6, <1>7, Zenon DEF Suits, u

LEMMA PushReplaces ==
  ASSUME IsSeq(stack), Running, Top = "parse_expression",
         Replace(<<"parse_or", "expression-">>)
  PROVE  Replaces(stack, look, <<"parse_or", "expression-">>, stack')
<1> DEFINE u == <<"parse_or", "expression-">>
<1>1. IsSeq(u)
  BY Tuple2, Zenon
<1>2. Top = stack[1] /\ stack # <<>> /\ stack' = u \o Tail(stack)
  BY TopFacts DEF Replace, Rest
<1>3. Suits(stack[1], look, u)
  BY <1>2, PushSuits
<1> HIDE DEF u
<1>4. Cut(stack', stack, 2, u)
  BY <1>1, <1>2, ReplaceOver
<1>5. Replaces(stack, look, u, stack')
  BY <1>2, <1>3, <1>4 DEF Replaces
<1> QED BY <1>5 DEF u

LEMMA ExpressionCore ==
  ASSUME Core, Expression
  PROVE  Core'
<1>1. Running /\ Top = "parse_expression" /\ look' = look /\ ahead' = ahead
  BY DEF Expression, input
<1>2. Top = stack[1]
  BY <1>1, TopFacts DEF Core, StackOK
<1>3. CASE Replace(<<"parse_or", "expression-">>) /\ errors' = errors
  <2>1. StackOK'
    BY <1>1, <1>3, PushReplaces, ReplacesStackOK DEF Core, StackOK
  <2> QED BY <1>1, <1>3, <2>1 DEF Core, TypesOK
<1>4. CASE Report /\ Unwind
  <2>1. errors' \in Nat /\ errors' # 0
    BY <1>4, ReportTypes DEF Core
  <2>2. stack[1] \notin {"catch", "any", "skip_newlines"}
    BY <1>1, <1>2, Zenon
  <2>3. StackOK'
    BY <1>1, <1>4, <2>1, <2>2, UnwindIs, UnwindStackOK
  <2> QED BY <1>1, <2>1, <2>3 DEF Core, TypesOK
<1> QED BY <1>3, <1>4 DEF Expression

LEMMA PopCore ==
  ASSUME Core, Running, stack' = Rest, Top \notin {"error", "skip_newlines"},
         look' = look, ahead' = ahead, errors' \in Nat, errors' = 0 => errors = 0
  PROVE  Core'
<1>1. Top = stack[1]
  BY TopFacts DEF Core, StackOK
<1>2. StackOK'
  BY <1>1, RestPops, PopStackOK DEF Core, StackOK
<1> QED BY <1>2 DEF Core, TypesOK

LEMMA EnterCore ==
  ASSUME Core, Enter
  PROVE  Core'
<1>1. /\ Running /\ stack' = Rest /\ look' = look /\ ahead' = ahead
      /\ Top \in DOMAIN Enters
  BY DEF Enter, input
<1>2. Top \notin {"error", "skip_newlines"}
  BY <1>1, MarkItems, Zenon
<1>3. Report \/ errors' = errors
  BY DEF Enter
<1>4. errors' \in Nat /\ (errors' = 0 => errors = 0)
  BY <1>3, ReportTypes DEF Core, TypesOK
<1> QED BY <1>1, <1>2, <1>4, PopCore

LEMMA LeaveCore ==
  ASSUME Core, Leave
  PROVE  Core'
<1>1. /\ Running /\ stack' = Rest
      /\ look' = look /\ ahead' = ahead /\ errors' = errors
      /\ Top \in DOMAIN Leaves
  BY DEF Leave, input
<1>2. Top \notin {"error", "skip_newlines"}
  BY <1>1, MarkItems, Zenon
<1> QED BY <1>1, <1>2, PopCore DEF Core, TypesOK

LEMMA InOrderCore ==
  ASSUME Core, InOrder
  PROVE  Core'
<1>1. /\ Running /\ stack' = Rest /\ look' = look /\ ahead' = ahead
      /\ Top = Ordered
  BY Zenon DEF InOrder, input, Ordered
<1>2. Top \notin {"error", "skip_newlines"}
  BY <1>1, SpecialItems, Zenon
<1>3. Report \/ errors' = errors
  BY Zenon DEF InOrder
<1>4. errors' \in Nat /\ (errors' = 0 => errors = 0)
  BY <1>3, ReportTypes DEF Core, TypesOK
<1> QED BY <1>1, <1>2, <1>4, PopCore

LEMMA GotCore ==
  ASSUME Core, Got
  PROVE  Core'
<1>1. /\ Running /\ stack' = Rest
      /\ look' = look /\ ahead' = ahead /\ errors' = errors
      /\ Top \in DOMAIN Gets \/ Top = "no field"
  BY Zenon DEF Got, input
<1>2. Top \notin {"error", "skip_newlines"}
  BY <1>1, Zenon DEF Gets
<1> QED BY <1>1, <1>2, PopCore DEF Core, TypesOK

LEMMA CountParamCore ==
  ASSUME Core, CountParam
  PROVE  Core'
<1>1. /\ Running /\ stack' = Rest
      /\ look' = look /\ ahead' = ahead /\ errors' = errors
      /\ Top = "no param" \/ Top = "one param"
  BY Zenon DEF CountParam, input
<1>2. Top \notin {"error", "skip_newlines"}
  BY <1>1, Zenon
<1> QED BY <1>1, <1>2, PopCore DEF Core, TypesOK

LEMMA InitCore ==
  ASSUME Init
  PROVE  Core
<1>1. PICK p \in Prefixes : look = Head(p) /\ ahead = Tail(p)
  BY DEF Init
<1>2. p \in Seq(Token) /\ p # <<>>
  BY ParserAssumption
<1>3. look \in Token /\ ahead \in Seq(Token)
  BY <1>1, <1>2
<1>4. errors = 0 /\ stack = <<"skip_newlines", "parse_program">>
  BY DEF Init
<1>5. /\ IsSeq(stack) /\ DOMAIN stack = 1..2
      /\ Len(stack) = 2 /\ stack[1] = "skip_newlines"
      /\ stack[2] = "parse_program"
  BY <1>4, Tuple2, Zenon
<1>6. \A i \in 1..2 : i = 1 \/ i = 2
  OBVIOUS
<1>7. 1..(2 - 1) = {1}
  OBVIOUS
<1>8. "skip_newlines" # Ordered /\ "parse_program" # Ordered
  BY Zenon DEF Ordered
<1> HIDE <1>4
<1>9. Placed(stack, look)
  BY <1>5, <1>6, <1>7, <1>8, Zenon DEF Placed, PlacedAt
<1>10. Guarded(stack)
  BY <1>5, <1>6, Zenon DEF Guarded
<1> QED BY <1>3, <1>4, <1>5, <1>9, <1>10 DEF Core, TypesOK, StackOK

LEMMA StepCore ==
  ASSUME Core, [Next]_vars
  PROVE  Core'
<1>1. CASE Next
  BY <1>1, ExpectCore, UnexpectedCore, ReturnNoneCore, ReportErrorCore, ExpandCore,
    ExpressionCore, EnterCore, LeaveCore, InOrderCore, GotCore,
        CountParamCore DEF Next
<1>2. CASE UNCHANGED vars
  BY <1>2, Zenon DEF vars, Core, TypesOK, StackOK
<1> QED BY <1>1, <1>2

\* Of whatever length the input: tokens are skipped by synchronize, and a
\* function of the parser returns None, only after an error was reported.
THEOREM SkipsAfterErrors == Spec => []SkipsOnlyAfterError
<1>1. Init => Core
  BY InitCore
<1>2. Core /\ [Next]_vars => Core'
  BY StepCore
<1>3. Core => SkipsOnlyAfterError
  BY NoneErrs DEF SkipsOnlyAfterError, Core, TypesOK
<1> QED BY <1>1, <1>2, <1>3, PTL DEF Spec

-----------------------------------------------------------------------------
\* Counters: what unwinding drops.

\* Opened counters add up along the stack.
LEMMA OpenedType ==
  ASSUME NEW s, IsSeq(s), NEW c
  PROVE  Opened(s, c) \in Int /\ Count(s, Opening(c)) \in Nat /\ Count(s, Closing(c)) \in Nat
BY CountType DEF Opened

LEMMA OpenedConcat ==
  ASSUME NEW a, NEW b, IsSeq(a), IsSeq(b), NEW c
  PROVE  Opened(a \o b, c) = Opened(a, c) + Opened(b, c)
<1>1. /\ Count(a, Closing(c)) \in Nat /\ Count(a, Opening(c)) \in Nat
      /\ Count(b, Closing(c)) \in Nat /\ Count(b, Opening(c)) \in Nat
  BY OpenedType
<1>2. /\ Count(a \o b, Closing(c)) = Count(a, Closing(c)) + Count(b, Closing(c))
      /\ Count(a \o b, Opening(c)) = Count(a, Opening(c)) + Count(b, Opening(c))
  BY CountConcat
<1> QED BY <1>1, <1>2 DEF Opened

LEMMA HeadTail ==
  ASSUME NEW s, IsSeq(s), s # <<>>
  PROVE  s = <<s[1]>> \o Tail(s)
<1>1. s \in Seq(Elements(s))
  BY DEF IsSeq
<1> QED BY <1>1

LEMMA OpenedHead ==
  ASSUME NEW s, IsSeq(s), s # <<>>, NEW c
  PROVE  Opened(s, c) = Opened(<<s[1]>>, c) + Opened(Tail(s), c)
<1>1. IsSeq(<<s[1]>>)
  BY Tuple1, Zenon
<1>2. IsSeq(Tail(s))
  BY TailFacts
<1> DEFINE h == <<s[1]>>
           r == Tail(s)
<1>3. s = h \o r
  BY HeadTail
<1>4. Opened(h \o r, c) = Opened(h, c) + Opened(r, c)
  BY <1>1, <1>2, OpenedConcat
<1> QED BY <1>3, <1>4, Zenon

LEMMA EmptyOpened ==
  ASSUME NEW s, NEW c, DOMAIN s = {}
  PROVE  Opened(s, c) = 0
<1>1. Count(s, Closing(c)) = 0 /\ Count(s, Opening(c)) = 0
  BY CountNone
<1> QED BY <1>1 DEF Opened

\* The part that unwinding drops.
Dropped(s) == SubSeq(s, 1, Caught(s) - 1)

LEMMA DroppedFacts ==
  ASSUME NEW s, IsSeq(s)
  PROVE  /\ IsSeq(Dropped(s)) /\ Len(Dropped(s)) = Caught(s) - 1
         /\ DOMAIN Dropped(s) = 1..(Caught(s) - 1)
         /\ \A i \in 1..(Caught(s) - 1) : Dropped(s)[i] = s[i]
<1>1. Caught(s) \in 1..(Len(s) + 1)
  BY CatchesFacts
<1>2. /\ IsSeq(Dropped(s)) /\ Len(Dropped(s)) = Caught(s) - 1
      /\ \A i \in 1..(Caught(s) - 1) : Dropped(s)[i] = s[i]
  BY <1>1, PrefixFacts DEF Dropped
<1> QED BY <1>2, SeqFacts

LEMMA UnwoundOpened ==
  ASSUME NEW s, IsSeq(s), NEW c \in Counter
  PROVE  Opened(Unwound(s), c) = Opened(s, c) - Opened(Dropped(s), c)
<1> DEFINE n == Caught(s)
           p == Dropped(s)
           r == SubSeq(s, n, Len(s))
<1>1. n \in 1..(Len(s) + 1) /\ Len(s) \in Nat /\ IsSeq(p)
  BY CatchesFacts, DroppedFacts
<1>2. IsSeq(r) /\ Len(r) = Len(s) - n + 1
  BY <1>1, SubSeqFacts
<1>3. s = p \o r
  BY <1>1, PrefixFacts DEF Dropped
<1>4. Opened(p \o r, c) = Opened(p, c) + Opened(r, c)
  <2> HIDE DEF p, r
  <2> QED BY <1>1, <1>2, OpenedConcat
<1>5. Opened(p, c) \in Int /\ Opened(r, c) \in Int
  <2> HIDE DEF p, r
  <2> QED BY <1>1, <1>2, OpenedType
<1>6. Opened(s, c) = Opened(p, c) + Opened(r, c)
  BY <1>3, <1>4, Zenon
<1>7. Opened(Unwound(s), c) = Opened(r, c)
  <2>1. CASE Catches(s) = {}
    <3>1. Unwound(s) = <<>> /\ Len(r) = 0
      BY <1>1, <1>2, <2>1 DEF Unwound, Caught
    <3>2. DOMAIN r = 1..Len(r)
      BY <1>2, SeqFacts
    <3>3. DOMAIN r = {} /\ DOMAIN <<>> = {}
      BY <3>1, <3>2
    <3>4. Opened(r, c) = 0 /\ Opened(<<>>, c) = 0
      BY <3>3, EmptyOpened
    <3> QED BY <3>1, <3>4
  <2>2. CASE Catches(s) # {}
    <3> DEFINE u == <<"synchronize">>
    <3>1. Unwound(s) = u \o r
      BY <2>2 DEF Unwound
    <3>2. IsSeq(u)
      BY Tuple1, Zenon
    <3>3. Opened(u, c) = 0
      <4>1. "synchronize" \notin Mark \cup {"lambda_body"}
        BY Zenon DEF Mark
      <4> QED BY <4>1, SingleOpened
    <3> HIDE DEF u, r, p, n
    <3>4. Opened(u \o r, c) = Opened(u, c) + Opened(r, c)
      BY <1>2, <3>2, OpenedConcat
    <3> QED BY <1>5, <3>1, <3>3, <3>4
  <2> QED BY <2>1, <2>2
<1> HIDE DEF p, r, n
<1>8. Opened(Unwound(s), c) = Opened(s, c) - Opened(p, c)
  BY <1>5, <1>6, <1>7
<1> QED BY <1>8 DEF p

\* Of parse_expression it is the very number that the code takes off.
LEMMA DroppedExpressions ==
  ASSUME NEW s, IsSeq(s)
  PROVE  Opened(Dropped(s), "expression") =
           Cardinality({i \in 1..(Caught(s) - 1) : s[i] = "expression-"})
<1> DEFINE p == Dropped(s)
           m == Caught(s) - 1
<1>1. DOMAIN p = 1..m /\ \A i \in 1..m : p[i] = s[i]
  BY DroppedFacts
<1>2. IsSeq(p)
  BY DroppedFacts
<1> HIDE DEF p, m
<1>3. Where(p, {"expression-"}) = {i \in 1..m : s[i] = "expression-"}
  BY <1>1 DEF Where
<1>4. Count(p, {}) = 0
  BY CountNone
<1>5. Count(p, {"expression-"}) \in Nat
  BY <1>2, CountType
<1>6. Opened(p, "expression") = Count(p, {"expression-"})
  <2>1. Closing("expression") = {"expression-"} /\ Opening("expression") = {}
    BY Brackets, Zenon
  <2> QED BY <1>4, <1>5, <2>1 DEF Opened
<1> QED BY <1>3, <1>6 DEF Count, p, m

\* Of the other counters it is no negative number, so that they only stay high.
LEMMA DroppedOthers ==
  ASSUME NEW s, IsSeq(s), NEW t, Placed(s, t),
         s[1] \notin {"any", "for+", "record+", "lambda+"},
         NEW c \in Counter \ {"expression"}
  PROVE  Opened(Dropped(s), c) >= 0
<1> DEFINE p == Dropped(s)
           n == Caught(s)
<1>1. /\ n \in 1..(Len(s) + 1) /\ Len(s) \in Nat /\ DOMAIN s = 1..Len(s) /\ n \in Nat
      /\ n # Len(s) + 1 => s[n - 1] = "catch"
      /\ IsSeq(p) /\ DOMAIN p = 1..(n - 1) /\ \A i \in 1..(n - 1) : p[i] = s[i]
  <2>1. n # Len(s) + 1 => Catches(s) # {}
    BY DEF Caught
  <2> QED BY <2>1, CatchesFacts, DroppedFacts
<1> HIDE DEF p, n
<1>2. Count(p, Closing(c)) \in Nat /\ Count(p, Opening(c)) \in Nat
  BY <1>1, CountType
<1>3. CASE c \in {"for", "record"}
  <2>1. Opening(c) \subseteq {"for+", "record+"}
    BY <1>3, Brackets, Zenon
  <2>2. \A i \in DOMAIN p : p[i] \notin Opening(c)
    <3> TAKE i \in DOMAIN p
    <3>1. i \in DOMAIN s /\ p[i] = s[i]
      BY <1>1
    <3>2. s[i] \notin {"for+", "record+"}
      BY <3>1, Zenon DEF Placed, PlacedAt
    <3> QED BY <2>1, <3>1, <3>2
  <2>3. Count(p, Opening(c)) = 0
    BY <2>2, CountNone
  <2> QED BY <1>2, <2>3 DEF Opened, p
<1>4. CASE c = "lambda"
  <2> DEFINE A == Where(p, {"lambda+"})
             B == Where(p, {"lambda-", "lambda_body"})
             f == [i \in A |-> i + 1]
  <2>1. ASSUME NEW i \in A
        PROVE  i + 1 \in B /\ i \in Nat
    <3>1. i \in 1..(n - 1) /\ i \in DOMAIN s /\ s[i] = "lambda+"
      BY <1>1 DEF Where
    <3>2. i < Len(s) /\ s[i + 1] = "lambda_body"
      BY <3>1, Zenon DEF Placed, PlacedAt
    <3>3. n = Len(s) + 1 \/ i # n - 1
      BY <1>1, <3>1
    <3>4. i + 1 # n
      BY <1>1, <3>1, <3>2, <3>3
    <3>5. i + 1 \in 1..(n - 1)
      BY <1>1, <3>1, <3>4
    <3> QED BY <1>1, <3>1, <3>2, <3>5 DEF Where
  <2>2. f \in [A -> B]
    BY <2>1
  <2>3. IsInjective(f)
    <3>1. \A a, b \in A : a + 1 = b + 1 => a = b
      BY <2>1
    <3> HIDE DEF A, B
    <3> QED BY <3>1 DEF IsInjective
  <2>4. f \in Injection(A, B)
    BY <2>2, <2>3 DEF Injection
  <2>5. IsFiniteSet(B)
    BY <1>1, CountType
  <2>6. Cardinality(A) <= Cardinality(B)
    <3> HIDE DEF A, B, f
    <3> QED BY <2>4, <2>5, FS_Injection
  <2>7. Closing(c) = {"lambda-", "lambda_body"} /\ Opening(c) = {"lambda+"}
    BY <1>4, Brackets, Zenon
  <2>8. Count(p, Opening(c)) <= Count(p, Closing(c))
    BY <2>6, <2>7 DEF Count
  <2> QED BY <1>2, <2>8 DEF Opened, p
<1> QED BY <1>3, <1>4, Zenon DEF Counter

-----------------------------------------------------------------------------
\* Counters: the steps; DepthsCovered.

\* The expression counter is exact. The other three are exact until the first
\* error, never too low after it, and beyond their limit only after it.
DepthOK ==
  /\ depth \in [Counter -> Int]
  /\ depth["expression"] = Opened(stack, "expression")
  /\ \A c \in Counter \ {"expression"} :
       /\ depth[c] >= Opened(stack, c)
       /\ errors = 0 => depth[c] = Opened(stack, c)
       /\ depth[c] > Limit[c] => errors > 0

\* Parser's Open, in the terms used here.
LEMMA OpenIs ==
  ASSUME NEW c
  PROVE  Open(c) = Opened(stack, c)
BY DEF Open, Opened, Closing, Opening, Count, Where

LEMMA LimitFacts ==
  ASSUME NEW c \in Counter
  PROVE  Limit[c] \in Nat
BY ParserAssumption

\* Steps that leave counters and open functions alone.
LEMMA DepthKept ==
  ASSUME DepthOK, depth' = depth, errors \in Nat,
         \A c \in Counter : Opened(stack', c) = Opened(stack, c),
         \/ errors' = errors
         \/ errors' \in Nat /\ errors' > 0
  PROVE  DepthOK'
<1>1. depth' \in [Counter -> Int]
  BY DEF DepthOK
<1>2. depth'["expression"] = Opened(stack', "expression")
  BY Zenon DEF DepthOK, Counter
<1>3. errors' = 0 => errors = 0
  OBVIOUS
<1>4. errors > 0 => errors' > 0
  OBVIOUS
<1>5. ASSUME NEW c \in Counter \ {"expression"}
      PROVE  /\ depth'[c] >= Opened(stack', c)
             /\ errors' = 0 => depth'[c] = Opened(stack', c)
             /\ depth'[c] > Limit[c] => errors' > 0
  <2>1. c \in Counter /\ Opened(stack', c) = Opened(stack, c)
    OBVIOUS
  <2> QED BY <1>3, <1>4, <2>1, Zenon DEF DepthOK
<1> QED BY <1>1, <1>2, <1>5, Zenon DEF DepthOK

LEMMA PopOpened ==
  ASSUME IsSeq(stack), Running, stack' = Rest, NEW c \in Counter
  PROVE  /\ Opened(stack', c) = Opened(stack, c) - Opened(<<Top>>, c)
         /\ Opened(stack, c) \in Int /\ Opened(<<Top>>, c) \in Int
<1>1. Top = stack[1] /\ stack # <<>> /\ IsSeq(Tail(stack)) /\ stack' = Tail(stack)
  BY TopFacts DEF Rest
<1>2. Opened(stack, c) = Opened(<<Top>>, c) + Opened(Tail(stack), c)
  BY <1>1, OpenedHead
<1>3. IsSeq(<<Top>>)
  BY Tuple1, Zenon
<1>4. /\ Opened(stack, c) \in Int /\ Opened(<<Top>>, c) \in Int
      /\ Opened(Tail(stack), c) \in Int
  BY <1>1, <1>3, OpenedType
<1>5. Opened(Tail(stack), c) = Opened(stack, c) - Opened(<<Top>>, c)
  BY <1>2, <1>4
<1> QED BY <1>1, <1>4, <1>5

LEMMA PopDepth ==
  ASSUME Core, DepthOK, Running, stack' = Rest, Top \notin Bracket, depth' = depth,
         \/ errors' = errors
         \/ errors' \in Nat /\ errors' > 0
  PROVE  DepthOK'
<1>1. ASSUME NEW c \in Counter
      PROVE  Opened(stack', c) = Opened(stack, c)
  <2>1. Top \notin Closing(c) \cup Opening(c)
    BY Brackets, Zenon DEF Counter, Bracket
  <2>2. Opened(<<Top>>, c) = 0
    BY <2>1, SingleOpened
  <2> QED BY <2>2, PopOpened DEF Core, StackOK
<1> QED BY <1>1, DepthKept DEF Core, TypesOK

LEMMA UnwindDepth ==
  ASSUME Core, DepthOK, Running, Unwind, errors' \in Nat, errors' > 0,
         stack[1] \notin {"any", "for+", "record+", "lambda+"}
  PROVE  DepthOK'
<1> DEFINE d == Cardinality({i \in 1..(Caught(stack) - 1) : stack[i] = "expression-"})
<1>1. IsSeq(stack) /\ stack # <<>> /\ Placed(stack, look)
  BY TopFacts DEF Core, StackOK
<1>2. depth' = [depth EXCEPT !["expression"] = depth["expression"] - d]
  <2>1. Catchers = Catches(stack)
    BY DEF Catchers, Catches
  <2>2. Caught(stack) - 1 = IF Catchers = {} THEN Len(stack) ELSE Min(Catchers)
    BY <1>1, <2>1, CatchesFacts
  <2> QED BY <2>2, Zenon DEF Unwind
<1>3. stack' = Unwound(stack)
  BY UnwindIs
<1>4. d = Opened(Dropped(stack), "expression")
  BY <1>1, DroppedExpressions
<1> HIDE DEF d
<1>5. ASSUME NEW c \in Counter
      PROVE  /\ Opened(stack', c) = Opened(stack, c) - Opened(Dropped(stack), c)
             /\ Opened(stack, c) \in Int /\ Opened(Dropped(stack), c) \in Int
             /\ Opened(stack', c) \in Int
  <2>1. IsSeq(Dropped(stack))
    BY <1>1, DroppedFacts
  <2>2. Opened(stack, c) \in Int /\ Opened(Dropped(stack), c) \in Int
    BY <1>1, <2>1, OpenedType
  <2>3. Opened(stack', c) = Opened(stack, c) - Opened(Dropped(stack), c)
    BY <1>1, <1>3, UnwoundOpened
  <2> QED BY <2>2, <2>3
<1>6. "expression" \in Counter
  BY Zenon DEF Counter
<1>7. depth \in [Counter -> Int] /\ depth["expression"] = Opened(stack, "expression")
  BY Zenon DEF DepthOK
<1>8. d \in Int /\ depth["expression"] \in Int
  BY <1>4, <1>5, <1>6, <1>7
<1>9. depth' \in [Counter -> Int]
  <2>1. depth["expression"] - d \in Int
    BY <1>8
  <2> QED BY <1>2, <1>7, <2>1, Zenon
<1>10. depth'["expression"] = Opened(stack', "expression")
  <2>1. depth'["expression"] = depth["expression"] - d
    BY <1>2, <1>6, <1>7
  <2> QED BY <1>4, <1>5, <1>6, <1>7, <2>1
<1>11. ASSUME NEW c \in Counter \ {"expression"}
       PROVE  depth'[c] >= Opened(stack', c)
  <2>1. depth'[c] = depth[c] /\ depth[c] \in Int
    BY <1>2, <1>7
  <2>2. depth[c] >= Opened(stack, c)
    BY DEF DepthOK
  <2>3. Opened(Dropped(stack), c) >= 0
    BY <1>1, DroppedOthers
  <2>4. /\ Opened(stack', c) = Opened(stack, c) - Opened(Dropped(stack), c)
        /\ Opened(stack, c) \in Int /\ Opened(Dropped(stack), c) \in Int
    BY <1>5
  <2> QED BY <2>1, <2>2, <2>3, <2>4
<1>12. errors' # 0
  OBVIOUS
<1> QED BY <1>9, <1>10, <1>11, <1>12, Zenon DEF DepthOK

LEMMA ReportDepth ==
  ASSUME Core, Report
  PROVE  errors' \in Nat /\ errors' > 0
BY ReportTypes DEF Core

LEMMA ExpectationBracket == Expectation \cap (Bracket \cup {"for+", "record+",
    "lambda+"}) = {}
BY ExpectationItems, Zenon DEF Bracket, Mark

\* Each action keeps DepthOK.
LEMMA ExpectDepth ==
  ASSUME Core, DepthOK, Expect
  PROVE  DepthOK'
<1>1. /\ Running /\ Top \in Expectation
      /\ stack' = Rest /\ depth' = depth /\ errors' = errors
  BY DEF Expect
<1>2. Top \notin Bracket
  BY <1>1, ExpectationBracket, Zenon
<1> QED BY <1>1, <1>2, PopDepth

LEMMA UnexpectedDepth ==
  ASSUME Core, DepthOK, Unexpected
  PROVE  DepthOK'
<1>1. Running /\ Top \in Expectation /\ look \notin Accepts(Top) /\ Report /\ Unwind
  BY DEF Unexpected
<1>2. stack[1] \in Expectation /\ look \notin Accepts(stack[1]) /\ look \in Token
  BY <1>1, TopFacts DEF Core, StackOK, TypesOK
<1>3. stack[1] # "any"
  BY <1>2, Zenon DEF Accepts
<1>4. stack[1] \notin {"any", "for+", "record+", "lambda+"}
  BY <1>2, <1>3, ExpectationItems, ExpectationBracket, Zenon
<1> QED BY <1>1, <1>4, ReportDepth, UnwindDepth

LEMMA ReturnNoneDepth ==
  ASSUME Core, DepthOK, ReturnNone
  PROVE  DepthOK'
<1>1. Running /\ Top = "none" /\ Unwind /\ errors' = errors
  BY DEF ReturnNone
<1>2. errors # 0
  BY <1>1, NoneErrs
<1>3. errors' \in Nat /\ errors' > 0
  BY <1>1, <1>2 DEF Core, TypesOK
<1>4. stack[1] = "none"
  BY <1>1, TopFacts DEF Core, StackOK
<1>5. stack[1] \notin {"any", "for+", "record+", "lambda+"}
  BY <1>4, Zenon
<1> QED BY <1>1, <1>3, <1>5, UnwindDepth

LEMMA ReportErrorDepth ==
  ASSUME Core, DepthOK, ReportError
  PROVE  DepthOK'
<1>1. Running /\ Top = "error" /\ Report /\ stack' = Rest /\ depth' = depth
  BY DEF ReportError
<1>2. Top \notin Bracket
  BY <1>1, Zenon DEF Bracket
<1> QED BY <1>1, <1>2, ReportDepth, PopDepth

LEMMA ReplaceOpened ==
  ASSUME IsSeq(stack), Running, NEW u, IsSeq(u), stack' = u \o Tail(stack),
         NEW c \in Counter
  PROVE  /\ Opened(stack', c) = Opened(stack, c) - Opened(<<stack[1]>>, c) + Opened(u, c)
         /\ Opened(stack, c) \in Int /\ Opened(<<stack[1]>>, c) \in Int
         /\ Opened(u, c) \in Int
<1>1. stack # <<>> /\ IsSeq(Tail(stack))
  BY TopFacts
<1>2. Opened(stack, c) = Opened(<<stack[1]>>, c) + Opened(Tail(stack), c)
  BY <1>1, OpenedHead
<1>3. Opened(stack', c) = Opened(u, c) + Opened(Tail(stack), c)
  BY <1>1, OpenedConcat
<1>4. IsSeq(<<stack[1]>>)
  BY Tuple1, Zenon
<1>5. /\ Opened(stack, c) \in Int /\ Opened(<<stack[1]>>, c) \in Int
      /\ Opened(Tail(stack), c) \in Int /\ Opened(u, c) \in Int
  BY <1>1, <1>4, OpenedType
<1> QED BY <1>2, <1>3, <1>5

LEMMA ExpandDepth ==
  ASSUME Core, DepthOK, Expand
  PROVE  DepthOK'
<1>1. PICK u : Expands(u)
  BY Expansion
<1>2. Running /\ depth' = depth /\ errors' = errors
  BY DEF Expand
<1>3. Fits(stack[1], look, u) /\ stack' = u \o Tail(stack)
  BY <1>1 DEF Expands
<1>4. IsSeq(u)
  BY <1>3 DEF Fits, Suits
<1>5. ASSUME NEW c \in Counter
      PROVE  Opened(stack', c) = Opened(stack, c)
  <2>1. Opened(u, c) = Opened(<<stack[1]>>, c)
    BY <1>3 DEF Fits
  <2>2. /\ Opened(stack', c) = Opened(stack, c) - Opened(<<stack[1]>>, c) + Opened(u, c)
        /\ Opened(stack, c) \in Int /\ Opened(<<stack[1]>>, c) \in Int
    BY <1>2, <1>3, <1>4, ReplaceOpened DEF Core, StackOK
  <2> QED BY <2>1, <2>2
<1> QED BY <1>2, <1>5, DepthKept DEF Core, TypesOK

LEMMA PushOpened ==
  ASSUME NEW c \in Counter
  PROVE  Opened(<<"parse_or", "expression-">>, c) = IF c = "expression" THEN 1 ELSE 0
<1> DEFINE u == <<"parse_or", "expression-">>
<1>1. DOMAIN u = {1, 2} /\ u[1] = "parse_or" /\ u[2] = "expression-"
  OBVIOUS
<1> HIDE DEF u
<1>2. "parse_or" \notin Closing(c) \cup Opening(c)
  <2>1. "parse_or" \notin Mark \cup {"lambda_body"}
    BY Zenon DEF Mark
  <2> QED BY <2>1, BracketsMark, Zenon
<1>3. "expression-" \notin Opening(c) /\ ("expression-" \in Closing(c) <=> c = "expression")
  BY Brackets, Zenon DEF Counter
<1>4. Count(u, Opening(c)) = 0
  <2>1. \A i \in DOMAIN u : u[i] \notin Opening(c)
    BY <1>1, <1>2, <1>3
  <2> QED BY <2>1, CountNone
<1>5. CASE c = "expression"
  <2>1. Count(u, Closing(c)) = 1
    <3>1. 2 \in DOMAIN u /\ u[2] \in Closing(c)
      BY <1>1, <1>3, <1>5
    <3>2. \A i \in DOMAIN u : i # 2 => u[i] \notin Closing(c)
      BY <1>1, <1>2
    <3> QED BY <3>1, <3>2, CountOne
  <2> QED BY <1>4, <1>5, <2>1 DEF Opened, u
<1>6. CASE c # "expression"
  <2>1. \A i \in DOMAIN u : u[i] \notin Closing(c)
    BY <1>1, <1>2, <1>3, <1>6
  <2>2. Count(u, Closing(c)) = 0
    BY <2>1, CountNone
  <2> QED BY <1>4, <1>6, <2>2 DEF Opened, u
<1> QED BY <1>5, <1>6

LEMMA ExpressionDepth ==
  ASSUME Core, DepthOK, Expression
  PROVE  DepthOK'
<1>1. Running /\ Top = "parse_expression" /\ IsSeq(stack) /\ errors \in Nat
  BY DEF Expression, Core, StackOK, TypesOK
<1>2. Top = stack[1]
  BY <1>1, TopFacts
<1>3. CASE /\ depth' = [depth EXCEPT !["expression"] = depth["expression"] + 1]
           /\ Replace(<<"parse_or", "expression-">>) /\ errors' = errors
  <2> DEFINE u == <<"parse_or", "expression-">>
  <2>1. IsSeq(u)
    BY Tuple2, Zenon
  <2>2. stack' = u \o Tail(stack)
    BY <1>3 DEF Replace, Rest
  <2>3. \A c \in Counter : Opened(u, c) = IF c = "expression" THEN 1 ELSE 0
    BY PushOpened
  <2>4. "parse_expression" \notin Mark \cup {"lambda_body"}
    BY Zenon DEF Mark
  <2> HIDE DEF u
  <2>5. ASSUME NEW c \in Counter
        PROVE  /\ Opened(stack', c) = Opened(stack, c) + IF c = "expression" THEN 1 ELSE 0
               /\ Opened(stack, c) \in Int
    <3>1. Opened(<<stack[1]>>, c) = 0
      BY <1>1, <1>2, <2>4, SingleOpened
    <3>2. /\ Opened(stack', c) = Opened(stack, c) - Opened(<<stack[1]>>, c) + Opened(u, c)
          /\ Opened(stack, c) \in Int
      BY <1>1, <2>1, <2>2, ReplaceOpened
    <3> QED BY <2>3, <3>1, <3>2
  <2>6. "expression" \in Counter
    BY Zenon DEF Counter
  <2>7. /\ depth \in [Counter -> Int]
        /\ depth["expression"] = Opened(stack, "expression")
    BY Zenon DEF DepthOK
  <2>8. depth' \in [Counter -> Int] /\ depth'["expression"] = depth["expression"] + 1
    BY <1>3, <2>6, <2>7
  <2>9. depth'["expression"] = Opened(stack', "expression")
    BY <2>5, <2>6, <2>7, <2>8
  <2>10. ASSUME NEW c \in Counter \ {"expression"}
         PROVE  depth'[c] = depth[c] /\ Opened(stack', c) = Opened(stack, c)
    BY <1>3, <2>5, <2>7
  <2> QED BY <1>3, <2>8, <2>9, <2>10, Zenon DEF DepthOK
<1>4. CASE Report /\ Unwind
  <2>1. stack[1] \notin {"any", "for+", "record+", "lambda+"}
    BY <1>1, <1>2, Zenon
  <2> QED BY <1>1, <1>4, <2>1, ReportDepth, UnwindDepth
<1> QED BY <1>3, <1>4 DEF Expression

LEMMA EnterDepth ==
  ASSUME Core, DepthOK, Enter
  PROVE  DepthOK'
<1> DEFINE c == Enters[Top]
<1>1. /\ Running /\ Top \in DOMAIN Enters
      /\ stack' = Rest /\ IsSeq(stack) /\ errors \in Nat
      /\ depth' = [depth EXCEPT ![c] = depth[c] + 1]
      /\ IF depth[c] + 1 > Limit[c] THEN Report ELSE errors' = errors
  BY DEF Enter, Core, StackOK, TypesOK
<1>2. c \in Counter \ {"expression"} /\ Top \in Opening(c)
  <2>1. c \in Counter \ {"expression"}
    BY <1>1, Zenon DEF Enters, Counter
  <2>2. Top \in Opening(c)
    BY <1>1 DEF Opening
  <2> QED BY <2>1, <2>2
<1>3. \A x \in Counter \ {c} : Top \notin Opening(x) \cup Closing(x)
  BY <1>1, Brackets, Zenon DEF Enters, Counter
<1> HIDE DEF c
<1>4. Opened(stack', c) = Opened(stack, c) + 1 /\ Opened(stack, c) \in Int
  <2>1. Opened(<<Top>>, c) = -1
    BY <1>2, SingleOpened
  <2> QED BY <1>1, <1>2, <2>1, PopOpened
<1>5. ASSUME NEW x \in Counter \ {c}
      PROVE  Opened(stack', x) = Opened(stack, x)
  <2>1. Opened(<<Top>>, x) = 0
    BY <1>3, SingleOpened
  <2> QED BY <1>1, <2>1, PopOpened
<1>6. depth \in [Counter -> Int] /\ depth["expression"] = Opened(stack, "expression")
      /\ "expression" \in Counter \ {c}
  BY <1>2, Zenon DEF DepthOK, Counter
<1>7. depth[c] \in Int /\ depth[c] + 1 \in Int
  BY <1>2, <1>6
<1>8. depth' \in [Counter -> Int] /\ depth'[c] = depth[c] + 1
      /\ \A x \in Counter \ {c} : depth'[x] = depth[x]
  BY <1>1, <1>2, <1>6, <1>7, Zenon
<1>9. /\ errors' = 0 => errors = 0
      /\ errors > 0 => errors' > 0
      /\ depth[c] + 1 > Limit[c] => errors' > 0
  BY <1>1, ReportDepth
<1>10. /\ depth'[c] >= Opened(stack', c)
       /\ errors' = 0 => depth'[c] = Opened(stack', c)
       /\ depth'[c] > Limit[c] => errors' > 0
  <2>1. depth[c] >= Opened(stack, c) /\ (errors = 0 => depth[c] = Opened(stack, c))
    BY <1>2, Zenon DEF DepthOK
  <2>2. depth'[c] >= Opened(stack', c)
    BY <1>4, <1>7, <1>8, <2>1
  <2>3. errors' = 0 => depth'[c] = Opened(stack', c)
    BY <1>4, <1>7, <1>8, <1>9, <2>1
  <2> QED BY <1>8, <1>9, <2>2, <2>3
<1>11. ASSUME NEW x \in Counter \ {"expression"}, x # c
       PROVE  /\ depth'[x] >= Opened(stack', x)
              /\ errors' = 0 => depth'[x] = Opened(stack', x)
              /\ depth'[x] > Limit[x] => errors' > 0
  BY <1>5, <1>8, <1>9, <1>11, Zenon DEF DepthOK
<1>12. depth'["expression"] = Opened(stack', "expression")
  BY <1>5, <1>6, <1>8, Zenon
<1> QED BY <1>8, <1>10, <1>11, <1>12, Zenon DEF DepthOK

LEMMA LeaveDepth ==
  ASSUME Core, DepthOK, Leave
  PROVE  DepthOK'
<1> DEFINE c == Leaves[Top]
<1>1. /\ Running /\ Top \in DOMAIN Leaves
      /\ stack' = Rest /\ IsSeq(stack) /\ errors \in Nat
      /\ depth' = [depth EXCEPT ![c] = depth[c] - 1] /\ errors' = errors
  BY DEF Leave, Core, StackOK, TypesOK
<1>2. c \in Counter /\ Top \in Closing(c)
  <2>1. c \in Counter
    BY <1>1, Zenon DEF Leaves, Counter
  <2>2. Top \in Closing(c)
    BY <1>1 DEF Closing
  <2> QED BY <2>1, <2>2
<1>3. \A x \in Counter \ {c} : Top \notin Opening(x) \cup Closing(x)
  BY <1>1, Brackets, Zenon DEF Leaves, Counter
<1> HIDE DEF c
<1>4. Opened(stack', c) = Opened(stack, c) - 1 /\ Opened(stack, c) \in Int
  <2>1. Opened(<<Top>>, c) = 1
    BY <1>2, SingleOpened
  <2> QED BY <1>1, <1>2, <2>1, PopOpened
<1>5. ASSUME NEW x \in Counter \ {c}
      PROVE  Opened(stack', x) = Opened(stack, x)
  <2>1. Opened(<<Top>>, x) = 0
    BY <1>3, SingleOpened
  <2> QED BY <1>1, <2>1, PopOpened
<1>6. depth \in [Counter -> Int] /\ depth["expression"] = Opened(stack, "expression")
      /\ "expression" \in Counter
  BY Zenon DEF DepthOK, Counter
<1>7. depth[c] \in Int /\ depth[c] - 1 \in Int
  BY <1>2, <1>6
<1>8. depth' \in [Counter -> Int] /\ depth'[c] = depth[c] - 1
      /\ \A x \in Counter \ {c} : depth'[x] = depth[x]
  BY <1>1, <1>2, <1>6, <1>7, Zenon
<1>9. ASSUME c # "expression"
      PROVE  /\ depth'[c] >= Opened(stack', c)
             /\ errors' = 0 => depth'[c] = Opened(stack', c)
             /\ depth'[c] > Limit[c] => errors' > 0
  <2>1. /\ depth[c] >= Opened(stack, c) /\ (errors = 0 => depth[c] = Opened(stack, c))
        /\ depth[c] > Limit[c] => errors > 0
    BY <1>2, <1>9, Zenon DEF DepthOK
  <2>2. depth'[c] >= Opened(stack', c)
    BY <1>4, <1>7, <1>8, <2>1
  <2>3. errors' = 0 => depth'[c] = Opened(stack', c)
    BY <1>1, <1>4, <1>7, <1>8, <2>1
  <2>4. Limit[c] \in Nat
    BY <1>2, LimitFacts
  <2>5. depth'[c] > Limit[c] => depth[c] > Limit[c]
    BY <1>7, <1>8, <2>4
  <2> QED BY <1>1, <2>1, <2>2, <2>3, <2>5
<1>10. ASSUME NEW x \in Counter \ {"expression"}, x # c
       PROVE  /\ depth'[x] >= Opened(stack', x)
              /\ errors' = 0 => depth'[x] = Opened(stack', x)
              /\ depth'[x] > Limit[x] => errors' > 0
  BY <1>1, <1>5, <1>8, <1>10, Zenon DEF DepthOK
<1>11. depth'["expression"] = Opened(stack', "expression")
  <2>1. CASE c = "expression"
    BY <1>4, <1>6, <1>8, <2>1
  <2>2. CASE c # "expression"
    BY <1>5, <1>6, <1>8, <2>2, Zenon
  <2> QED BY <2>1, <2>2
<1> QED BY <1>8, <1>9, <1>10, <1>11, Zenon DEF DepthOK

LEMMA InOrderDepth ==
  ASSUME Core, DepthOK, InOrder
  PROVE  DepthOK'
<1>1. Running /\ Top = Ordered /\ stack' = Rest /\ depth' = depth
      /\ (Report \/ errors' = errors)
  BY Zenon DEF InOrder, Ordered
<1>2. Top \notin Bracket
  BY <1>1, SpecialItems, Zenon
<1> QED BY <1>1, <1>2, ReportDepth, PopDepth

LEMMA GotDepth ==
  ASSUME Core, DepthOK, Got
  PROVE  DepthOK'
<1>1. Running /\ stack' = Rest /\ depth' = depth /\ errors' = errors
      /\ (Top \in DOMAIN Gets \/ Top = "no field")
  BY Zenon DEF Got
<1>2. Top \notin Bracket
  BY <1>1, Zenon DEF Gets, Bracket
<1> QED BY <1>1, <1>2, PopDepth

LEMMA CountParamDepth ==
  ASSUME Core, DepthOK, CountParam
  PROVE  DepthOK'
<1>1. Running /\ stack' = Rest /\ depth' = depth /\ errors' = errors
      /\ (Top = "no param" \/ Top = "one param")
  BY Zenon DEF CountParam
<1>2. Top \notin Bracket
  BY <1>1, Zenon DEF Bracket
<1> QED BY <1>1, <1>2, PopDepth

LEMMA InitDepth ==
  ASSUME Init
  PROVE  DepthOK
<1>1. /\ depth = [c \in Counter |-> 0] /\ errors = 0
      /\ stack = <<"skip_newlines", "parse_program">>
  BY DEF Init
<1>2. ASSUME NEW c \in Counter
      PROVE  Opened(stack, c) = 0
  <2>1. {"skip_newlines", "parse_program"} \cap (Mark \cup {"lambda_body"}) = {}
    BY Zenon DEF Mark
  <2>2. {"skip_newlines", "parse_program"} \cap (Opening(c) \cup Closing(c)) = {}
    BY <2>1, BracketsMark, Zenon
  <2>3. /\ DOMAIN stack = 1..2
        /\ stack[1] = "skip_newlines" /\ stack[2] = "parse_program"
    BY <1>1, Tuple2, Zenon
  <2>4. \A i \in 1..2 : i = 1 \/ i = 2
    OBVIOUS
  <2>5. \A i \in DOMAIN stack :
            stack[i] \notin Closing(c) /\ stack[i] \notin Opening(c)
    BY <2>2, <2>3, <2>4, Zenon
  <2>6. Count(stack, Closing(c)) = 0 /\ Count(stack, Opening(c)) = 0
    BY <2>5, CountNone
  <2> QED BY <2>6 DEF Opened
<1>3. "expression" \in Counter
  BY Zenon DEF Counter
<1>4. depth \in [Counter -> Int] /\ \A c \in Counter : depth[c] = 0
  BY <1>1
<1>5. \A c \in Counter : Limit[c] \in Nat
  BY LimitFacts
<1>6. ASSUME NEW c \in Counter \ {"expression"}
      PROVE  /\ depth[c] >= Opened(stack, c)
             /\ errors = 0 => depth[c] = Opened(stack, c)
             /\ depth[c] > Limit[c] => errors > 0
  BY <1>2, <1>4, <1>5
<1>7. depth["expression"] = Opened(stack, "expression")
  BY <1>2, <1>3, <1>4
<1> QED BY <1>4, <1>6, <1>7, Zenon DEF DepthOK

LEMMA StepDepth ==
  ASSUME Core, DepthOK, [Next]_vars
  PROVE  DepthOK'
<1>1. CASE Next
  BY <1>1, ExpectDepth, UnexpectedDepth, ReturnNoneDepth, ReportErrorDepth,
      ExpandDepth,
    ExpressionDepth, EnterDepth, LeaveDepth, InOrderDepth, GotDepth,
        CountParamDepth DEF Next
<1>2. CASE UNCHANGED vars
  BY <1>2, Zenon DEF vars, DepthOK
<1> QED BY <1>1, <1>2

LEMMA DepthImplies ==
  ASSUME Core, DepthOK
  PROVE  DepthsCovered
<1>1. depth["expression"] = Open("expression")
  BY OpenIs DEF DepthOK
<1>2. ASSUME NEW c \in Counter \ {"expression"}
      PROVE  /\ depth[c] >= Open(c)
             /\ errors = 0 => depth[c] = Open(c)
             /\ Open(c) > Limit[c] => errors > 0
  <2>1. Open(c) = Opened(stack, c) /\ Open(c) \in Int
    BY OpenIs, OpenedType DEF Core, StackOK
  <2>2. /\ depth[c] >= Open(c)
        /\ errors = 0 => depth[c] = Open(c)
        /\ depth[c] > Limit[c] => errors > 0
    BY <2>1, Zenon DEF DepthOK
  <2>3. Limit[c] \in Nat /\ depth[c] \in Int
    BY LimitFacts DEF DepthOK
  <2>4. Open(c) > Limit[c] => depth[c] > Limit[c]
    BY <2>1, <2>2, <2>3
  <2> QED BY <2>2, <2>4
<1> QED BY <1>1, <1>2 DEF DepthsCovered

\* Whatever the limits: the counter of parse_expression is the number of its open
\* calls, also after errors; those of for, lambda and record are exact until the
\* first error and never too low after it, and nesting beyond a limit is reported.
THEOREM CountersCover == Spec => []DepthsCovered
<1>1. Init => Core /\ DepthOK
  BY InitCore, InitDepth
<1>2. Core /\ DepthOK /\ [Next]_vars => Core' /\ DepthOK'
  BY StepCore, StepDepth
<1>3. Core /\ DepthOK => DepthsCovered
  BY DepthImplies
<1> QED BY <1>1, <1>2, <1>3, PTL DEF Spec

-----------------------------------------------------------------------------
\* What is promised of a program accepted without error.

\* Every item of A has one of B before it.
Covered(s, A, B) ==
  \A i \in DOMAIN s : s[i] \in A => \E j \in 1..(i - 1) : s[j] \in B

\* Replacing the top keeps that.
LEMMA CoveredKept ==
  ASSUME NEW s, NEW u, NEW v, NEW A, NEW B, Cut(v, s, 2, u), Covered(u, A, B),
         \/ Covered(s, A, B) /\ s[1] \notin B
         \/ \E k \in DOMAIN u : u[k] \in B
  PROVE  Covered(v, A, B)
<1>1. /\ Len(u) \in Nat /\ Len(s) \in Nat
      /\ DOMAIN u = 1..Len(u) /\ DOMAIN s = 1..Len(s)
      /\ DOMAIN v = 1..Len(v)
      /\ \A k \in 1..Len(u) : v[k] = u[k]
      /\ \A k \in 2..Len(s) : v[Len(u) + k - 2 + 1] = s[k]
  BY DEF Cut
<1> SUFFICES ASSUME NEW i \in DOMAIN v, v[i] \in A
             PROVE  \E j \in 1..(i - 1) : v[j] \in B
  BY DEF Covered
<1>2. ASSUME i \in 1..Len(u), v[i] = u[i]
      PROVE  \E j \in 1..(i - 1) : v[j] \in B
  <2>1. PICK j \in 1..(i - 1) : u[j] \in B
    BY <1>1, <1>2 DEF Covered
  <2>2. j \in 1..Len(u)
    BY <1>1, <1>2
  <2> QED BY <1>1, <2>1, <2>2
<1>3. ASSUME NEW k \in 2..Len(s), k = i - Len(u) + 2 - 1, v[i] = s[k]
      PROVE  \E j \in 1..(i - 1) : v[j] \in B
  <2>1. CASE Covered(s, A, B) /\ s[1] \notin B
    <3>1. PICK m \in 1..(k - 1) : s[m] \in B
      BY <1>1, <1>3, <2>1 DEF Covered
    <3>2. i \in Int /\ k \in Int /\ m \in Int /\ Len(u) \in Int
      BY <1>1, <1>3
    <3>3. m \in 2..Len(s)
      <4>1. m # 1
        BY <2>1, <3>1
      <4> QED BY <1>1, <1>3, <3>1, <4>1
    <3>4. v[Len(u) + m - 2 + 1] \in B
      BY <1>1, <3>1, <3>3
    <3>5. Len(u) + m - 2 + 1 \in 1..(i - 1)
      BY <1>1, <1>3, <3>2, <3>3
    <3> QED BY <3>4, <3>5
  <2>2. CASE \E m \in DOMAIN u : u[m] \in B
    <3>1. PICK m \in 1..Len(u) : u[m] \in B
      BY <1>1, <2>2
    <3>2. m \in 1..(i - 1)
      BY <1>1, <1>3, <3>1
    <3> QED BY <1>1, <3>1, <3>2
  <2> QED BY <2>1, <2>2
<1>4. CASE \E k \in 2..Len(s) : k = i - Len(u) + 2 - 1 /\ v[i] = s[k]
  BY <1>3, <1>4, Zenon
<1>5. \/ i \in 1..Len(u) /\ v[i] = u[i]
      \/ \E k \in 2..Len(s) : k = i - Len(u) + 2 - 1 /\ v[i] = s[k]
  BY CutItem
<1> QED BY <1>2, <1>4, <1>5, Zenon

\* What is still to be got before the next block.
Getting(x) == {y \in DOMAIN Gets : Gets[y] = x}
Pending(s, x) == Covered(s, {"blocks"}, Getting(x))

Has(s, S) == \E i \in DOMAIN s : s[i] \in S

LEMMA CutHas ==
  ASSUME NEW s, NEW u, NEW v, NEW S, Cut(v, s, 2, u)
  PROVE  /\ Has(s, S) /\ s[1] \notin S => Has(v, S)
         /\ Has(u, S) => Has(v, S)
         /\ Has(v, S) => Has(u, S) \/ Has(s, S)
<1>1. /\ Len(u) \in Nat /\ Len(s) \in Nat
      /\ DOMAIN u = 1..Len(u) /\ DOMAIN s = 1..Len(s)
      /\ DOMAIN v = 1..Len(v) /\ Len(v) = Len(u) + Len(s) - 2 + 1
      /\ \A k \in 1..Len(u) : v[k] = u[k]
      /\ \A k \in 2..Len(s) : v[Len(u) + k - 2 + 1] = s[k]
      /\ 2 \in 2..(Len(s) + 1)
  BY DEF Cut
<1>2. ASSUME Has(s, S), s[1] \notin S
      PROVE  Has(v, S)
  <2>1. PICK k \in 1..Len(s) : s[k] \in S
    BY <1>1, <1>2 DEF Has
  <2>2. k # 1
    BY <1>2, <2>1
  <2>3. k \in 2..Len(s) /\ Len(u) + k - 2 + 1 \in 1..Len(v)
    BY <1>1, <2>2
  <2> QED BY <1>1, <2>1, <2>3 DEF Has
<1>3. ASSUME Has(u, S)
      PROVE  Has(v, S)
  <2>1. \A k \in 1..Len(u) : k \in 1..Len(v)
    BY <1>1
  <2> QED BY <1>1, <1>3, <2>1 DEF Has
<1>4. ASSUME Has(v, S)
      PROVE  Has(u, S) \/ Has(s, S)
  <2>1. PICK i \in DOMAIN v : v[i] \in S
    BY <1>4 DEF Has
  <2>2. \/ i \in 1..Len(u) /\ v[i] = u[i]
        \/ \E k \in 2..Len(s) : k = i - Len(u) + 2 - 1 /\ v[i] = s[k]
    BY CutItem
  <2>3. \A k \in 2..Len(s) : k \in DOMAIN s
    BY <1>1
  <2> QED BY <1>1, <2>1, <2>2, <2>3, Zenon DEF Has
<1> QED BY <1>2, <1>3, <1>4

\* The result is final only at the end of the input, or with the report that it
\* was not reached.
EndOK ==
  result = "some" =>
    \/ Len(stack) = 1 /\ stack[1] = "error"
    \/ stack = <<>> /\ (errors = 0 => look = "eof")

\* Until the state block is seen, there is something on the stack that will look
\* for it.
Promise == {"parse_program", "parse_space_decl", "state_given", "error"}
StateOK == errors = 0 => "state" \in seen \/ Has(stack, Promise)

\* The blocks that began are in order, and none began before the space did.
Ahead == {"parse_program", "parse_space_decl"}

BegunOK ==
  /\ last \in Nat /\ begun \in Seq(BlockKeyword)
  /\ errors > 0 => begun = <<>>
  /\ Has(stack, Ahead) => begun = <<>>
  /\ \A i \in DOMAIN begun : Rank[begun[i]] <= last
  /\ \A i, j \in DOMAIN begun : i < j => Rank[begun[i]] <= Rank[begun[j]]

Begun(x) == \E i \in DOMAIN begun : begun[i] = x

\* No single block began twice; a second one is reported before it is parsed.
NoDuplicates ==
  \A i, j \in DOMAIN begun :
    i < j /\ begun[i] = begun[j] => begun[i] \notin Single

\* While there is no error: a single block that began is seen, or will be before
\* the next turn over the blocks; and of a block about to begin again, that is
\* reported.
OnceOK ==
  errors = 0 =>
    /\ \A x \in Single : Begun(x) => x \in seen \/ Pending(stack, x)
    /\ NoDuplicates \/ (stack # <<>> /\ stack[1] = "error")
    /\ stack # <<>> /\ stack[1] = Ordered /\ look \in Single =>
         \/ look \in seen /\ Len(stack) > 1 /\ stack[2] = "error"
         \/ Pending(stack, look) /\ ~Begun(look)

\* These four are enough for AcceptedWellFormed.
LEMMA AcceptImplies ==
  ASSUME Core, EndOK, StateOK, BegunOK, OnceOK
  PROVE  AcceptedWellFormed
<1> SUFFICES ASSUME ~Running, result = "some", errors = 0
             PROVE  /\ look = "eof"
                    /\ "state" \in seen
                    /\ \A i, j \in DOMAIN begun :
                         i < j => /\ Rank[begun[i]] <= Rank[begun[j]]
                                  /\ begun[i] = begun[j] => begun[i] \notin Single
  BY DEF AcceptedWellFormed
<1>1. stack = <<>> /\ ~Has(stack, Promise)
  BY DEF Running, Has
<1>2. look = "eof"
  BY <1>1 DEF EndOK
<1>3. "state" \in seen
  BY <1>1, Zenon DEF StateOK
<1>4. NoDuplicates
  BY <1>1, Zenon DEF OnceOK
<1> QED BY <1>2, <1>3, <1>4, Zenon DEF BegunOK, NoDuplicates

-----------------------------------------------------------------------------
\* Acceptance: popping and replacing the top.

\* Together with Core, inductive.
AcceptOK == EndOK /\ StateOK /\ BegunOK /\ OnceOK

\* Constants.
LEMMA RankType ==
  \A x \in BlockKeyword : Rank[x] \in Nat
<1>1. /\ Rank.type = 1 /\ Rank.state = 2
      /\ Rank.capabilities = 3 /\ Rank.credentials = 4
      /\ Rank.derived = 5 /\ Rank.invariant = 6 /\ Rank.action = 7 /\ Rank.view = 8
      /\ Rank.update = 9 /\ Rank.handleEvent = 10
  BY Zenon DEF Rank
<1>2. {1, 2, 3, 4, 5, 6, 7, 8, 9, 10} \subseteq Nat
  OBVIOUS
<1> QED BY <1>1, <1>2, Zenon DEF BlockKeyword

LEMMA GettingMark ==
  ASSUME NEW x \in Single
  PROVE  Getting(x) \subseteq Mark \ {"error", Ordered}
<1>1. \A y \in DOMAIN Gets : y = "got field" \/ y \in Mark \ {"error", Ordered}
  BY Zenon DEF Gets, Mark, Ordered
<1>2. Gets["got field"] = "field" /\ "field" \notin Single
  BY Zenon DEF Gets, Single
<1> QED BY <1>1, <1>2, Zenon DEF Getting

\* Nothing follows the last error.
LEMMA NotEnded ==
  ASSUME EndOK, Core, Running, Top # "error"
  PROVE  result # "some"
BY TopFacts, Zenon DEF EndOK, Core, StackOK

\* A step after which errors were reported.
LEMMA FailAccept ==
  ASSUME errors' # 0, begun' = <<>>, last' \in Nat, result' = "some" => stack' = <<>>
  PROVE  AcceptOK'
<1>1. EndOK'
  BY DEF EndOK
<1>2. StateOK' /\ OnceOK'
  BY DEF StateOK, OnceOK
<1>3. BegunOK'
  <2>1. <<>> \in Seq(BlockKeyword) /\ DOMAIN <<>> = {}
    OBVIOUS
  <2> QED BY <2>1, Zenon DEF BegunOK
<1> QED BY <1>1, <1>2, <1>3 DEF AcceptOK

\* Popping the top.
LEMMA PopHas ==
  ASSUME Core, Running, stack' = Rest, NEW S
  PROVE  /\ Top \notin S => (Has(stack', S) <=> Has(stack, S))
         /\ Has(stack', S) => Has(stack, S)
<1>1. Cut(stack', stack, 2, <<>>) /\ Top = stack[1]
  BY RestPops, TopFacts DEF Core, StackOK, Pops
<1>2. ~Has(<<>>, S)
  BY DEF Has
<1> QED BY <1>1, <1>2, CutHas

LEMMA PopFirst ==
  ASSUME Core, Running, stack' = Rest, stack' # <<>>
  PROVE  stack'[1] # Ordered
<1>1. stack' = Tail(stack) /\ stack # <<>> /\ IsSeq(stack) /\ Placed(stack, look)
      /\ DOMAIN stack = 1..Len(stack)
  BY TopFacts DEF Rest, Core, StackOK
<1>2. Len(stack') = Len(stack) - 1 /\ Len(stack) \in Nat /\ IsSeq(stack')
      /\ \A i \in 1..(Len(stack) - 1) : stack'[i] = stack[i + 1]
  BY <1>1, TailFacts
<1>3. Len(stack') >= 1
  BY <1>2, SeqFacts
<1>4. 2 \in DOMAIN stack /\ stack'[1] = stack[2] /\ 2 # 1
  BY <1>1, <1>2, <1>3
<1> QED BY <1>1, <1>4, Zenon DEF Placed, PlacedAt

LEMMA PopPending ==
  ASSUME Core, Running, stack' = Rest, NEW x, Pending(stack, x), Top \notin Getting(x)
  PROVE  Pending(stack', x)
<1>1. Cut(stack', stack, 2, <<>>) /\ Top = stack[1]
  BY RestPops, TopFacts DEF Core, StackOK, Pops
<1>2. Covered(<<>>, {"blocks"}, Getting(x))
  BY DEF Covered
<1> QED BY <1>1, <1>2, CoveredKept DEF Pending

\* A step that drops the top and reports nothing.
LEMMA PopAccept ==
  ASSUME Core, AcceptOK, Running, stack' = Rest, Top \notin Promise,
         errors' = errors, begun' = begun, last' = last, result' = result,
         "state" \in seen => "state" \in seen',
         \A x \in Single : x \in seen \/ Top \in Getting(x) => x \in seen'
  PROVE  AcceptOK'
<1>1. Top = stack[1] /\ stack # <<>>
  BY TopFacts DEF Core, StackOK
<1>2. EndOK'
  BY NotEnded, Zenon DEF EndOK, AcceptOK, Promise
<1>3. StateOK'
  BY PopHas DEF StateOK, AcceptOK
<1>4. BegunOK'
  <2>1. Has(stack', Ahead) => begun' = <<>>
    BY PopHas DEF BegunOK, AcceptOK
  <2> QED BY <2>1, Zenon DEF BegunOK, AcceptOK
<1>5. OnceOK'
  <2> SUFFICES ASSUME errors' = 0
               PROVE  /\ \A x \in Single : Begun(x)' =>
                           x \in seen' \/ Pending(stack', x)
                      /\ NoDuplicates'
                      /\ stack' # <<>> => stack'[1] # Ordered
    BY Zenon DEF OnceOK
  <2>1. errors = 0 /\ stack[1] # "error"
    BY <1>1, Zenon DEF Promise
  <2>2. NoDuplicates
    BY <2>1, Zenon DEF OnceOK, AcceptOK
  <2>3. NoDuplicates'
    BY <2>2, Zenon DEF NoDuplicates
  <2>4. ASSUME NEW x \in Single, Begun(x)'
        PROVE  x \in seen' \/ Pending(stack', x)
    <3>1. Begun(x)
      BY <2>4, Zenon DEF Begun
    <3>2. x \in seen \/ Pending(stack, x)
      BY <2>1, <3>1, Zenon DEF OnceOK, AcceptOK
    <3> QED BY <3>2, PopPending, Zenon
  <2> QED BY <2>3, <2>4, PopFirst
<1> QED BY <1>2, <1>3, <1>4, <1>5 DEF AcceptOK

\* A step that replaces the top.
LEMMA ReplaceState ==
  ASSUME StateOK, NEW u, Replaces(stack, look, u, stack'),
         errors' = errors, seen' = seen,
         stack[1] = "state_given" => u = When("state" \notin seen, <<"error">>)
  PROVE  StateOK'
<1> SUFFICES ASSUME errors = 0, "state" \notin seen
             PROVE  Has(stack', Promise)
  BY Zenon DEF StateOK
<1>1. Has(stack, Promise) /\ Cut(stack', stack, 2, u) /\ Suits(stack[1], look, u)
  BY DEF StateOK, Replaces
<1>2. CASE stack[1] \notin Promise
  BY <1>1, <1>2, CutHas
<1>3. CASE stack[1] \in Promise
  <2>1. stack[1] # "error"
    BY <1>1, Zenon DEF Suits, Mark
  <2>2. ASSUME stack[1] = "parse_program" PROVE Has(u, Promise)
    BY <1>1, <2>2, Zenon DEF Suits, Has, Promise
  <2>3. ASSUME stack[1] = "parse_space_decl" PROVE Has(u, Promise)
    BY <1>1, <2>3, Zenon DEF Suits, Has, Promise
  <2>4. ASSUME stack[1] = "state_given" PROVE Has(u, Promise)
    <3>1. u = <<"error">>
      BY <2>4, Zenon DEF When
    <3>2. \A a : 1 \in DOMAIN <<a>> /\ <<a>>[1] = a
      OBVIOUS
    <3>3. 1 \in DOMAIN u /\ u[1] = "error"
      BY <3>1, <3>2, Zenon
    <3> QED BY <3>3, Zenon DEF Has, Promise
  <2>5. Has(u, Promise)
    BY <1>3, <2>1, <2>2, <2>3, <2>4, Zenon DEF Promise
  <2> QED BY <1>1, <2>5, CutHas
<1> QED BY <1>2, <1>3

LEMMA ReplaceBegun ==
  ASSUME Core, Running, BegunOK, NEW u, Replaces(stack, look, u, stack'),
         errors' = errors, last' = last, begun' = begun
  PROVE  BegunOK'
<1>1. Cut(stack', stack, 2, u) /\ Suits(stack[1], look, u) /\ 1 \in DOMAIN stack
  BY TopFacts DEF Replaces, Core, StackOK
<1>2. Has(u, Ahead) => stack[1] = "parse_program"
  BY <1>1, Zenon DEF Suits, Has, Ahead
<1>3. Has(u, Ahead) => Has(stack, Ahead)
  BY <1>1, <1>2, Zenon DEF Has, Ahead
<1>4. Has(stack', Ahead) => Has(stack, Ahead)
  BY <1>1, <1>3, CutHas
<1>5. Has(stack', Ahead) => begun' = <<>>
  BY <1>4 DEF BegunOK
<1> QED BY <1>5, Zenon DEF BegunOK

\* With a turn over the blocks on top nothing is pending; the turn itself brings
\* what it begins.
LEMMA BlocksPending ==
  ASSUME Core, Running, stack[1] = "blocks", NEW x
  PROVE  ~Pending(stack, x)
<1>1. 1 \in DOMAIN stack
  BY TopFacts DEF Core, StackOK
<1> QED BY <1>1 DEF Pending, Covered

LEMMA TurnPending ==
  ASSUME NEW s, NEW v, NEW u, Cut(v, s, 2, u), Len(u) = 6, u[1] = Ordered,
         u[2] \notin Special,
         u[3] \in Got1, Gets[u[3]] = look
  PROVE  Pending(v, look)
<1>1. DOMAIN u = 1..6
  BY DEF Cut
<1>2. u[3] \in Getting(look) /\ 3 \in DOMAIN u
  BY <1>1 DEF Getting, Got1
<1>3. "blocks" \in Special /\ "blocks" # Ordered /\ "blocks" \notin Got1
  BY SpecialItems, GotItems, Zenon
<1>4. Covered(u, {"blocks"}, Getting(look))
  <2> SUFFICES ASSUME NEW i \in DOMAIN u, u[i] = "blocks"
               PROVE  \E j \in 1..(i - 1) : u[j] \in Getting(look)
    BY DEF Covered
  <2>1. i # 1 /\ i # 2 /\ i # 3
    BY <1>3
  <2>2. 3 \in 1..(i - 1)
    BY <1>1, <2>1
  <2> QED BY <1>2, <2>2
<1> QED BY <1>2, <1>4, CoveredKept DEF Pending

-----------------------------------------------------------------------------
\* Acceptance: the steps.

\* Only a turn over the blocks brings the mark for their order.
LEMMA ReplaceFirst ==
  ASSUME Core, Running, NEW u, Replaces(stack, look, u, stack'),
         stack' # <<>>, stack'[1] = Ordered
  PROVE  stack[1] = "blocks" /\ Len(u) >= 1 /\ u[1] = Ordered
<1>1. /\ Cut(stack', stack, 2, u) /\ Suits(stack[1], look, u) /\ IsSeq(stack')
      /\ Placed(stack, look)
  BY DEF Replaces, Cut, Core, StackOK
<1>2. /\ 1 \in DOMAIN stack' /\ DOMAIN u = 1..Len(u)
      /\ Len(u) \in Nat /\ DOMAIN stack = 1..Len(stack)
      /\ Len(stack) \in Nat
  BY <1>1, SeqFacts DEF Cut
<1>3. ASSUME NEW k \in 2..Len(stack), stack'[1] = stack[k]
      PROVE  FALSE
  <2>1. k \in DOMAIN stack /\ k # 1 /\ stack[k] = Ordered
    BY <1>2, <1>3
  <2> QED BY <1>1, <2>1, Zenon DEF Placed, PlacedAt
<1>4. 1 \in 1..Len(u) /\ stack'[1] = u[1]
  <2>1. \/ 1 \in 1..Len(u) /\ stack'[1] = u[1]
        \/ \E k \in 2..Len(stack) : k = 1 - Len(u) + 2 - 1 /\ stack'[1] = stack[k]
    BY <1>1, <1>2, CutItem
  <2> QED BY <1>3, <2>1, Zenon
<1>5. u[1] = Ordered /\ 1 \in DOMAIN u
  BY <1>2, <1>4
<1>6. stack[1] = "blocks"
  BY <1>1, <1>5, Zenon DEF Suits
<1> QED BY <1>2, <1>4, <1>5, <1>6

LEMMA ReplaceOnce ==
  ASSUME Core, Running, BegunOK, OnceOK, NEW u, Replaces(stack, look, u, stack'),
         errors' = errors, begun' = begun, seen' = seen, look' = look,
         stack[1] = "blocks" => u = <<>> \/ BlocksTurn(u)
  PROVE  OnceOK'
<1> SUFFICES ASSUME errors = 0
             PROVE  /\ \A x \in Single : Begun(x) => x \in seen \/ Pending(stack', x)
                    /\ NoDuplicates
                    /\ stack' # <<>> /\ stack'[1] = Ordered /\ look \in Single =>
                         \/ look \in seen /\ Len(stack') > 1 /\ stack'[2] = "error"
                         \/ Pending(stack', look) /\ ~Begun(look)
  BY Zenon DEF OnceOK, Begun, NoDuplicates
<1>1. /\ Cut(stack', stack, 2, u) /\ Suits(stack[1], look, u) /\ 1 \in DOMAIN stack
      /\ stack # <<>>
  BY TopFacts DEF Replaces, Core, StackOK
<1>2. stack[1] \notin Mark /\ stack[1] # "error"
  BY <1>1, Zenon DEF Suits, Mark
<1>3. NoDuplicates
  BY <1>2, Zenon DEF OnceOK
<1>4. ASSUME NEW x \in Single, Begun(x)
      PROVE  x \in seen \/ Pending(stack, x)
  BY <1>4, Zenon DEF OnceOK
<1>5. ASSUME NEW x \in Single, Begun(x)
      PROVE  x \in seen \/ Pending(stack', x)
  <2>1. CASE x \in seen
    BY <2>1
  <2>2. CASE Pending(stack, x)
    <3>1. stack[1] # "blocks"
      BY <2>2, BlocksPending
    <3>2. stack[1] # "parse_space_decl"
      <4>1. begun # <<>>
        BY <1>5 DEF Begun
      <4>2. ~Has(stack, Ahead)
        BY <4>1 DEF BegunOK
      <4> QED BY <1>1, <4>2, Zenon DEF Has, Ahead
    <3>3. \A i \in DOMAIN u : u[i] # "blocks"
      BY <1>1, <3>1, <3>2, Zenon DEF Suits
    <3>4. Covered(u, {"blocks"}, Getting(x))
      BY <3>3 DEF Covered
    <3>5. stack[1] \notin Getting(x)
      BY <1>2, GettingMark
    <3> QED BY <1>1, <2>2, <3>4, <3>5, CoveredKept DEF Pending
  <2> QED BY <1>4, <1>5, <2>1, <2>2
<1>6. ASSUME stack' # <<>>, stack'[1] = Ordered, look \in Single
      PROVE  \/ look \in seen /\ Len(stack') > 1 /\ stack'[2] = "error"
             \/ Pending(stack', look) /\ ~Begun(look)
  <2>1. stack[1] = "blocks" /\ Len(u) >= 1 /\ u[1] = Ordered
    BY <1>6, ReplaceFirst
  <2>2. u # <<>>
    BY <2>1
  <2>3. BlocksTurn(u)
    BY <2>1, <2>2
  <2>4. "error" # Ordered
    BY SpecialItems, Zenon
  <2>5. \/ look \in seen /\ Len(u) = 6 /\ u[2] = "error"
        \/ /\ look \notin seen /\ Len(u) = 6 /\ u[2] \notin Special
           /\ u[3] \in Got1 /\ Gets[u[3]] = look
    BY <1>6, <2>1, <2>3, <2>4, Zenon DEF BlocksTurn
  <2>6. CASE look \in seen /\ Len(u) = 6 /\ u[2] = "error"
    <3>1. Len(stack') > 1 /\ stack'[2] = u[2]
      <4>1. /\ Len(stack) \in Nat /\ 2 \in 2..(Len(stack) + 1)
            /\ Len(stack') = Len(u) + Len(stack) - 2 + 1
            /\ \A i \in 1..Len(u) : stack'[i] = u[i]
        BY <1>1 DEF Cut
      <4> QED BY <2>6, <4>1
    <3> QED BY <2>6, <3>1
  <2>7. CASE /\ look \notin seen /\ Len(u) = 6 /\ u[2] \notin Special
             /\ u[3] \in Got1 /\ Gets[u[3]] = look
    <3>1. Pending(stack', look)
      BY <1>1, <2>1, <2>7, TurnPending
    <3>2. ~Begun(look)
      BY <1>4, <1>6, <2>1, <2>7, BlocksPending
    <3> QED BY <3>1, <3>2
  <2> QED BY <2>5, <2>6, <2>7
<1> QED BY <1>3, <1>5, <1>6

LEMMA ExpandEnd ==
  ASSUME Core, EndOK, Expand, NEW u, Expands(u)
  PROVE  EndOK'
<1>1. /\ Running /\ result' = (IF Top = "end_of_file" THEN "some" ELSE result)
      /\ look' = look
  BY DEF Expand, input
<1>2. Top = stack[1] /\ 1 \in DOMAIN stack /\ IsSeq(stack) /\ Placed(stack, look)
      /\ Len(stack) \in Nat
  BY <1>1, TopFacts DEF Core, StackOK
<1>3. Cut(stack', stack, 2, u) /\ Suits(stack[1], look, u)
  BY DEF Expands, Replaces
<1>4. stack[1] # "error"
  BY <1>3, Zenon DEF Suits, Mark
<1>5. CASE Top # "end_of_file"
  BY <1>1, <1>2, <1>4, <1>5, NotEnded DEF EndOK
<1>6. CASE Top = "end_of_file"
  <2>1. Len(stack) = 1
    BY <1>2, <1>6, Zenon DEF Placed, PlacedAt
  <2>2. /\ Len(stack') = Len(u) + Len(stack) - 2 + 1 /\ Len(u) \in Nat
        /\ \A i \in 1..Len(u) : stack'[i] = u[i]
        /\ IsSeq(stack')
    BY <1>3 DEF Cut
  <2>3. Len(stack') = Len(u)
    BY <2>1, <2>2
  <2>4. u = When(look # "eof", <<"error">>)
    BY <1>2, <1>6, Zenon DEF Expands
  <2>5. CASE look = "eof"
    <3>1. u = <<>>
      BY <2>4, <2>5 DEF When
    <3>2. Len(stack') = 0
      BY <2>3, <3>1
    <3>3. stack' = <<>>
      BY <2>2, <3>2, SeqFacts
    <3> QED BY <1>1, <2>5, <3>3 DEF EndOK
  <2>6. CASE look # "eof"
    <3>1. u = <<"error">>
      BY <2>4, <2>6 DEF When
    <3>2. Len(<<"error">>) = 1 /\ <<"error">>[1] = "error"
      BY Tuple1, Zenon
    <3>3. Len(u) = 1 /\ u[1] = "error"
      BY <3>1, <3>2, Zenon
    <3>4. Len(stack') = 1 /\ stack'[1] = "error"
      <4>1. 1 \in 1..Len(u)
        BY <3>3
      <4>2. stack'[1] = u[1]
        BY <2>2, <4>1
      <4> QED BY <2>3, <3>3, <4>2, Zenon
    <3> QED BY <3>4 DEF EndOK
  <2> QED BY <2>5, <2>6
<1> QED BY <1>5, <1>6

LEMMA ExpandAccept ==
  ASSUME Core, AcceptOK, Expand
  PROVE  AcceptOK'
<1>1. PICK u : Expands(u)
  BY Expansion
<1>2. /\ Running /\ look' = look /\ errors' = errors /\ last' = last /\ seen' = seen
      /\ begun' = begun
  BY DEF Expand, input, notes
<1>3. Replaces(stack, look, u, stack')
      /\ (stack[1] = "blocks" => u = <<>> \/ BlocksTurn(u))
      /\ (stack[1] = "state_given" => u = When("state" \notin seen, <<"error">>))
  BY <1>1 DEF Expands
<1>4. EndOK'
  BY <1>1, ExpandEnd DEF AcceptOK
<1>5. StateOK'
  BY <1>2, <1>3, ReplaceState DEF AcceptOK
<1>6. BegunOK'
  BY <1>2, <1>3, ReplaceBegun DEF AcceptOK
<1>7. OnceOK'
  BY <1>2, <1>3, ReplaceOnce DEF AcceptOK
<1> QED BY <1>4, <1>5, <1>6, <1>7 DEF AcceptOK

LEMMA ReportAccept ==
  ASSUME Core, Report
  PROVE  errors' # 0 /\ begun' = <<>>
BY ReportTypes DEF Core, Report

\* Each action keeps AcceptOK.
LEMMA ExpressionAccept ==
  ASSUME Core, AcceptOK, Expression
  PROVE  AcceptOK'
<1>1. /\ Running /\ Top = "parse_expression"
      /\ look' = look /\ last' = last /\ seen' = seen
      /\ result' = result
  BY DEF Expression, input
<1>2. Top = stack[1] /\ IsSeq(stack)
  BY <1>1, TopFacts DEF Core, StackOK
<1>3. result' # "some" /\ last' \in Nat
  BY <1>1, NotEnded DEF AcceptOK, BegunOK
<1>4. CASE /\ Replace(<<"parse_or", "expression-">>) /\ errors' = errors /\ begun' = begun
  <2> DEFINE u == <<"parse_or", "expression-">>
  <2>1. Replaces(stack, look, u, stack')
    BY <1>1, <1>2, <1>4, PushReplaces
  <2>2. stack[1] \notin {"blocks", "state_given"}
    BY <1>1, <1>2
  <2> HIDE DEF u
  <2>3. StateOK'
    BY <1>1, <1>4, <2>1, <2>2, ReplaceState DEF AcceptOK
  <2>4. BegunOK'
    BY <1>1, <1>4, <2>1, ReplaceBegun DEF AcceptOK
  <2>5. OnceOK'
    BY <1>1, <1>4, <2>1, <2>2, ReplaceOnce DEF AcceptOK
  <2>6. EndOK'
    BY <1>3 DEF EndOK
  <2> QED BY <2>3, <2>4, <2>5, <2>6 DEF AcceptOK
<1>5. CASE Report /\ Unwind
  BY <1>3, <1>5, ReportAccept, FailAccept
<1> QED BY <1>4, <1>5 DEF Expression

LEMMA ExpectAccept ==
  ASSUME Core, AcceptOK, Expect
  PROVE  AcceptOK'
<1>1. /\ Running /\ Top \in Expectation
      /\ stack' = Rest /\ errors' = errors /\ last' = last
      /\ seen' = seen /\ begun' = begun /\ result' = result
  BY DEF Expect, notes
<1>2. Top \notin Promise /\ Top \notin Mark
  BY <1>1, ExpectationItems, Zenon DEF Promise
<1>3. \A x \in Single : Top \notin Getting(x)
  BY <1>2, GettingMark
<1> QED BY <1>1, <1>2, <1>3, PopAccept

LEMMA UnexpectedAccept ==
  ASSUME Core, AcceptOK, Unexpected
  PROVE  AcceptOK'
<1>1. Running /\ Top \in Expectation /\ Report /\ last' = last /\ result' = result
  BY DEF Unexpected
<1>2. Top # "error"
  BY <1>1, ExpectationItems, Zenon
<1>3. result' # "some" /\ last' \in Nat
  BY <1>1, <1>2, NotEnded DEF AcceptOK, BegunOK
<1> QED BY <1>1, <1>3, ReportAccept, FailAccept

LEMMA ReturnNoneAccept ==
  ASSUME Core, AcceptOK, ReturnNone
  PROVE  AcceptOK'
<1>1. /\ Running /\ Top = "none"
      /\ errors' = errors /\ last' = last /\ result' = result
      /\ begun' = begun
  BY DEF ReturnNone, notes
<1>2. errors # 0 /\ errors \in Nat
  BY <1>1, NoneErrs DEF Core, TypesOK
<1>3. result' # "some" /\ last' \in Nat /\ begun' = <<>>
  BY <1>1, <1>2, NotEnded DEF AcceptOK, BegunOK
<1> QED BY <1>1, <1>2, <1>3, FailAccept

LEMMA ReportErrorAccept ==
  ASSUME Core, AcceptOK, ReportError
  PROVE  AcceptOK'
<1>1. /\ Running /\ Top = "error" /\ Report
      /\ stack' = Rest /\ last' = last /\ result' = result
  BY DEF ReportError
<1>2. ASSUME result = "some"
      PROVE  stack' = <<>>
  <2>1. stack # <<>> /\ IsSeq(stack) /\ stack' = Tail(stack)
    BY <1>1, TopFacts DEF Core, StackOK, Rest
  <2>2. Len(stack) = 1
    BY <1>2, <2>1, Zenon DEF AcceptOK, EndOK
  <2>3. IsSeq(stack') /\ Len(stack') = 0
    BY <2>1, <2>2, TailFacts
  <2> QED BY <2>3, SeqFacts
<1>3. last' \in Nat
  BY <1>1 DEF AcceptOK, BegunOK
<1> QED BY <1>1, <1>2, <1>3, ReportAccept, FailAccept

LEMMA EnterAccept ==
  ASSUME Core, AcceptOK, Enter
  PROVE  AcceptOK'
<1>1. /\ Running /\ Top \in DOMAIN Enters
      /\ stack' = Rest /\ last' = last /\ seen' = seen
      /\ result' = result
      /\ Report \/ (errors' = errors /\ begun' = begun)
  BY DEF Enter
<1>2. Top \notin Promise
  BY <1>1, MarkItems, Zenon DEF Promise
<1>3. \A x \in Single : Top \notin Getting(x)
  BY <1>1, Zenon DEF Enters, Getting, Gets
<1>4. result' # "some" /\ last' \in Nat
  <2>1. Top # "error"
    BY <1>2, Zenon DEF Promise
  <2> QED BY <1>1, <2>1, NotEnded DEF AcceptOK, BegunOK
<1>5. CASE Report
  BY <1>4, <1>5, ReportAccept, FailAccept
<1>6. CASE errors' = errors /\ begun' = begun
  BY <1>1, <1>2, <1>3, <1>6, PopAccept
<1> QED BY <1>1, <1>5, <1>6

LEMMA LeaveAccept ==
  ASSUME Core, AcceptOK, Leave
  PROVE  AcceptOK'
<1>1. /\ Running /\ Top \in DOMAIN Leaves
      /\ stack' = Rest /\ last' = last /\ seen' = seen
      /\ result' = result /\ errors' = errors /\ begun' = begun
  BY DEF Leave, notes
<1>2. Top \notin Promise
  BY <1>1, MarkItems, Zenon DEF Promise
<1>3. \A x \in Single : Top \notin Getting(x)
  BY <1>1, Zenon DEF Leaves, Getting, Gets
<1> QED BY <1>1, <1>2, <1>3, PopAccept

LEMMA CountParamAccept ==
  ASSUME Core, AcceptOK, CountParam
  PROVE  AcceptOK'
<1>1. /\ Running /\ stack' = Rest /\ last' = last /\ seen' = seen
      /\ result' = result /\ errors' = errors /\ begun' = begun
      /\ Top \in {"no param", "one param"}
  BY Zenon DEF CountParam
<1>2. Top \notin Promise
  BY <1>1, Zenon DEF Promise
<1>3. \A x \in Single : Top \notin Getting(x)
  BY <1>1, Zenon DEF Getting, Gets
<1> QED BY <1>1, <1>2, <1>3, PopAccept

LEMMA GotAccept ==
  ASSUME Core, AcceptOK, Got
  PROVE  AcceptOK'
<1>1. /\ Running /\ stack' = Rest /\ last' = last
      /\ result' = result /\ errors' = errors /\ begun' = begun
  BY Zenon DEF Got
<1>2. "field" \notin Single /\ "field" # "state"
  BY Zenon DEF Single
<1>3. CASE Top \in DOMAIN Gets /\ seen' = seen \cup {Gets[Top]}
  <2>1. Top \notin Promise
    BY <1>3, Zenon DEF Gets, Promise
  <2>2. \A x \in Single : x \in seen \/ Top \in Getting(x) => x \in seen'
    BY <1>3 DEF Getting
  <2> QED BY <1>1, <1>3, <2>1, <2>2, PopAccept
<1>4. CASE Top = "no field" /\ seen' = seen \ {"field"}
  <2>1. Top \notin Promise
    BY <1>4, Zenon DEF Promise
  <2>2. \A x \in Single : Top \notin Getting(x)
    BY <1>4, Zenon DEF Getting, Gets
  <2> QED BY <1>1, <1>2, <1>4, <2>1, <2>2, PopAccept
<1> QED BY <1>3, <1>4, Zenon DEF Got

-----------------------------------------------------------------------------
\* Acceptance: blocks in order; AcceptedWellFormed.

\* One more element.
LEMMA AppendFacts ==
  ASSUME NEW S, NEW s \in Seq(S), NEW x \in S
  PROVE  /\ Append(s, x) \in Seq(S) /\ Len(s) \in Nat
         /\ DOMAIN s = 1..Len(s) /\ DOMAIN Append(s, x) = 1..(Len(s) + 1)
         /\ \A i \in 1..Len(s) : Append(s, x)[i] = s[i]
         /\ Append(s, x)[Len(s) + 1] = x
OBVIOUS

\* A block in its place begins.
LEMMA AppendBegun ==
  ASSUME Core, BegunOK, OnceOK, Running, Top = Ordered, errors = 0, errors' = errors,
         Rank[look] >= last, begun' = Append(begun, look), last' = Rank[look],
         stack' = Rest, seen' = seen, look' = look
  PROVE  BegunOK' /\ OnceOK'
<1>1. /\ Top = stack[1] /\ stack # <<>> /\ 1 \in DOMAIN stack /\ Placed(stack, look)
      /\ DOMAIN stack = 1..Len(stack) /\ Len(stack) \in Nat
  BY TopFacts DEF Core, StackOK
<1>2. look \in BlockKeyword
  BY <1>1, Zenon DEF Placed, PlacedAt
<1>3. Rank[look] \in Nat /\ last \in Nat /\ begun \in Seq(BlockKeyword)
  BY <1>2, RankType DEF BegunOK
<1> DEFINE n == Len(begun)
<1>4. /\ begun' \in Seq(BlockKeyword) /\ n \in Nat /\ DOMAIN begun = 1..n
      /\ DOMAIN begun' = 1..(n + 1) /\ begun'[n + 1] = look
      /\ \A i \in 1..n : begun'[i] = begun[i]
  BY <1>2, <1>3, AppendFacts
<1> HIDE DEF n
<1>5. \A i \in 1..n : Rank[begun[i]] \in Nat /\ Rank[begun[i]] <= last
  BY <1>3, <1>4, RankType DEF BegunOK
<1>6. \A i \in DOMAIN begun' : i \in 1..n \/ i = n + 1
  BY <1>4
<1>7. \A i \in DOMAIN begun' : Rank[begun'[i]] <= last'
  <2> SUFFICES ASSUME NEW i \in DOMAIN begun'
               PROVE  Rank[begun'[i]] <= Rank[look]
    OBVIOUS
  <2>1. CASE i \in 1..n
    <3>1. Rank[begun'[i]] \in Nat /\ Rank[begun'[i]] <= last
      BY <1>4, <1>5, <2>1
    <3> QED BY <1>3, <3>1
  <2>2. CASE i = n + 1
    BY <1>3, <1>4, <2>2
  <2> QED BY <1>6, <2>1, <2>2
<1>8. ASSUME NEW i \in DOMAIN begun', NEW j \in DOMAIN begun', i < j
      PROVE  i \in 1..n /\ (j \in 1..n \/ j = n + 1)
  BY <1>4, <1>8
<1>9. \A i, j \in DOMAIN begun' : i < j => Rank[begun'[i]] <= Rank[begun'[j]]
  <2> SUFFICES ASSUME NEW i \in DOMAIN begun', NEW j \in DOMAIN begun', i < j
               PROVE  Rank[begun'[i]] <= Rank[begun'[j]]
    OBVIOUS
  <2>1. i \in 1..n
    BY <1>8
  <2>2. CASE j \in 1..n
    BY <1>4, <2>1, <2>2 DEF BegunOK
  <2>3. CASE j = n + 1
    <3>1. begun'[j] = look
      BY <1>4, <2>3
    <3>2. Rank[begun'[i]] <= Rank[look]
      BY <1>7
    <3> QED BY <3>1, <3>2
  <2> QED BY <1>8, <2>2, <2>3
<1>10. ~Has(stack', Ahead)
  <2>1. ASSUME Has(stack', Ahead)
        PROVE  FALSE
    <3>1. Has(stack, Ahead)
      BY <2>1, PopHas
    <3>2. PICK i \in DOMAIN stack : stack[i] \in Ahead
      BY <3>1 DEF Has
    <3>3. Ordered \notin Ahead \cup {"any", "skip_newlines"}
      BY SpecialItems, Zenon DEF Ahead
    <3>4. i # 1
      BY <1>1, <3>2, <3>3
    <3>5. 1 \in 1..(i - 1)
      BY <1>1, <3>4
    <3>6. stack[1] \in {"any", "skip_newlines"}
      BY <1>1, <3>2, <3>5, Zenon DEF Placed, PlacedAt, Ahead
    <3> QED BY <1>1, <3>3, <3>6
  <2> QED BY <2>1
<1>11. BegunOK'
  <2>1. last' \in Nat /\ ~(errors' > 0)
    BY <1>3
  <2> QED BY <1>4, <1>7, <1>9, <1>10, <2>1, Zenon DEF BegunOK
<1>12. stack' # <<>> => stack'[1] # Ordered
  BY PopFirst
<1>13. NoDuplicates
  <2>1. stack[1] # "error"
    BY <1>1, SpecialItems, Zenon
  <2> QED BY <2>1, Zenon DEF OnceOK
<1>14. ASSUME NEW x \in Single, Begun(x)
       PROVE  x \in seen \/ Pending(stack', x)
  <2>1. x \in seen \/ Pending(stack, x)
    BY <1>14, Zenon DEF OnceOK
  <2>2. Top \notin Getting(x)
    BY GettingMark
  <2> QED BY <2>1, <2>2, PopPending
<1>15. look \in Single =>
         \/ look \in seen /\ Len(stack) > 1 /\ stack[2] = "error"
         \/ Pending(stack, look) /\ ~Begun(look)
  BY <1>1, Zenon DEF OnceOK
<1>16. ASSUME NEW x \in Single, Begun(x)'
       PROVE  x \in seen \/ Pending(stack', x)
  <2>1. PICK i \in DOMAIN begun' : begun'[i] = x
    BY <1>16 DEF Begun
  <2>2. CASE i \in 1..n
    <3>1. Begun(x)
      BY <1>4, <2>1, <2>2 DEF Begun
    <3> QED BY <1>14, <3>1
  <2>3. CASE i = n + 1
    <3>1. x = look
      BY <1>4, <2>1, <2>3
    <3>2. look \in seen \/ Pending(stack, look)
      BY <1>15, <3>1
    <3>3. Top \notin Getting(look)
      BY <3>1, GettingMark
    <3> QED BY <3>1, <3>2, <3>3, PopPending
  <2> QED BY <1>6, <2>2, <2>3
<1>17. CASE look \in Single /\ Len(stack) > 1 /\ stack[2] = "error"
  <2>1. stack' = Tail(stack) /\ IsSeq(stack)
    BY DEF Rest, Core, StackOK
  <2>2. /\ Len(stack') = Len(stack) - 1
        /\ \A i \in 1..(Len(stack) - 1) : stack'[i] = stack[i + 1]
    BY <1>1, <2>1, TailFacts
  <2>3. stack'[1] = "error" /\ stack' # <<>>
    BY <1>1, <1>17, <2>2
  <2> QED BY <1>11, <1>12, <1>16, <2>3, Zenon DEF OnceOK
<1>18. CASE look \notin Single \/ ~Begun(look)
  <2>1. ASSUME NEW i \in DOMAIN begun', NEW j \in DOMAIN begun',
               i < j, begun'[i] = begun'[j]
        PROVE  begun'[i] \notin Single
    <3>1. i \in 1..n /\ (j \in 1..n \/ j = n + 1)
      BY <1>8, <2>1
    <3>2. CASE j \in 1..n
      BY <1>4, <1>13, <2>1, <3>1, <3>2 DEF NoDuplicates
    <3>3. CASE j = n + 1
      <4>1. begun[i] = look /\ begun'[i] = look /\ i \in DOMAIN begun
        BY <1>4, <2>1, <3>1, <3>3
      <4>2. Begun(look)
        BY <4>1 DEF Begun
      <4> QED BY <1>18, <4>1, <4>2
    <3> QED BY <3>1, <3>2, <3>3
  <2>2. NoDuplicates'
    BY <2>1, Zenon DEF NoDuplicates
  <2> QED BY <1>11, <1>12, <1>16, <2>2, Zenon DEF OnceOK
<1> QED BY <1>15, <1>17, <1>18

LEMMA InOrderAccept ==
  ASSUME Core, AcceptOK, InOrder
  PROVE  AcceptOK'
<1>1. /\ Running /\ Top = Ordered
      /\ stack' = Rest /\ last' = Rank[look] /\ seen' = seen
      /\ result' = result /\ look' = look
      /\ IF Rank[look] < last THEN Report
         ELSE errors' = errors /\ begun' = When(errors = 0, Append(begun, look))
  BY Zenon DEF InOrder, input, Ordered
<1>2. look \in BlockKeyword
  BY <1>1, TopFacts, Zenon DEF Core, StackOK, Placed, PlacedAt
<1>3. Rank[look] \in Nat /\ last \in Nat
  BY <1>2, RankType DEF AcceptOK, BegunOK
<1>4. result' # "some"
  <2>1. Top # "error"
    BY <1>1, SpecialItems, Zenon
  <2> QED BY <1>1, <2>1, NotEnded DEF AcceptOK
<1>5. CASE Report
  BY <1>1, <1>3, <1>4, <1>5, ReportAccept, FailAccept
<1>6. CASE ~(Rank[look] < last) /\ errors # 0
  <2>1. errors' # 0 /\ begun' = <<>>
    BY <1>1, <1>6 DEF When
  <2> QED BY <1>1, <1>3, <1>4, <2>1, FailAccept
<1>7. CASE ~(Rank[look] < last) /\ errors = 0
  <2>1. errors' = errors /\ begun' = Append(begun, look) /\ Rank[look] >= last
    BY <1>1, <1>3, <1>7 DEF When
  <2>2. BegunOK' /\ OnceOK'
    BY <1>1, <1>7, <2>1, AppendBegun DEF AcceptOK
  <2>3. Top \notin Promise
    BY <1>1, SpecialItems, Zenon DEF Promise
  <2>4. Has(stack', Promise) <=> Has(stack, Promise)
    BY <1>1, <2>3, PopHas
  <2>5. StateOK'
    BY <1>1, <2>1, <2>4 DEF AcceptOK, StateOK
  <2>6. EndOK'
    BY <1>4 DEF EndOK
  <2> QED BY <2>2, <2>5, <2>6 DEF AcceptOK
<1> QED BY <1>1, <1>5, <1>6, <1>7

LEMMA InitAccept ==
  ASSUME Init
  PROVE  AcceptOK
<1>1. /\ stack = <<"skip_newlines", "parse_program">> /\ errors = 0 /\ last = 0
      /\ result = "none" /\ begun = <<>>
  BY DEF Init
<1>2. DOMAIN stack = 1..2 /\ stack[1] = "skip_newlines" /\ stack[2] = "parse_program"
  BY <1>1, Tuple2, Zenon
<1>3. EndOK
  BY <1>1 DEF EndOK
<1>4. StateOK
  <2>1. 2 \in DOMAIN stack /\ stack[2] \in Promise
    BY <1>2 DEF Promise
  <2> QED BY <2>1 DEF StateOK, Has
<1>5. DOMAIN begun = {} /\ begun \in Seq(BlockKeyword) /\ last \in Nat
  BY <1>1
<1>6. BegunOK
  BY <1>1, <1>5, Zenon DEF BegunOK
<1>7. OnceOK
  <2>1. stack[1] # Ordered
    BY <1>2, Zenon DEF Ordered
  <2> QED BY <1>5, <2>1, Zenon DEF OnceOK, Begun, NoDuplicates
<1> QED BY <1>3, <1>4, <1>6, <1>7 DEF AcceptOK

LEMMA StepAccept ==
  ASSUME Core, AcceptOK, [Next]_vars
  PROVE  AcceptOK'
<1>1. CASE Next
  BY <1>1, ExpectAccept, UnexpectedAccept, ReturnNoneAccept, ReportErrorAccept,
      ExpandAccept,
    ExpressionAccept, EnterAccept, LeaveAccept, InOrderAccept, GotAccept,
        CountParamAccept
    DEF Next
<1>2. CASE UNCHANGED vars
  BY <1>2, Zenon DEF vars, AcceptOK, EndOK, StateOK, BegunOK, OnceOK, Has, Begun,
      NoDuplicates
<1> QED BY <1>1, <1>2

\* Of whatever length the input: a program that parse_program accepts without
\* error has been read to its end, has a state block, and its blocks come in
\* order, the single ones once.
THEOREM AcceptsWellFormed == Spec => []AcceptedWellFormed
<1>1. Init => Core /\ AcceptOK
  BY InitCore, InitAccept
<1>2. Core /\ AcceptOK /\ [Next]_vars => Core' /\ AcceptOK'
  BY StepCore, StepAccept
<1>3. Core /\ AcceptOK => AcceptedWellFormed
  BY AcceptImplies DEF AcceptOK
<1> QED BY <1>1, <1>2, <1>3, PTL DEF Spec

=============================================================================
