----------------------------- MODULE MCTestRuns -----------------------------
(* A counter: inc adds one, put stores its argument, fetch stores what a    *)
(* capability answers; the field must stay below 2, and inc fails at 2.     *)
EXTENDS TestRuns

MCVal == 0..2
MCHolds == {0, 1}
MCAction == {"inc", "put", "fetch"}
MCWithParam == {"put"}
MCAsking == {"fetch"}

MCEffect ==
  [a \in MCAction |-> [v \in MCVal |-> [x \in MCVal |->
     IF a # "inc" THEN v ELSE IF x < 2 THEN x + 1 ELSE Fails]]]

CallOf(a, v) == [kind |-> "call", action |-> a, value |-> v]
AssertOf(n, v) == [kind |-> "assert", name |-> n, value |-> v]
SetOf(v) == [kind |-> "set", value |-> v]
LetOf(n, v) == [kind |-> "let", name |-> n, value |-> v]
IfOf(v, then, elif, else) ==
  [kind |-> "if", value |-> v, then |-> then, elif |-> elif, else |-> else]
ForOf(n, items, body) == [kind |-> "for", name |-> n, items |-> items, body |-> body]
MatchOf(body) == [kind |-> "match", body |-> body]

InBlocks == {CallOf("inc", 0), AssertOf("x", 1), SetOf(0)}
Body1 == {<<s>> : s \in InBlocks} \cup {<<s, t>> : s, t \in InBlocks}
Single == {<<s>> : s \in InBlocks}

ElseIf == {IfOf(v, then, FALSE, else) :
             v \in {1, 2}, then \in Single, else \in Single \cup {<<>>}}
Ifs == {IfOf(v, then, FALSE, else) :
          v \in {0, 1}, then \in Single, else \in Single \cup {<<>>}}
       \cup {IfOf(0, <<CallOf("inc", 0)>>, TRUE, <<e>>) : e \in ElseIf}
Fors == {ForOf(n, items, body) :
           n \in {"x", "y"}, items \in {<<1>>, <<0, 1>>}, body \in Body1}
Matches == {MatchOf(body) : body \in Body1}

\* Constructs in constructs.
Nested == {IfOf(0, then, FALSE, <<MatchOf(else)>>) : then \in Single, else \in Single}
Deep == {MatchOf(<<s>>) : s \in Ifs}
        \cup {MatchOf(<<ForOf("y", <<0, 1>>, body)>>) : body \in Single}
        \cup {ForOf("y", <<0, 1>>, <<s>>) : s \in Nested}
        \cup {IfOf(1, <<ForOf("y", <<0, 1>>, body)>>, FALSE, <<>>) : body \in Body1}

Simple == {CallOf("inc", 0), CallOf("put", 1), CallOf("fetch", 0),
           AssertOf("x", 0), AssertOf("x", 1), SetOf(2), LetOf("x", 1)}

MCStatements ==
  Simple \cup InBlocks \cup Ifs \cup ElseIf \cup Fors \cup Matches \cup Nested \cup Deep
  \cup {LetOf("y", 1), AssertOf("y", 1)}

MCTests ==
  {<<>>} \cup {<<LetOf("y", 1), s, AssertOf("y", 1)>> : s \in Fors}
  \cup {<<s, t, u>> : s \in Simple, u \in Simple,
                      t \in Simple \cup Ifs \cup Fors \cup Matches \cup Deep}

MCResponses ==
  LET mock(v) == [function |-> "fetch", response |-> v]
  IN  {<<>>, <<mock(1)>>, <<mock(0), mock(1)>>}
=============================================================================
