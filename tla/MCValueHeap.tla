---------------------------- MODULE MCValueHeap ----------------------------
(* A state of two fields, r = {a?: number, b?: {a?: number}} and v = any, and *)
(* calls on it: a local, one statement with a literal, a path or a loop, and  *)
(* a second call, which aliases or copies what the first one left.            *)
(* Or the host asks for memory, between two calls or behind them.             *)
EXTENDS ValueHeap

MCKeys == <<"a", "b", "r", "v">>
MCFields == <<"r", "v">>
\* What the host asks for: the last reach beyond the 32-bit word.
MCHostSizes == {0, 1, 15, 40, 911, 912, 950, 1000, 1023}
MCSize == 0 .. 24 \cup MCHostSizes

Num(n) == <<"number", n>>
Nil == <<"nil">>
Name(x) == <<"name", x>>
Rec(entries) == <<"record", entries>>

Inner(n) == Rec(<<<<"field", "a", Num(n)>>>>)
Full == Rec(<<<<"field", "a", Num(1)>>, <<"field", "b", Inner(2)>>>>)

MCDefaults == {<<Full, Nil>>, <<Rec(<<>>), Full>>}

\* The record literals of up to three entries.
MCEntries == {<<"field", "a", Num(3)>>, <<"field", "a", Nil>>, <<"field", "b", Inner(4)>>,
              <<"spread", Name("r")>>, <<"spread", Name("x")>>}
MCLiterals == {Rec(es) : es \in UNION {[1 .. n -> MCEntries] : n \in 0 .. 3}}

MCSets ==
  {<<"set", path, e>> :
     path \in {<<"r", "b">>}, e \in {Name("x"), Nil, <<"access", Name("r"), "b">>}}
  \cup {<<"set", path, Num(5)>> : path \in {<<"r", "a">>, <<"r", "b", "a">>}}
  \cup {<<"for", "item", <<"list", <<Name("x"), Inner(6), Nil>>>>,
          <<<<"set", <<"r", "b">>, Name("item")>>>>>>,
        <<"for", "item", <<"list", <<>>>>, <<<<"set", <<"v">>, Name("item")>>>>>>,
        <<"set", <<"v">>, <<"list", <<Name("r"), Name("r")>>>>>>}

MCLets == {<<"let", "x", e>> : e \in {Nil, Inner(7)}}

MCAlias == <<<<"set", <<"v">>, Name("r")>>, <<"set", <<"r", "a">>, Num(8)>>>>
MCInside == <<<<"let", "x", <<"access", Name("r"), "b">>>>, <<"set", <<"r", "b", "a">>, Num(9)>>>>
MCCopy == <<<<"let", "x", Inner(9)>>,
  <<"set", <<"r">>, Rec(<<<<"spread", Name("r")>>,
                          <<"field", "b", Rec(<<<<"spread", Name("x")>>>>)>>>>)>>>>

MCBodies ==
  {<<<<l, <<"set", <<"r">>, literal>>>>, MCCopy>> : l \in MCLets, literal \in MCLiterals}
  \cup {<<<<l, s>>, second>> :
          l \in MCLets, s \in MCSets, second \in {MCAlias, MCInside, MCCopy}}

Dispatches(bodies) == [k \in DOMAIN bodies |-> <<"dispatch", bodies[k]>>]
MCRequest == <<"alloc", MCHostSizes>>

MCCalls ==
  {Dispatches(bodies) : bodies \in MCBodies}
  \cup {<<<<"dispatch", MCAlias>>, <<"alloc", {2, 40}>>, <<"dispatch", MCCopy>>>>,
        <<MCRequest, MCRequest, MCRequest, MCRequest>>,
        <<<<"dispatch", MCAlias>>, MCRequest, MCRequest, MCRequest>>}

MCPrograms == [defaults : MCDefaults, calls : MCCalls]
=============================================================================
