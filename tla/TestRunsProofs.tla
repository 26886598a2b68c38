--------------------------- MODULE TestRunsProofs ---------------------------
(***************************************************************************)
(* Every test, whatever constructs it nests and however deep: it passes in *)
(* the evaluator only if each call it came to committed, no run of it      *)
(* leaves a scope open, and the two runs of it give one verdict.           *)
(*                                                                         *)
(* Both runs splice the statements of a construct before the rest, markers *)
(* of its scopes among them.  A construct closes what it opens (Neutral),  *)
(* with the scopes of the loops unrolled by FlattenSeq: from that the      *)
(* first two follow.  For the verdicts, Abreast relates what the two have  *)
(* left to do and the scopes they do it in; a construct unrolled on both   *)
(* sides keeps it, though they open scopes at different places.            *)
(***************************************************************************)
EXTENDS TestRuns, SequenceTheorems, FiniteSetTheorems, TLAPS

\* A set of numbers that holds 1 and with each the next holds all, up to n.
LEMMA Upwards ==
  ASSUME NEW n \in Nat, NEW S, 1 \in S,
         \A m \in 1..n : m \in S /\ m < n => m + 1 \in S
  PROVE  1..n \subseteq S
<1> DEFINE U == 1..n
           Missing(k) == {j \in U \ S : j <= k}
           T == {W \in SUBSET U : \E k \in U \ S : W = Missing(k)}
<1> SUFFICES ASSUME U \ S # {} PROVE FALSE
  OBVIOUS
<1>1. IsFiniteSet(U)
  BY FS_Interval
<1>2. IsWellFoundedOn(StrictSubsetOrdering(U), SUBSET U)
  <2> HIDE DEF U
  <2> QED BY <1>1, FS_StrictSubsetOrderingWellFounded, FS_FiniteSubsetsOfFinite
<1>3. \A k \in U \ S : Missing(k) \in T
  OBVIOUS
<1>4. T \subseteq SUBSET U /\ T # {}
  BY <1>3
<1>5. PICK W \in T : \A V \in T : <<V, W>> \notin StrictSubsetOrdering(U)
  <2> HIDE DEF U, T
  <2> QED BY <1>2, <1>4, WFMin
<1>6. PICK m \in U \ S : W = Missing(m)
  OBVIOUS
<1>7. m \in Nat /\ m > 1 /\ m - 1 \in U /\ m - 1 < m /\ m <= n
  OBVIOUS
<1>8. m - 1 \notin S
  BY <1>7
<1>9. Missing(m - 1) \in T /\ Missing(m - 1) \subseteq W /\ Missing(m - 1) # W
  <2>1. m \in W /\ m \notin Missing(m - 1)
    BY <1>6, <1>7
  <2>2. \A j \in U \ S : j <= m - 1 => j <= m
    BY <1>7
  <2> QED BY <1>3, <1>6, <1>7, <1>8, <2>1, <2>2
<1>10. <<Missing(m - 1), W>> \in StrictSubsetOrdering(U)
  <2>1. Missing(m - 1) \in SUBSET U /\ W \in SUBSET U
    BY <1>9
  <2> HIDE DEF U, Missing
  <2> QED BY <1>9, <2>1 DEF StrictSubsetOrdering
<1> QED
  BY <1>5, <1>9, <1>10

\* FlattenSeq is defined: the sequence of concatenations it takes the last of.
Joined(seqs, n, f) ==
  f = [i \in 1..n |-> IF i = 1 THEN seqs[i] ELSE f[i - 1] \o seqs[i]]

LEMMA JoinedExists ==
  ASSUME NEW seqs, NEW n \in Nat
  PROVE  n >= 1 => \E f : Joined(seqs, n, f)
<1> DEFINE S == {m \in 1..n : \E f : Joined(seqs, m, f)}
<1> SUFFICES ASSUME n >= 1 PROVE \E f : Joined(seqs, n, f)
  OBVIOUS
<1>1. 1 \in S
  <2> DEFINE g == [i \in 1..1 |-> seqs[i]]
  <2>1. Joined(seqs, 1, g)
    BY DEF Joined
  <2> QED BY <2>1
<1>2. ASSUME NEW m \in 1..n, m \in S, m < n PROVE m + 1 \in S
  <2>1. PICK f : Joined(seqs, m, f)
    BY <1>2
  <2> DEFINE g == [i \in 1..(m + 1) |-> IF i = m + 1 THEN f[m] \o seqs[i] ELSE f[i]]
  <2>2. \A i \in 1..(m + 1) :
          g[i] = IF i = 1 THEN seqs[i] ELSE g[i - 1] \o seqs[i]
    <3> TAKE i \in 1..(m + 1)
    <3>1. CASE i = m + 1
      <4>1. m \in Nat /\ m >= 1 /\ i # 1 /\ i - 1 = m /\ m \in 1..(m + 1) /\ m # m + 1
        BY <3>1
      <4>2. g[i] = f[m] \o seqs[i] /\ g[m] = f[m]
        BY <3>1, <4>1
      <4> HIDE DEF g
      <4> QED BY <4>1, <4>2
    <3>2. CASE i # m + 1
      <4>1. i \in 1..m /\ (i # 1 => i - 1 \in 1..m)
        BY <3>2
      <4>2. f[i] = IF i = 1 THEN seqs[i] ELSE f[i - 1] \o seqs[i]
        BY <2>1, <4>1, Zenon DEF Joined
      <4>3. g[i] = f[i] /\ (i # 1 => g[i - 1] = f[i - 1])
        BY <3>2, <4>1
      <4> HIDE DEF g
      <4> QED BY <4>2, <4>3
    <3> QED BY <3>1, <3>2
  <2>3. Joined(seqs, m + 1, g)
    <3>1. g = [i \in 1..(m + 1) |-> g[i]]
      OBVIOUS
    <3> HIDE DEF g
    <3> QED BY <2>2, <3>1 DEF Joined
  <2>4. m + 1 \in 1..n
    BY <1>2
  <2> QED BY <2>3, <2>4
<1> HIDE DEF S
<1>3. 1..n \subseteq S
  BY <1>1, <1>2, Upwards
<1> QED BY <1>3 DEF S

LEMMA FlattenIsJoined ==
  ASSUME NEW X, NEW seqs \in Seq(X), seqs # <<>>
  PROVE  \E f : Joined(seqs, Len(seqs), f) /\ FlattenSeq(seqs) = f[Len(seqs)]
<1> DEFINE n == Len(seqs)
<1>1. n \in Nat /\ n >= 1 /\ n # 0
  BY EmptySeq
<1>2. \E f : Joined(seqs, n, f)
  BY <1>1, JoinedExists
<1>3. FlattenSeq(seqs) = (CHOOSE f : Joined(seqs, n, f))[n]
  BY <1>1 DEF FlattenSeq, Joined
<1> QED BY <1>2, <1>3

-----------------------------------------------------------------------------
(* Scopes that are opened and closed                                        *)

Modes == {"test", "block", "plain"}

Items ==
  [stmt : Statements, mode : Modes]
  \cup [stmt : [kind : {"push", "pop"}], mode : {"marker"}]
  \cup [stmt : [kind : {"item"}, name : Name, value : Val], mode : {"marker"}]

Shift(item) ==
  IF item.stmt.kind = "push" THEN 1 ELSE IF item.stmt.kind = "pop" THEN -1 ELSE 0

\* d is the number of open scopes before each item, and after the last.
Depths(s, a, b, d) ==
  /\ d \in [1..(Len(s) + 1) -> Nat \ {0}]
  /\ d[1] = a /\ d[Len(s) + 1] = b
  /\ \A i \in 1..Len(s) : d[i + 1] = d[i] + Shift(s[i])

\* The items lead from a open scopes to b, and never to none.
Balanced(s, a, b) == \E d : Depths(s, a, b, d)

Neutral(s) == s \in Seq(Items) /\ \A a \in Nat \ {0} : Balanced(s, a, a)

LEMMA ShiftType == \A x : Shift(x) \in {-1, 0, 1}
BY DEF Shift

LEMMA BalancedEmpty ==
  ASSUME NEW a, NEW b
  PROVE  Balanced(<<>>, a, b) => a = b
BY DEF Balanced, Depths

LEMMA BalancedFlat ==
  ASSUME NEW X, NEW s \in Seq(X), NEW a \in Nat \ {0},
         \A i \in 1..Len(s) : Shift(s[i]) = 0
  PROVE  Balanced(s, a, a)
<1> DEFINE d == [i \in 1..(Len(s) + 1) |-> a]
<1>1. Len(s) \in Nat
  BY LenProperties
<1>2. Depths(s, a, a, d)
  BY <1>1 DEF Depths
<1> QED BY <1>2 DEF Balanced

LEMMA BalancedConcat ==
  ASSUME NEW X, NEW s \in Seq(X), NEW t \in Seq(X), NEW a, NEW b, NEW c,
         Balanced(s, a, b), Balanced(t, b, c)
  PROVE  Balanced(s \o t, a, c)
<1>1. PICK d : Depths(s, a, b, d)
  BY DEF Balanced
<1>2. PICK e : Depths(t, b, c, e)
  BY DEF Balanced
<1> DEFINE m == Len(s)
           n == Len(t)
           g == [i \in 1..(m + n + 1) |-> IF i <= m THEN d[i] ELSE e[i - m]]
<1>3. m \in Nat /\ n \in Nat /\ Len(s \o t) = m + n
  BY LenProperties, ConcatProperties
<1>4. \A i \in 1..(m + 1) : g[i] = d[i]
  <2> TAKE i \in 1..(m + 1)
  <2>1. CASE i <= m
    BY <1>3, <2>1
  <2>2. CASE ~(i <= m)
    <3>1. i = m + 1 /\ i - m = 1 /\ i \in 1..(m + n + 1)
      BY <1>3, <2>2
    <3>2. g[i] = e[1]
      BY <2>2, <3>1
    <3>3. d[m + 1] = b /\ e[1] = b
      BY <1>1, <1>2, Zenon DEF Depths
    <3> QED BY <3>1, <3>2, <3>3
  <2> QED BY <2>1, <2>2
<1>5. \A i \in 1..(n + 1) : m + i \in 1..(m + n + 1) /\ g[m + i] = e[i]
  BY <1>3
<1>6. g \in [1..(m + n + 1) -> Nat \ {0}]
  <2> SUFFICES ASSUME NEW i \in 1..(m + n + 1) PROVE g[i] \in Nat \ {0}
    OBVIOUS
  <2>1. CASE i <= m
    <3>1. i \in 1..(m + 1)
      BY <1>3, <2>1
    <3>2. d[i] \in Nat \ {0}
      BY <1>1, <3>1 DEF Depths
    <3> HIDE DEF g
    <3> QED BY <1>4, <3>1, <3>2
  <2>2. CASE ~(i <= m)
    <3>1. i - m \in 1..(n + 1) /\ m + (i - m) = i
      BY <1>3, <2>2
    <3>2. e[i - m] \in Nat \ {0}
      BY <1>2, <3>1 DEF Depths
    <3>3. g[m + (i - m)] = e[i - m]
      BY <1>5, <3>1
    <3> HIDE DEF g
    <3> QED BY <3>1, <3>2, <3>3
  <2> QED BY <2>1, <2>2
<1>7. \A i \in 1..(m + n) : g[i + 1] = g[i] + Shift((s \o t)[i])
  <2> TAKE i \in 1..(m + n)
  <2>1. CASE i <= m
    <3>1. i \in 1..m /\ i \in 1..(m + 1) /\ i + 1 \in 1..(m + 1)
      BY <1>3, <2>1
    <3>2. (s \o t)[i] = s[i]
      BY <3>1, ConcatProperties
    <3>3. d[i + 1] = d[i] + Shift(s[i])
      BY <1>1, <3>1, Zenon DEF Depths
    <3> HIDE DEF g
    <3> QED BY <1>4, <3>1, <3>2, <3>3
  <2>2. CASE ~(i <= m)
    <3> DEFINE j == i - m
    <3>1. j \in 1..n /\ j \in 1..(n + 1) /\ j + 1 \in 1..(n + 1)
      BY <1>3, <2>2
    <3>2. m + j = i /\ m + (j + 1) = i + 1 /\ i \in (m + 1)..(m + n)
      BY <1>3, <2>2
    <3>3. (s \o t)[i] = t[j]
      BY <2>2, <3>2, ConcatProperties
    <3>4. e[j + 1] = e[j] + Shift(t[j])
      BY <1>2, <3>1, Zenon DEF Depths
    <3>5. g[m + j] = e[j] /\ g[m + (j + 1)] = e[j + 1]
      BY <1>5, <3>1
    <3> HIDE DEF g, j
    <3> QED BY <3>2, <3>3, <3>4, <3>5
  <2> QED BY <2>1, <2>2
<1>8. g[1] = a /\ g[m + n + 1] = c
  <2>1. d[1] = a /\ e[n + 1] = c
    BY <1>1, <1>2, Zenon DEF Depths
  <2>2. 1 \in 1..(m + 1) /\ n + 1 \in 1..(n + 1) /\ m + (n + 1) = m + n + 1
    BY <1>3
  <2> HIDE DEF g
  <2> QED BY <1>4, <1>5, <2>1, <2>2
<1>9. Depths(s \o t, a, c, g)
  <2> HIDE DEF g
  <2> QED BY <1>3, <1>6, <1>7, <1>8 DEF Depths
<1> QED BY <1>9 DEF Balanced

LEMMA BalancedTail ==
  ASSUME NEW X, NEW s \in Seq(X), s # <<>>, NEW a, NEW b, Balanced(s, a, b)
  PROVE  /\ a + Shift(s[1]) \in Nat \ {0}
         /\ Balanced(Tail(s), a + Shift(s[1]), b)
<1>1. PICK d : Depths(s, a, b, d)
  BY DEF Balanced
<1> DEFINE n == Len(s)
           e == [i \in 1..n |-> d[i + 1]]
<1>2. n \in Nat /\ n >= 1 /\ Len(Tail(s)) = n - 1 /\ Tail(s) \in Seq(X)
  BY EmptySeq, LenProperties, HeadTailProperties
<1>3. \A i \in 1..(n - 1) : Tail(s)[i] = s[i + 1]
  BY HeadTailProperties
<1>4. /\ d[2] = a + Shift(s[1])
      /\ d[n + 1] = b
      /\ \A i \in 1..n : d[i + 1] \in Nat \ {0} /\ d[i + 1] = d[i] + Shift(s[i])
  <2>1. d[1] = a /\ d[n + 1] = b /\ d \in [1..(n + 1) -> Nat \ {0}]
        /\ \A i \in 1..n : d[i + 1] = d[i] + Shift(s[i])
    BY <1>1, Zenon DEF Depths
  <2>2. 1 \in 1..n /\ 1 + 1 = 2 /\ \A i \in 1..n : i + 1 \in 1..(n + 1)
    BY <1>2
  <2> QED BY <2>1, <2>2
<1>5. e \in [1..(Len(Tail(s)) + 1) -> Nat \ {0}]
  BY <1>2, <1>4
<1>6. e[1] = a + Shift(s[1]) /\ e[Len(Tail(s)) + 1] = b
  BY <1>2, <1>4
<1>7. \A i \in 1..Len(Tail(s)) : e[i + 1] = e[i] + Shift(Tail(s)[i])
  <2> TAKE i \in 1..Len(Tail(s))
  <2>1. i \in 1..n /\ i + 1 \in 1..n /\ i \in 1..(n - 1)
    BY <1>2
  <2>2. e[i] = d[i + 1] /\ e[i + 1] = d[(i + 1) + 1]
    BY <2>1
  <2> HIDE DEF e
  <2> QED BY <1>3, <1>4, <2>1, <2>2
<1>8. Depths(Tail(s), a + Shift(s[1]), b, e)
  <2> HIDE DEF e
  <2> QED BY <1>5, <1>6, <1>7 DEF Depths
<1>9. a + Shift(s[1]) \in Nat \ {0}
  <2>1. 1 \in 1..n
    BY <1>2
  <2> QED BY <1>4, <2>1
<1> QED BY <1>8, <1>9 DEF Balanced

-----------------------------------------------------------------------------
(* What a construct puts before the rest                                    *)

LEMMA NeutralConcat ==
  ASSUME NEW s, NEW t, Neutral(s), Neutral(t)
  PROVE  Neutral(s \o t)
<1>1. s \o t \in Seq(Items)
  BY ConcatProperties DEF Neutral
<1>2. ASSUME NEW a \in Nat \ {0} PROVE Balanced(s \o t, a, a)
  BY BalancedConcat DEF Neutral
<1> QED BY <1>1, <1>2 DEF Neutral

LEMMA NeutralEmpty == Neutral(<<>>)
<1>1. <<>> \in Seq(Items) /\ 1..Len(<<>>) = {}
  OBVIOUS
<1>2. \A a \in Nat \ {0} : Balanced(<<>>, a, a)
  BY <1>1, BalancedFlat
<1> QED BY <1>1, <1>2 DEF Neutral

\* Of the concatenation of sequences that change nothing.
LEMMA NeutralFlatten ==
  ASSUME NEW seqs \in Seq(Seq(Items)), \A i \in 1..Len(seqs) : Neutral(seqs[i])
  PROVE  Neutral(FlattenSeq(seqs))
<1>1. CASE seqs = <<>>
  <2>1. FlattenSeq(seqs) = <<>>
    BY <1>1 DEF FlattenSeq
  <2> QED BY <2>1, NeutralEmpty
<1>2. CASE seqs # <<>>
  <2> DEFINE n == Len(seqs)
  <2>1. PICK f : Joined(seqs, n, f) /\ FlattenSeq(seqs) = f[n]
    BY <1>2, FlattenIsJoined
  <2>2. n \in Nat /\ n >= 1
    BY <1>2, EmptySeq, LenProperties
  <2> DEFINE S == {i \in 1..n : Neutral(f[i])}
  <2>3. \A i \in 1..n : f[i] = IF i = 1 THEN seqs[i] ELSE f[i - 1] \o seqs[i]
    BY <2>1, Zenon DEF Joined
  <2>4. 1 \in S
    BY <2>2, <2>3
  <2>5. ASSUME NEW m \in 1..n, m \in S, m < n PROVE m + 1 \in S
    <3>1. m + 1 \in 1..n /\ m + 1 # 1 /\ (m + 1) - 1 = m
      BY <2>2, <2>5
    <3>2. f[m + 1] = f[m] \o seqs[m + 1]
      BY <2>3, <3>1
    <3>3. Neutral(f[m]) /\ Neutral(seqs[m + 1])
      BY <2>5, <3>1
    <3> QED BY <3>1, <3>2, <3>3, NeutralConcat
  <2> HIDE DEF S
  <2>6. 1..n \subseteq S
    BY <2>2, <2>4, <2>5, Upwards
  <2>7. n \in S
    BY <2>2, <2>6
  <2> QED BY <2>1, <2>7 DEF S
<1> QED BY <1>1, <1>2

LEMMA StatementFacts ==
  ASSUME NEW s \in Statements
  PROVE  /\ s.kind \notin {"push", "pop", "item"}
         /\ s.kind = "let" => s.name \in Name /\ s.value \in Val
         /\ s.kind = "set" => s.value \in Val
         /\ s.kind = "if" => /\ s.then \in Seq(Statements)
                             /\ s.else \in Seq(Statements)
                             /\ s.elif => s.else # <<>> /\ s.else[1].kind = "if"
         /\ s.kind = "for" => /\ s.name \in Name /\ s.items \in Seq(Val)
                              /\ s.body \in Seq(Statements)
         /\ s.kind = "match" => s.body \in Seq(Statements)
BY StatementsAssumption

LEMMA NeutralIn ==
  ASSUME NEW mode \in Modes, NEW body \in Seq(Statements)
  PROVE  Neutral(In(mode, body))
<1> DEFINE n == Len(body)
<1>1. n \in Nat /\ DOMAIN body = 1..n /\ \A i \in 1..n : body[i] \in Statements
  BY LenProperties, ElementOfSeq
<1> HIDE DEF n
<1> DEFINE x(i) == [stmt |-> body[i], mode |-> mode]
           g == [i \in 1..n |-> x(i)]
<1>2. \A i \in 1..n : x(i) \in Items /\ Shift(x(i)) = 0
  BY <1>1, StatementFacts DEF Items, Shift
<1> HIDE DEF x
<1>3. g \in Seq(Items) /\ Len(g) = n /\ \A i \in 1..n : Shift(g[i]) = 0
  BY <1>1, <1>2
<1>4. In(mode, body) = g
  BY <1>1, Zenon DEF In, x
<1> HIDE DEF g
<1> QED BY <1>3, <1>4, BalancedFlat DEF Neutral

LEMMA NeutralItem ==
  ASSUME NEW s, s.name \in Name, NEW i, s.items[i] \in Val
  PROVE  Neutral(ItemOf(s, i))
<1> DEFINE x == [stmt |-> [kind |-> "item", name |-> s.name, value |-> s.items[i]],
                 mode |-> "marker"]
<1>1. x \in Items /\ Shift(x) = 0
  BY DEF Items, Shift
<1>2. ItemOf(s, i) = <<x>>
  BY DEF ItemOf
<1> HIDE DEF x
<1>3. <<x>> \in Seq(Items) /\ \A j \in 1..Len(<<x>>) : Shift(<<x>>[j]) = 0
  BY <1>1
<1>4. \A a \in Nat \ {0} : Balanced(<<x>>, a, a)
  BY <1>3, BalancedFlat
<1> QED BY <1>2, <1>3, <1>4 DEF Neutral

Opening(s) == s \in Seq(Items) /\ \A a \in Nat \ {0} : Balanced(s, a, a + 1)

LEMMA Markers ==
  /\ Opening(Marker("push"))
  /\ Marker("pop") \in Seq(Items)
  /\ \A a \in Nat \ {0} : Balanced(Marker("pop"), a + 1, a)
<1> DEFINE x(k) == [stmt |-> [kind |-> k], mode |-> "marker"]
<1>1. /\ x("push") \in Items /\ x("pop") \in Items
      /\ Shift(x("push")) = 1 /\ Shift(x("pop")) = -1
  BY DEF Items, Shift
<1>2. Marker("push") = <<x("push")>> /\ Marker("pop") = <<x("pop")>>
  BY DEF Marker
<1> HIDE DEF x
<1>3. ASSUME NEW y \in Items, NEW a \in Nat \ {0}, NEW b \in Nat \ {0}, b = a + Shift(y)
      PROVE  Balanced(<<y>>, a, b)
  <2> DEFINE d == <<a, b>>
  <2>1. Depths(<<y>>, a, b, d)
    BY <1>3 DEF Depths
  <2> QED BY <2>1 DEF Balanced
<1>4. <<x("push")>> \in Seq(Items) /\ <<x("pop")>> \in Seq(Items)
  BY <1>1
<1>5. ASSUME NEW a \in Nat \ {0}
      PROVE  Balanced(<<x("push")>>, a, a + 1) /\ Balanced(<<x("pop")>>, a + 1, a)
  <2>1. a + 1 \in Nat \ {0} /\ a = (a + 1) + (-1)
    OBVIOUS
  <2> QED BY <1>1, <1>3, <2>1
<1> QED BY <1>2, <1>4, <1>5 DEF Opening

LEMMA OpeningConcat ==
  ASSUME NEW s, NEW t, Opening(s), Neutral(t)
  PROVE  Opening(s \o t)
<1>1. s \o t \in Seq(Items)
  BY ConcatProperties DEF Opening, Neutral
<1>2. ASSUME NEW a \in Nat \ {0} PROVE Balanced(s \o t, a, a + 1)
  <2>1. a + 1 \in Nat \ {0}
    OBVIOUS
  <2> QED BY <2>1, BalancedConcat DEF Opening, Neutral
<1> QED BY <1>1, <1>2 DEF Opening

LEMMA OpeningClosed ==
  ASSUME NEW s, Opening(s)
  PROVE  Neutral(s \o Marker("pop"))
<1> DEFINE p == Marker("pop")
<1>1. p \in Seq(Items) /\ \A a \in Nat \ {0} : Balanced(p, a + 1, a)
  BY Markers
<1> HIDE DEF p
<1>2. s \o p \in Seq(Items)
  BY <1>1, ConcatProperties DEF Opening
<1>3. ASSUME NEW a \in Nat \ {0} PROVE Balanced(s \o p, a, a)
  BY <1>1, BalancedConcat DEF Opening
<1> QED BY <1>2, <1>3 DEF Neutral, p

LEMMA NeutralFor ==
  ASSUME NEW s \in Statements, s.kind = "for", NEW mode \in Modes
  PROVE  Neutral(OneScope(s, mode)) /\ Neutral(ScopePerItem(s, mode))
<1> DEFINE push == Marker("push")
           pop == Marker("pop")
           turn(i) == ItemOf(s, i) \o In(mode, s.body)
           scoped(i) == push \o ItemOf(s, i) \o In(mode, s.body) \o pop
           n == Len(s.items)
<1>1. /\ s.name \in Name /\ s.items \in Seq(Val) /\ s.body \in Seq(Statements)
      /\ n \in Nat /\ DOMAIN s.items = 1..n
  BY StatementFacts, LenProperties
<1>2. \A i \in 1..n : Neutral(ItemOf(s, i))
  BY <1>1, NeutralItem
<1>3. Neutral(In(mode, s.body))
  BY <1>1, NeutralIn
<1>4. \A i \in 1..n : Neutral(turn(i))
  BY <1>2, <1>3, NeutralConcat
<1>5. \A i \in 1..n : Neutral(scoped(i))
  <2> TAKE i \in 1..n
  <2>1. Opening(push \o ItemOf(s, i))
    BY <1>2, Markers, OpeningConcat
  <2>2. Opening(push \o ItemOf(s, i) \o In(mode, s.body))
    BY <1>3, <2>1, OpeningConcat
  <2> QED BY <2>2, OpeningClosed
<1> HIDE DEF turn, scoped, n
<1>6. ASSUME NEW g, g = [i \in 1..n |-> g[i]], \A i \in 1..n : Neutral(g[i])
      PROVE  Neutral(FlattenSeq(g))
  <2>1. \A i \in 1..n : g[i] \in Seq(Items)
    BY <1>6 DEF Neutral
  <2>2. g \in Seq(Seq(Items)) /\ Len(g) = n
    BY <1>1, <1>6, <2>1
  <2> QED BY <1>6, <2>2, NeutralFlatten
<1>7. Neutral(FlattenSeq([i \in 1..n |-> turn(i)]))
  <2> DEFINE g == [i \in 1..n |-> turn(i)]
  <2>1. g = [i \in 1..n |-> g[i]] /\ \A i \in 1..n : Neutral(g[i])
    BY <1>4
  <2> HIDE DEF g
  <2>2. Neutral(FlattenSeq(g))
    BY <1>6, <2>1
  <2> QED BY <2>2 DEF g
<1>8. Neutral(FlattenSeq([i \in 1..n |-> scoped(i)]))
  <2> DEFINE g == [i \in 1..n |-> scoped(i)]
  <2>1. g = [i \in 1..n |-> g[i]] /\ \A i \in 1..n : Neutral(g[i])
    BY <1>5
  <2> HIDE DEF g
  <2>2. Neutral(FlattenSeq(g))
    BY <1>6, <2>1
  <2> QED BY <2>2 DEF g
<1>9. OneScope(s, mode) = push \o FlattenSeq([i \in 1..n |-> turn(i)]) \o pop
  BY <1>1, Zenon DEF OneScope, turn
<1>10. ScopePerItem(s, mode) = FlattenSeq([i \in 1..n |-> scoped(i)])
  BY <1>1, Zenon DEF ScopePerItem, scoped
<1>11. Neutral(push \o FlattenSeq([i \in 1..n |-> turn(i)]) \o pop)
  BY <1>7, Markers, OpeningConcat, OpeningClosed, Zenon
<1> QED BY <1>8, <1>9, <1>10, <1>11, Zenon

-----------------------------------------------------------------------------
(* One step of either run                                                   *)

\* What is left to execute of s closes all but one of the scopes of e.
Balance(s, e) ==
  s \in Seq(Items) /\ e \in Seq(Scope) /\ Balanced(s, Len(e), 1)

Put(e, k, n, v) == [e EXCEPT ![k][n] = v]

LEMMA PutFacts ==
  ASSUME NEW e \in Seq(Scope), NEW n \in Name, NEW v \in Val, NEW k
  PROVE  Put(e, k, n, v) \in Seq(Scope) /\ Len(Put(e, k, n, v)) = Len(e)
<1> DEFINE g == Put(e, k, n, v)
<1>1. v \in Slot
  BY DEF Slot
<1>2. Len(e) \in Nat /\ DOMAIN e = 1..Len(e) /\ \A i \in 1..Len(e) : e[i] \in Scope
  BY LenProperties, ElementOfSeq
<1>3. \A i \in 1..Len(e) : [e[i] EXCEPT ![n] = v] \in Scope
  BY <1>1, <1>2 DEF Scope
<1>4. DOMAIN g = 1..Len(e) /\ g = [i \in 1..Len(e) |-> g[i]]
  BY <1>2 DEF Put
<1>5. \A i \in 1..Len(e) : g[i] = e[i] \/ g[i] = [e[i] EXCEPT ![n] = v]
  BY <1>2 DEF Put
<1> HIDE DEF g
<1>6. \A i \in 1..Len(e) : g[i] \in Scope
  BY <1>2, <1>3, <1>5
<1>7. g \in Seq(Scope) /\ Len(g) = Len(e)
  BY <1>2, <1>4, <1>6
<1> QED BY <1>7 DEF g

LEMMA ScopeFacts ==
  /\ EmptyScope \in Scope
  /\ \A e \in Seq(Scope), n \in Name, v \in Val :
       /\ Define(e, n, v) \in Seq(Scope) /\ Len(Define(e, n, v)) = Len(e)
       /\ Assign(e, n, v) \in Seq(Scope) /\ Len(Assign(e, n, v)) = Len(e)
<1>1. EmptyScope \in Scope
  BY DEF EmptyScope, Scope, Slot
<1>2. ASSUME NEW e \in Seq(Scope), NEW n \in Name, NEW v \in Val
      PROVE  /\ Define(e, n, v) \in Seq(Scope) /\ Len(Define(e, n, v)) = Len(e)
             /\ Assign(e, n, v) \in Seq(Scope) /\ Len(Assign(e, n, v)) = Len(e)
  <2>1. Define(e, n, v) = Put(e, Len(e), n, v)
    BY DEF Define, Put
  <2>2. Assign(e, n, v) = e \/ Assign(e, n, v) = Put(e, Binder(e, n), n, v)
    BY DEF Assign, Put
  <2> QED BY <2>1, <2>2, PutFacts
<1> QED BY <1>1, <1>2, Zenon

LEMMA BalanceHeight ==
  ASSUME NEW s, NEW e, Balance(s, e)
  PROVE  Len(e) \in Nat \ {0}
BY DEF Balance, Balanced, Depths

LEMMA BalanceSplice ==
  ASSUME NEW s, NEW e, Balance(s, e), s # <<>>, Shift(s[1]) = 0,
         NEW t, Neutral(t), NEW e2 \in Seq(Scope), Len(e2) = Len(e)
  PROVE  Balance(t \o Tail(s), e2)
<1>1. Len(e) \in Nat \ {0} /\ Len(e) + 0 = Len(e)
  BY BalanceHeight
<1>2. Tail(s) \in Seq(Items) /\ t \in Seq(Items)
  BY HeadTailProperties DEF Balance, Neutral
<1>3. Balanced(Tail(s), Len(e), 1)
  BY <1>1, BalancedTail DEF Balance
<1>4. Balanced(t \o Tail(s), Len(e), 1)
  BY <1>1, <1>2, <1>3, BalancedConcat DEF Neutral
<1> QED BY <1>2, <1>4, ConcatProperties DEF Balance

LEMMA BalancePush ==
  ASSUME NEW s, NEW e, Balance(s, e), s # <<>>, s[1].stmt.kind = "push"
  PROVE  Balance(<<>> \o Tail(s), PushScope(e, EmptyScope))
<1>1. Tail(s) \in Seq(Items) /\ <<>> \o Tail(s) = Tail(s)
  BY HeadTailProperties, ConcatEmptySeq DEF Balance
<1>2. /\ PushScope(e, EmptyScope) \in Seq(Scope)
      /\ Len(PushScope(e, EmptyScope)) = Len(e) + 1
  BY ScopeFacts, AppendProperties DEF PushScope, Balance
<1>3. Balanced(Tail(s), Len(e) + 1, 1)
  <2>1. Shift(s[1]) = 1
    BY DEF Shift
  <2> QED BY <2>1, BalancedTail DEF Balance
<1> QED BY <1>1, <1>2, <1>3 DEF Balance

LEMMA BalancePop ==
  ASSUME NEW s, NEW e, Balance(s, e), s # <<>>, s[1].stmt.kind = "pop"
  PROVE  Balance(<<>> \o Tail(s), PopScope(e))
<1>1. Tail(s) \in Seq(Items) /\ <<>> \o Tail(s) = Tail(s)
  BY HeadTailProperties, ConcatEmptySeq DEF Balance
<1>2. Len(e) + (-1) \in Nat \ {0} /\ Balanced(Tail(s), Len(e) + (-1), 1)
  <2>1. Shift(s[1]) = -1
    BY DEF Shift
  <2> QED BY <2>1, BalancedTail DEF Balance
<1>3. Len(e) \in Nat /\ Len(e) > 1 /\ Len(e) + (-1) = Len(e) - 1
  <2>1. Len(e) \in Nat \ {0}
    BY BalanceHeight
  <2> QED BY <1>2, <2>1
<1>4. PopScope(e) \in Seq(Scope) /\ Len(PopScope(e)) = Len(e) - 1
  BY <1>3 DEF PopScope, Balance
<1> QED BY <1>1, <1>2, <1>3, <1>4 DEF Balance

CleanInv ==
  /\ test \in Tests
  /\ Balance(todo, env) /\ Balance(code, locals)
  /\ verdict = "passed" => todo = <<>>
  /\ verdict # "failed" => made.come = made.committed
  /\ result \in {"none", "passed"} => code = <<>>

LEMMA HeadType ==
  ASSUME NEW s \in Seq(Items), s # <<>>
  PROVE  /\ s[1] \in Items
         /\ s[1].stmt.kind \notin {"push", "pop", "item"} => s[1].stmt \in Statements
         /\ s[1].stmt.kind = "item" => s[1].stmt.name \in Name /\ s[1].stmt.value \in Val
         /\ s[1].stmt.kind \notin {"push", "pop"} => Shift(s[1]) = 0
<1>1. s[1] \in Items
  <2>1. 1 \in 1..Len(s)
    BY EmptySeq
  <2> QED BY <2>1, ElementOfSeq
<1>2. ASSUME NEW x \in Items
      PROVE  /\ x.stmt.kind \notin {"push", "pop", "item"} => x.stmt \in Statements
             /\ x.stmt.kind = "item" => x.stmt.name \in Name /\ x.stmt.value \in Val
  <2>1. CASE x \in [stmt : Statements, mode : Modes]
    BY <2>1, StatementFacts
  <2>2. CASE x \in [stmt : [kind : {"push", "pop"}], mode : {"marker"}]
    BY <2>2
  <2>3. CASE x \in [stmt : [kind : {"item"}, name : Name, value : Val], mode : {"marker"}]
    BY <2>3
  <2> QED BY <2>1, <2>2, <2>3 DEF Items
<1> QED BY <1>1, <1>2 DEF Shift

\* A step of the evaluator that goes on.
LEMMA Proceeded ==
  ASSUME CleanInv, verdict = "running", verdict' = "running",
         UNCHANGED <<test, code, locals, result>>,
         Balance(todo', env'), made'.come = made'.committed
  PROVE  CleanInv'
BY DEF CleanInv

\* ... that replaces a statement, in no other scopes.
LEMMA Replaced ==
  ASSUME CleanInv, verdict = "running", verdict' = verdict, todo # <<>>,
         UNCHANGED <<test, code, locals, result>>,
         Stmt.kind \notin {"push", "pop"},
         NEW t, Neutral(t), todo' = t \o Tail(todo),
         env' \in Seq(Scope), Len(env') = Len(env),
         made'.come = made'.committed
  PROVE  CleanInv'
<1>1. Shift(todo[1]) = 0
  BY DEF Stmt, Shift
<1>2. Balance(todo', env')
  BY <1>1, BalanceSplice DEF CleanInv
<1> QED BY <1>2, Proceeded

LEMMA Failed ==
  ASSUME CleanInv, Fail, UNCHANGED <<test, code, locals, result>>
  PROVE  CleanInv'
BY DEF CleanInv, Fail

LEMMA StepFacts ==
  ASSUME CleanInv, NEW kind, Step(kind)
  PROVE  /\ verdict = "running" /\ todo # <<>> /\ Stmt.kind = kind
         /\ UNCHANGED <<test, code, locals, result>>
         /\ made.come = made.committed
         /\ env \in Seq(Scope)
         /\ kind \notin {"push", "pop", "item"} => Stmt \in Statements
         /\ kind = "item" => Stmt.name \in Name /\ Stmt.value \in Val
<1>1. /\ verdict = "running" /\ todo # <<>> /\ Stmt.kind = kind
      /\ UNCHANGED <<test, code, locals, result>>
  BY DEF Step, compiled
<1>2. todo \in Seq(Items)
  BY DEF CleanInv, Balance
<1>3. /\ kind \notin {"push", "pop", "item"} => Stmt \in Statements
      /\ kind = "item" => Stmt.name \in Name /\ Stmt.value \in Val
  BY <1>1, <1>2, HeadType DEF Stmt
<1> QED BY <1>1, <1>3 DEF CleanInv, Balance

LEMMA EvaluateKeepsClean ==
  ASSUME CleanInv, Evaluate
  PROVE  CleanInv'
<1>1. CASE Call
  <2>1. Step("call")
    BY <1>1 DEF Call
  <2>2. CASE After \in Holds
    <3>1. /\ env' = Assign(env, Field, After) /\ Proceed
          /\ made' = [come |-> made.come + 1, committed |-> made.committed + 1]
      BY <1>1, <2>2 DEF Call
    <3>2. After \in Val /\ Field \in Name
      BY <2>2, TestRunsAssumption DEF Name
    <3>3. made'.come = made'.committed
      BY <2>1, <3>1, StepFacts
    <3>4. env' \in Seq(Scope) /\ Len(env') = Len(env)
      BY <2>1, <3>1, <3>2, ScopeFacts, StepFacts
    <3>5. todo' = <<>> \o Tail(todo) /\ verdict' = verdict
      BY <3>1 DEF Proceed, Replace
    <3>6. /\ verdict = "running" /\ todo # <<>> /\ Stmt.kind \notin {"push", "pop"}
          /\ UNCHANGED <<test, code, locals, result>>
      BY <2>1, StepFacts
    <3> QED BY <3>3, <3>4, <3>5, <3>6, NeutralEmpty, Replaced
  <2>3. CASE After \notin Holds
    <3>1. Fail
      BY <1>1, <2>3 DEF Call
    <3> QED BY <2>1, <3>1, StepFacts, Failed
  <2> QED BY <2>2, <2>3
<1>2. CASE CallUnknown
  <2>1. Step("call") /\ Fail
    BY <1>2 DEF CallUnknown
  <2> QED BY <2>1, StepFacts, Failed
<1>3. CASE Check
  <2>1. Step("assert") /\ UNCHANGED made
    BY <1>3 DEF Check
  <2>2. CASE Fail
    BY <2>1, <2>2, StepFacts, Failed
  <2>3. CASE Proceed /\ UNCHANGED env
    BY <2>1, <2>3, StepFacts, NeutralEmpty, Replaced DEF Proceed, Replace
  <2> QED BY <1>3, <2>2, <2>3 DEF Check
<1>4. CASE Let
  <2>1. /\ Step("let") /\ env' = Define(env, Stmt.name, Stmt.value)
        /\ Proceed /\ UNCHANGED made
    BY <1>4 DEF Let
  <2>2. Stmt.name \in Name /\ Stmt.value \in Val
    BY <2>1, StepFacts, StatementFacts
  <2>3. env' \in Seq(Scope) /\ Len(env') = Len(env)
    BY <2>1, <2>2, StepFacts, ScopeFacts
  <2> QED BY <2>1, <2>3, StepFacts, NeutralEmpty, Replaced DEF Proceed, Replace
<1>5. CASE SetField
  <2>1. /\ Step("set") /\ env' = Assign(env, Field, Stmt.value)
        /\ Proceed /\ UNCHANGED made
    BY <1>5 DEF SetField
  <2>2. Field \in Name /\ Stmt.value \in Val
    BY <2>1, StepFacts, StatementFacts DEF Name
  <2>3. env' \in Seq(Scope) /\ Len(env') = Len(env)
    BY <2>1, <2>2, StepFacts, ScopeFacts
  <2> QED BY <2>1, <2>3, StepFacts, NeutralEmpty, Replaced DEF Proceed, Replace
<1>6. CASE If
  <2> DEFINE elif == Stmt.else[1]
  <2>1. Step("if") /\ UNCHANGED <<env, made>>
    BY <1>6 DEF If
  <2>2. /\ Stmt.then \in Seq(Statements) /\ Stmt.else \in Seq(Statements)
        /\ Stmt.elif => elif.then \in Seq(Statements)
    <3>1. /\ Stmt.then \in Seq(Statements) /\ Stmt.else \in Seq(Statements)
          /\ Stmt.elif => Stmt.else # <<>> /\ elif.kind = "if"
      BY <2>1, StepFacts, StatementFacts
    <3>2. ASSUME Stmt.elif PROVE elif \in Statements
      <4>1. 1 \in 1..Len(Stmt.else)
        BY <3>1, <3>2, EmptySeq
      <4> QED BY <3>1, <4>1, ElementOfSeq
    <3> QED BY <3>1, <3>2, StatementFacts
  <2>3. \E t : Neutral(t) /\ Replace(t)
    <3>1. Inner(Mode) \in Modes /\ "block" \in Modes
      BY DEF Inner, Modes
    <3>2. \/ Replace(In(Inner(Mode), Stmt.then))
          \/ Replace(In(Inner(Mode), Stmt.else))
          \/ Stmt.elif /\ Replace(In("block", elif.then))
          \/ Replace(<<>>)
      BY <1>6 DEF If, Proceed
    <3> QED BY <2>2, <3>1, <3>2, NeutralIn, NeutralEmpty
  <2> QED BY <2>1, <2>3, StepFacts, Replaced DEF Replace
<1>7. CASE For
  <2>1. Step("for") /\ UNCHANGED <<env, made>>
    BY <1>7 DEF For
  <2>2. "plain" \in Modes /\ "block" \in Modes
    BY DEF Modes
  <2>3. \E t : Neutral(t) /\ Replace(t)
    BY <1>7, <2>1, <2>2, StepFacts, NeutralFor DEF For
  <2> QED BY <2>1, <2>3, StepFacts, Replaced DEF Replace
<1>8. CASE Match
  <2> DEFINE t == Marker("push") \o In("plain", Stmt.body) \o Marker("pop")
  <2>1. Step("match") /\ UNCHANGED <<env, made>> /\ Replace(t)
    BY <1>8 DEF Match
  <2>2. Neutral(t)
    <3>1. "plain" \in Modes /\ Stmt.body \in Seq(Statements)
      BY <2>1, StepFacts, StatementFacts DEF Modes
    <3> QED BY <3>1, NeutralIn, Markers, OpeningConcat, OpeningClosed
  <2> HIDE DEF t
  <2> QED BY <2>1, <2>2, StepFacts, Replaced DEF Replace
<1>9. CASE Push
  <2>1. Step("push") /\ env' = PushScope(env, EmptyScope) /\ Proceed /\ UNCHANGED made
    BY <1>9 DEF Push
  <2>2. todo' = <<>> \o Tail(todo) /\ verdict' = verdict
    BY <2>1 DEF Proceed, Replace
  <2>3. Balance(todo', env')
    BY <2>1, <2>2, StepFacts, BalancePush DEF CleanInv, Stmt
  <2> QED BY <2>1, <2>2, <2>3, StepFacts, Proceeded
<1>10. CASE Item
  <2>1. /\ Step("item") /\ env' = Define(env, Stmt.name, Stmt.value)
        /\ Proceed /\ UNCHANGED made
    BY <1>10 DEF Item
  <2>2. env' \in Seq(Scope) /\ Len(env') = Len(env)
    BY <2>1, StepFacts, ScopeFacts
  <2>3. todo' = <<>> \o Tail(todo) /\ verdict' = verdict
    BY <2>1 DEF Proceed, Replace
  <2>4. /\ verdict = "running" /\ todo # <<>> /\ Stmt.kind \notin {"push", "pop"}
        /\ UNCHANGED <<test, code, locals, result>> /\ made.come = made.committed
    BY <2>1, StepFacts
  <2> QED BY <2>1, <2>2, <2>3, <2>4, NeutralEmpty, Replaced
<1>11. CASE Pop
  <2>1. Step("pop") /\ env' = PopScope(env) /\ Proceed /\ UNCHANGED made
    BY <1>11 DEF Pop
  <2>2. todo' = <<>> \o Tail(todo) /\ verdict' = verdict
    BY <2>1 DEF Proceed, Replace
  <2>3. Balance(todo', env')
    BY <2>1, <2>2, StepFacts, BalancePop DEF CleanInv, Stmt
  <2> QED BY <2>1, <2>2, <2>3, StepFacts, Proceeded
<1>12. CASE Pass
  BY <1>12 DEF Pass, CleanInv, compiled
<1> QED
  BY <1>1, <1>2, <1>3, <1>4, <1>5, <1>6, <1>7, <1>8, <1>9, <1>10, <1>11, <1>12
     DEF Evaluate

\* A step of the compiled test that goes on ...
LEMMA Advanced ==
  ASSUME CleanInv, result = "running", result' = "running",
         UNCHANGED <<test, todo, env, verdict, made>>,
         Balance(code', locals')
  PROVE  CleanInv'
BY DEF CleanInv

LEMMA Spliced ==
  ASSUME CleanInv, result = "running", result' = result, code # <<>>,
         UNCHANGED <<test, todo, env, verdict, made>>,
         Instr.kind \notin {"push", "pop"},
         NEW t, Neutral(t), code' = t \o Tail(code),
         locals' \in Seq(Scope), Len(locals') = Len(locals)
  PROVE  CleanInv'
<1>1. Shift(code[1]) = 0
  BY DEF Instr, Shift
<1>2. Balance(code', locals')
  BY <1>1, BalanceSplice DEF CleanInv
<1> QED BY <1>2, Advanced

LEMMA Trapped ==
  ASSUME CleanInv, Trap, UNCHANGED <<test, todo, env, verdict, made>>
  PROVE  CleanInv'
BY DEF CleanInv, Trap

LEMMA OpFacts ==
  ASSUME CleanInv, NEW kind, Op(kind)
  PROVE  /\ result = "running" /\ code # <<>> /\ Instr.kind = kind
         /\ UNCHANGED <<test, todo, env, verdict, made>>
         /\ locals \in Seq(Scope)
         /\ kind \notin {"push", "pop", "item"} => Instr \in Statements
         /\ kind = "item" => Instr.name \in Name /\ Instr.value \in Val
<1>1. /\ result = "running" /\ code # <<>> /\ Instr.kind = kind
      /\ UNCHANGED <<test, todo, env, verdict, made>>
  BY DEF Op
<1>2. code \in Seq(Items) /\ locals \in Seq(Scope)
  BY DEF CleanInv, Balance
<1>3. /\ kind \notin {"push", "pop", "item"} => Instr \in Statements
      /\ kind = "item" => Instr.name \in Name /\ Instr.value \in Val
  BY <1>1, <1>2, HeadType DEF Instr
<1> QED BY <1>1, <1>2, <1>3

\* What an operation that goes straight on leaves.
LEMMA AdvanceKeepsClean ==
  ASSUME CleanInv, NEW kind, kind \notin {"push", "pop"}, Op(kind), Advance,
         locals' \in Seq(Scope), Len(locals') = Len(locals)
  PROVE  CleanInv'
<1>1. code' = <<>> \o Tail(code) /\ result' = result
  BY DEF Advance, Splice
<1>2. /\ result = "running" /\ code # <<>> /\ Instr.kind \notin {"push", "pop"}
      /\ UNCHANGED <<test, todo, env, verdict, made>>
  BY OpFacts
<1> QED BY <1>1, <1>2, NeutralEmpty, Spliced

LEMMA SpliceKeepsClean ==
  ASSUME CleanInv, NEW kind, kind \notin {"push", "pop"}, Op(kind),
         NEW t, Neutral(t), Splice(t), UNCHANGED locals
  PROVE  CleanInv'
<1>1. code' = t \o Tail(code) /\ result' = result
  BY DEF Splice
<1>2. /\ result = "running" /\ code # <<>> /\ Instr.kind \notin {"push", "pop"}
      /\ UNCHANGED <<test, todo, env, verdict, made>>
      /\ locals' \in Seq(Scope) /\ Len(locals') = Len(locals)
  BY OpFacts
<1> QED BY <1>1, <1>2, Spliced

LEMMA ExecuteKeepsClean ==
  ASSUME CleanInv, Execute
  PROVE  CleanInv'
<1>1. CASE Begin
  <2>1. /\ result = "none" /\ result' = "running" /\ code' = In("test", test)
        /\ UNCHANGED <<test, todo, env, verdict, made, locals>>
    BY <1>1, Zenon DEF Begin, evaluator
  <2>2. Neutral(In("test", test))
    <3>1. test \in Seq(Statements) /\ "test" \in Modes
      BY StatementsAssumption DEF CleanInv, Modes
    <3> QED BY <3>1, NeutralIn
  <2>3. locals \in Seq(Scope) /\ Len(locals) = 1
    BY <2>1, BalancedEmpty DEF CleanInv, Balance
  <2>4. Balance(code', locals')
    BY <2>1, <2>2, <2>3 DEF Balance, Neutral
  <2> QED BY <2>1, <2>4 DEF CleanInv
<1>2. CASE Dispatch
  <2>1. Op("call") /\ (Trap \/ (Advance /\ UNCHANGED locals))
    BY <1>2 DEF Dispatch
  <2> QED BY <2>1, OpFacts, Trapped, AdvanceKeepsClean
<1>3. CASE SkipCall
  <2>1. Op("call") /\ Advance /\ UNCHANGED locals
    BY <1>3, Zenon DEF SkipCall
  <2> QED BY <2>1, OpFacts, AdvanceKeepsClean
<1>4. CASE AssertOrTrap
  <2>1. Op("assert") /\ (Trap \/ (Advance /\ UNCHANGED locals))
    BY <1>4 DEF AssertOrTrap
  <2> QED BY <2>1, OpFacts, Trapped, AdvanceKeepsClean
<1>5. CASE LetLocal
  <2>1. Op("let") /\ Advance /\ locals' = Define(locals, Instr.name, Instr.value)
    BY <1>5, Zenon DEF LetLocal
  <2>2. Instr.name \in Name /\ Instr.value \in Val
    BY <2>1, OpFacts, StatementFacts
  <2>3. locals' \in Seq(Scope) /\ Len(locals') = Len(locals)
    BY <2>1, <2>2, OpFacts, ScopeFacts
  <2> QED BY <2>1, <2>3, AdvanceKeepsClean
<1>6. CASE SetRecord
  <2>1. Op("set") /\ Advance /\ UNCHANGED locals
    BY <1>6 DEF SetRecord
  <2> QED BY <2>1, OpFacts, AdvanceKeepsClean
<1>7. CASE Branch
  <2> DEFINE body == IF Value(Field) = Instr.value THEN Instr.then ELSE Instr.else
  <2>1. Op("if") /\ Splice(InnerCode(body)) /\ UNCHANGED locals
    BY <1>7, Zenon DEF Branch
  <2>2. body \in Seq(Statements) /\ "plain" \in Modes
    BY <2>1, OpFacts, StatementFacts DEF Modes
  <2> HIDE DEF body
  <2>3. Neutral(InnerCode(body))
    BY <2>2, NeutralIn DEF InnerCode
  <2> QED BY <2>1, <2>3, SpliceKeepsClean
<1>8. CASE Loop
  <2>1. Op("for") /\ Splice(OneScope(Instr, "plain")) /\ UNCHANGED locals
    BY <1>8, Zenon DEF Loop, OneScope, InnerCode
  <2>2. Neutral(OneScope(Instr, "plain"))
    <3>1. Instr \in Statements /\ Instr.kind = "for" /\ "plain" \in Modes
      BY <2>1, OpFacts DEF Modes
    <3> QED BY <3>1, NeutralFor
  <2> QED BY <2>1, <2>2, SpliceKeepsClean
<1>9. CASE Arm
  <2>1. Op("match") /\ Splice(InnerCode(Instr.body)) /\ UNCHANGED locals
    BY <1>9 DEF Arm
  <2>2. Instr.body \in Seq(Statements) /\ "plain" \in Modes
    BY <2>1, OpFacts, StatementFacts DEF Modes
  <2>3. Neutral(InnerCode(Instr.body))
    BY <2>2, NeutralIn DEF InnerCode
  <2> QED BY <2>1, <2>3, SpliceKeepsClean
<1>10. CASE ItemLocal
  <2>0. code' = <<>> \o Tail(code) /\ result' = result
    BY <1>10 DEF ItemLocal, Advance, Splice
  <2>1. CASE Op("push") /\ locals' = PushScope(locals, EmptyScope)
    <3>1. Balance(code', locals')
      BY <2>0, <2>1, OpFacts, BalancePush DEF CleanInv, Instr
    <3> QED BY <2>0, <2>1, <3>1, OpFacts, Advanced
  <2>2. CASE Op("item") /\ locals' = Define(locals, Instr.name, Instr.value)
    <3>1. locals' \in Seq(Scope) /\ Len(locals') = Len(locals)
      BY <2>2, OpFacts, ScopeFacts
    <3>2. Advance
      BY <1>10 DEF ItemLocal
    <3> QED BY <2>2, <3>1, <3>2, AdvanceKeepsClean
  <2>3. CASE Op("pop") /\ locals' = PopScope(locals)
    <3>1. Balance(code', locals')
      BY <2>0, <2>3, OpFacts, BalancePop DEF CleanInv, Instr
    <3> QED BY <2>0, <2>3, <3>1, OpFacts, Advanced
  <2> QED BY <1>10, <2>1, <2>2, <2>3 DEF ItemLocal
<1>11. CASE Return
  BY <1>11 DEF Return, CleanInv, evaluator
<1> QED
  BY <1>1, <1>2, <1>3, <1>4, <1>5, <1>6, <1>7, <1>8, <1>9, <1>10, <1>11
     DEF Execute

LEMMA InitClean == Init => CleanInv
<1> SUFFICES ASSUME Init PROVE CleanInv
  OBVIOUS
<1>1. /\ test \in Tests /\ todo = In("test", test) /\ env = Fresh
      /\ verdict = "running" /\ code = <<>> /\ locals = <<EmptyScope>>
      /\ result = "none" /\ made = [come |-> 0, committed |-> 0]
  BY DEF Init
<1>2. Fresh \in Seq(Scope) /\ Len(Fresh) = 1
  BY TestRunsAssumption DEF Fresh, Scope, Slot
<1>3. <<EmptyScope>> \in Seq(Scope) /\ Len(<<EmptyScope>>) = 1
  BY ScopeFacts
<1>4. Neutral(In("test", test)) /\ Neutral(<<>>)
  <2>1. test \in Seq(Statements) /\ "test" \in Modes
    BY <1>1, StatementsAssumption DEF Modes
  <2> QED BY <2>1, NeutralIn, NeutralEmpty
<1>5. Balance(todo, env) /\ Balance(code, locals)
  BY <1>1, <1>2, <1>3, <1>4 DEF Balance, Neutral
<1> QED BY <1>1, <1>5 DEF CleanInv

LEMMA NextClean == CleanInv /\ [Next]_vars => CleanInv'
<1>1. CleanInv /\ UNCHANGED vars => CleanInv'
  BY DEF CleanInv, vars
<1> QED BY <1>1, EvaluateKeepsClean, ExecuteKeepsClean DEF Next

\* Whatever the test and the mocks are: a test passes in the evaluator only
\* if every call it came to committed, and a passed test has closed all its
\* scopes, in either run.
THEOREM PassesCleanly == Spec => []PassedClean
<1>1. Spec => []CleanInv
  BY InitClean, NextClean, PTL DEF Spec
<1>2. CleanInv => PassedClean
  <2> SUFFICES ASSUME CleanInv PROVE PassedClean
    OBVIOUS
  <2>1. verdict = "passed" => Len(env) = 1
    BY BalancedEmpty DEF CleanInv, Balance
  <2>2. result = "passed" => Len(locals) = 1
    BY BalancedEmpty DEF CleanInv, Balance
  <2> QED BY <2>1, <2>2 DEF CleanInv, PassedClean
<1> QED BY <1>1, <1>2, PTL

-----------------------------------------------------------------------------
(* Lookups, scope by scope. *)

\* A nonempty set of positions has a last.
LEMMA LastExists ==
  ASSUME NEW n \in Nat, NEW S \in SUBSET (1..n), S # {}
  PROVE  \E m \in S : \A k \in S : k <= m
<1>1. PICK k \in S : k \in 1..n
  OBVIOUS
<1>2. ASSUME \A m \in S : \E j \in S : ~(j <= m) PROVE FALSE
  <2> DEFINE U == {j \in 1..n : \E i \in S : j <= i}
  <2>1. 1 \in U
    BY <1>1
  <2>2. ASSUME NEW m \in 1..n, m \in U, m < n PROVE m + 1 \in U
    <3>1. PICK i \in S : m <= i
      BY <2>2
    <3>2. PICK j \in S : ~(j <= i)
      BY <1>2
    <3>3. i \in 1..n /\ j \in 1..n
      OBVIOUS
    <3>4. m + 1 <= j /\ m + 1 \in 1..n
      BY <2>2, <3>1, <3>2, <3>3
    <3> QED BY <3>4
  <2> HIDE DEF U
  <2>3. 1..n \subseteq U
    BY <2>1, <2>2, Upwards
  <2>4. n \in U
    BY <1>1, <2>3
  <2>5. PICK i \in S : n <= i
    BY <2>4 DEF U
  <2>6. PICK j \in S : ~(j <= i)
    BY <1>2
  <2>7. i \in 1..n /\ j \in 1..n
    OBVIOUS
  <2> QED BY <2>5, <2>6, <2>7
<1> QED BY <1>2

\* What a lookup finds, given the innermost scope that binds the name.
LEMMA LookupAt ==
  ASSUME NEW e \in Seq(Scope), NEW n \in Name, NEW i \in 1..Len(e),
         e[i][n] # Unbound, \A j \in (i + 1)..Len(e) : e[j][n] = Unbound
  PROVE  IsBound(e, n) /\ Binder(e, n) = i /\ Lookup(e, n) = e[i][n]
<1>1. Len(e) \in Nat /\ DOMAIN e = 1..Len(e)
  BY LenProperties
<1>2. i \in Binders(e, n)
  BY <1>1 DEF Binders
<1>3. \A j \in Binders(e, n) : j \in Nat /\ j <= i
  <2> SUFFICES ASSUME NEW j \in Binders(e, n), ~(j <= i) PROVE FALSE
    BY <1>1 DEF Binders
  <2>1. j \in 1..Len(e) /\ e[j][n] # Unbound
    BY <1>1 DEF Binders
  <2>2. j \in (i + 1)..Len(e)
    BY <1>1, <2>1
  <2> QED BY <2>1, <2>2
<1>4. Binder(e, n) = i
  <2>1. \E k \in Binders(e, n) : \A j \in Binders(e, n) : j <= k
    BY <1>2, <1>3
  <2>2. /\ Binder(e, n) \in Binders(e, n)
        /\ \A j \in Binders(e, n) : j <= Binder(e, n)
    BY <2>1, Zenon DEF Binder
  <2>3. i <= Binder(e, n) /\ Binder(e, n) <= i /\ Binder(e, n) \in Nat /\ i \in Nat
    BY <1>2, <1>3, <2>2, Zenon
  <2> QED BY <2>3
<1> QED BY <1>2, <1>4 DEF IsBound, Lookup

\* A bound name has an innermost scope that binds it.
LEMMA LastBinder ==
  ASSUME NEW e \in Seq(Scope), NEW n \in Name, IsBound(e, n)
  PROVE  \E i \in 1..Len(e) :
           e[i][n] # Unbound /\ \A j \in (i + 1)..Len(e) : e[j][n] = Unbound
<1>1. Len(e) \in Nat /\ DOMAIN e = 1..Len(e)
  BY LenProperties
<1>2. Binders(e, n) \in SUBSET (1..Len(e)) /\ Binders(e, n) # {}
  BY <1>1 DEF Binders, IsBound
<1>3. PICK i \in Binders(e, n) : \A j \in Binders(e, n) : j <= i
  BY <1>1, <1>2, LastExists
<1>4. i \in 1..Len(e) /\ e[i][n] # Unbound
  BY <1>1 DEF Binders
<1>5. ASSUME NEW j \in (i + 1)..Len(e), e[j][n] # Unbound PROVE FALSE
  <2>1. j \in 1..Len(e) /\ ~(j <= i)
    BY <1>1, <1>4
  <2> QED BY <1>1, <1>3, <1>5, <2>1 DEF Binders
<1> QED BY <1>4, <1>5

\* A name is bound exactly when its lookup finds a value, in some scope.
LEMMA LookupNone ==
  ASSUME NEW e \in Seq(Scope), NEW n \in Name
  PROVE  /\ IsBound(e, n) <=> Lookup(e, n) # Unbound
         /\ IsBound(e, n) <=> \E i \in 1..Len(e) : e[i][n] # Unbound
<1>1. DOMAIN e = 1..Len(e)
  BY LenProperties
<1>2. IsBound(e, n) <=> \E i \in 1..Len(e) : e[i][n] # Unbound
  BY <1>1 DEF IsBound, Binders
<1>3. ASSUME IsBound(e, n) PROVE Lookup(e, n) # Unbound
  <2>1. PICK i \in 1..Len(e) :
          e[i][n] # Unbound /\ \A j \in (i + 1)..Len(e) : e[j][n] = Unbound
    BY <1>3, LastBinder
  <2> QED BY <2>1, LookupAt
<1> QED BY <1>2, <1>3 DEF Lookup

\* Scopes over scopes.
LEMMA LookupOver ==
  ASSUME NEW b \in Seq(Scope), NEW e \in Seq(Scope), NEW n \in Name
  PROVE  /\ Lookup(b \o e, n) = IF IsBound(e, n) THEN Lookup(e, n) ELSE Lookup(b, n)
         /\ IsBound(b \o e, n) <=> IsBound(b, n) \/ IsBound(e, n)
<1> DEFINE c == b \o e
<1>1. /\ c \in Seq(Scope) /\ Len(c) = Len(b) + Len(e) /\ Len(b) \in Nat /\ Len(e) \in Nat
      /\ \A i \in 1..(Len(b) + Len(e)) : c[i] = IF i <= Len(b) THEN b[i] ELSE e[i - Len(b)]
  BY ConcatProperties, LenProperties
<1>2. \A i \in 1..Len(e) : i + Len(b) \in 1..Len(c) /\ c[i + Len(b)] = e[i]
  BY <1>1
<1>3. \A i \in 1..Len(b) : i \in 1..Len(c) /\ c[i] = b[i]
  BY <1>1
<1>4. \A i \in 1..Len(c) : i \in 1..Len(b) \/ (i - Len(b) \in 1..Len(e) /\ c[i] = e[i - Len(b)])
  BY <1>1
<1>5. CASE IsBound(e, n)
  <2>1. PICK i \in 1..Len(e) :
          e[i][n] # Unbound /\ \A j \in (i + 1)..Len(e) : e[j][n] = Unbound
    BY <1>5, LastBinder
  <2>2. i + Len(b) \in 1..Len(c) /\ c[i + Len(b)][n] # Unbound
    BY <1>2, <2>1
  <2>3. \A j \in ((i + Len(b)) + 1)..Len(c) : c[j][n] = Unbound
    <3> TAKE j \in ((i + Len(b)) + 1)..Len(c)
    <3>1. j - Len(b) \in (i + 1)..Len(e) /\ c[j] = e[j - Len(b)]
      BY <1>1, <2>1
    <3> QED BY <2>1, <3>1
  <2> HIDE DEF c
  <2>4. IsBound(c, n) /\ Lookup(c, n) = c[i + Len(b)][n]
    BY <1>1, <2>2, <2>3, LookupAt
  <2>5. Lookup(e, n) = e[i][n]
    BY <2>1, LookupAt
  <2> QED BY <1>2, <1>5, <2>4, <2>5 DEF c
<1>6. CASE ~IsBound(e, n) /\ IsBound(b, n)
  <2>1. PICK i \in 1..Len(b) :
          b[i][n] # Unbound /\ \A j \in (i + 1)..Len(b) : b[j][n] = Unbound
    BY <1>6, LastBinder
  <2>2. \A j \in 1..Len(e) : e[j][n] = Unbound
    BY <1>6, LookupNone
  <2>3. \A j \in (i + 1)..Len(c) : c[j][n] = Unbound
    <3> TAKE j \in (i + 1)..Len(c)
    <3>1. \/ j \in (i + 1)..Len(b) /\ c[j] = b[j]
          \/ j - Len(b) \in 1..Len(e) /\ c[j] = e[j - Len(b)]
      BY <1>1, <2>1
    <3> QED BY <2>1, <2>2, <3>1
  <2>4. i \in 1..Len(c) /\ c[i] = b[i]
    BY <1>3
  <2> HIDE DEF c
  <2>5. IsBound(c, n) /\ Lookup(c, n) = c[i][n]
    BY <1>1, <2>1, <2>3, <2>4, LookupAt
  <2>6. Lookup(b, n) = b[i][n]
    BY <2>1, LookupAt
  <2> QED BY <1>6, <2>4, <2>5, <2>6 DEF c
<1>7. CASE ~IsBound(e, n) /\ ~IsBound(b, n)
  <2>1. \A i \in 1..Len(c) : c[i][n] = Unbound
    BY <1>3, <1>4, <1>7, LookupNone
  <2> HIDE DEF c
  <2>2. ~IsBound(c, n) /\ Lookup(c, n) = Unbound /\ Lookup(b, n) = Unbound
    BY <1>1, <1>7, <2>1, LookupNone
  <2> QED BY <1>7, <2>2 DEF c
<1> QED BY <1>5, <1>6, <1>7

\* With one scope a lookup reads that scope.
LEMMA LookupOne ==
  ASSUME NEW g \in Scope, NEW n \in Name
  PROVE  Lookup(<<g>>, n) = g[n] /\ (IsBound(<<g>>, n) <=> g[n] # Unbound)
<1>1. <<g>> \in Seq(Scope) /\ Len(<<g>>) = 1 /\ <<g>>[1] = g
  OBVIOUS
<1>2. IsBound(<<g>>, n) <=> g[n] # Unbound
  <2>1. 1..Len(<<g>>) = {1}
    BY <1>1
  <2> QED BY <1>1, <2>1, LookupNone
<1>3. CASE g[n] # Unbound
  <2>1. 1 \in 1..Len(<<g>>) /\ (1 + 1)..Len(<<g>>) = {}
    BY <1>1
  <2> QED BY <1>1, <1>2, <1>3, <2>1, LookupAt
<1>4. CASE g[n] = Unbound
  BY <1>2, <1>4 DEF Lookup
<1> QED BY <1>2, <1>3, <1>4

\* A scope with one name bound.
Bind(sc, n, v) == [sc EXCEPT ![n] = v]

\* Scopes above the one that holds the field.
Above == {sc \in Scope : sc[Field] = Unbound}

\* The empty scope is one of those above; the field is no local name.
LEMMA AboveFacts ==
  /\ Field \in Name /\ Local \subseteq Name /\ Field \notin Local
  /\ Unbound \notin Val /\ Seq(Above) \subseteq Seq(Scope)
  /\ EmptyScope \in Above /\ \A n \in Name : EmptyScope[n] = Unbound
<1>1. Field \in Name /\ Local \subseteq Name /\ Field \notin Local /\ Unbound \notin Val
  BY TestRunsAssumption DEF Name
<1>2. EmptyScope \in Above /\ \A n \in Name : EmptyScope[n] = Unbound
  BY <1>1 DEF EmptyScope, Above, Scope, Slot
<1>3. Above \subseteq Scope
  BY DEF Above
<1> QED BY <1>1, <1>2, <1>3

\* The innermost scope.
LEMMA TopFacts ==
  ASSUME NEW b \in Seq(Scope), NEW sc \in Scope
  PROVE  /\ PushScope(b, sc) = b \o <<sc>>
         /\ b # <<>> => PopScope(b \o <<sc>>) = b
         /\ \A n \in Name, v \in Val : Define(b \o <<sc>>, n, v) = b \o <<Bind(sc, n, v)>>
<1> DEFINE c == b \o <<sc>>
           k == Len(b) + 1
<1>0. Len(b) \in Nat /\ DOMAIN b = 1..Len(b) /\ <<sc>> \in Seq(Scope)
  BY LenProperties
<1>1. /\ c \in Seq(Scope) /\ Len(c) = k /\ DOMAIN c = 1..k
      /\ c[k] = sc /\ \A i \in 1..Len(b) : c[i] = b[i]
  <2>1. Len(<<sc>>) = 1 /\ <<sc>>[1] = sc
    OBVIOUS
  <2>2. /\ c \in Seq(Scope) /\ Len(c) = Len(b) + 1
        /\ \A i \in 1..(Len(b) + 1) : c[i] = IF i <= Len(b) THEN b[i] ELSE <<sc>>[i - Len(b)]
    BY <1>0, <2>1, ConcatProperties
  <2>3. k \in 1..(Len(b) + 1) /\ ~(k <= Len(b)) /\ k - Len(b) = 1
    BY <1>0
  <2>4. \A i \in 1..Len(b) : i \in 1..(Len(b) + 1) /\ i <= Len(b)
    BY <1>0
  <2> HIDE DEF c
  <2>5. DOMAIN c = 1..Len(c)
    BY <2>2, LenProperties
  <2> QED BY <2>1, <2>2, <2>3, <2>4, <2>5
<1>2. PushScope(b, sc) = b \o <<sc>>
  BY <1>0, AppendIsConcat DEF PushScope
<1>3. ASSUME b # <<>> PROVE PopScope(c) = b
  <2>1. Len(b) > 0
    BY <1>0, <1>3, EmptySeq
  <2> HIDE DEF c
  <2>2. PopScope(c) = SubSeq(c, 1, Len(b))
    BY <1>0, <1>1, <2>1 DEF PopScope
  <2>3. SubSeq(c, 1, Len(b)) = [i \in 1..Len(b) |-> c[i]]
    BY <1>0, <1>1
  <2>4. b = [i \in 1..Len(b) |-> b[i]]
    BY <1>0
  <2>5. [i \in 1..Len(b) |-> c[i]] = [i \in 1..Len(b) |-> b[i]]
    BY <1>1
  <2> QED BY <2>2, <2>3, <2>4, <2>5
<1>4. ASSUME NEW n \in Name, NEW v \in Val
      PROVE  Define(c, n, v) = b \o <<Bind(sc, n, v)>>
  <2> DEFINE r == Bind(sc, n, v)
             d == b \o <<r>>
  <2>0. v \in Slot
    BY DEF Slot
  <2>1. r \in Scope
    BY <2>0 DEF Scope, Bind
  <2>2. Define(c, n, v) = [c EXCEPT ![k] = r]
    <3> HIDE DEF c
    <3> QED BY <1>1 DEF Define, Bind
  <2> HIDE DEF r
  <2>3. /\ d \in Seq(Scope) /\ Len(d) = k
        /\ d[k] = r /\ \A i \in 1..Len(b) : d[i] = b[i]
    <3>1. Len(<<r>>) = 1 /\ <<r>>[1] = r /\ <<r>> \in Seq(Scope)
      BY <2>1
    <3>2. /\ d \in Seq(Scope) /\ Len(d) = Len(b) + 1
          /\ \A i \in 1..(Len(b) + 1) : d[i] = IF i <= Len(b) THEN b[i] ELSE <<r>>[i - Len(b)]
      BY <1>0, <3>1, ConcatProperties
    <3>3. k \in 1..(Len(b) + 1) /\ ~(k <= Len(b)) /\ k - Len(b) = 1
      BY <1>0
    <3>4. \A i \in 1..Len(b) : i \in 1..(Len(b) + 1) /\ i <= Len(b)
      BY <1>0
    <3> QED BY <3>1, <3>2, <3>3, <3>4
  <2>4. k \in 1..k
    BY <1>0
  <2> HIDE DEF c, d
  <2>5. /\ [c EXCEPT ![k] = r] \in Seq(Scope) /\ Len([c EXCEPT ![k] = r]) = k
        /\ \A j \in 1..k : [c EXCEPT ![k] = r][j] = IF j = k THEN r ELSE c[j]
    BY <1>1, <2>1, <2>4, ExceptSeq
  <2>6. \A j \in 1..k : j = k \/ j \in 1..Len(b)
    BY <1>0
  <2>7. \A j \in 1..k : [c EXCEPT ![k] = r][j] = d[j]
    BY <1>1, <2>3, <2>5, <2>6
  <2>8. [c EXCEPT ![k] = r] = d
    BY <2>3, <2>5, <2>7, SeqEqual
  <2> QED BY <2>2, <2>8 DEF d, r
<1> QED BY <1>2, <1>3, <1>4

\* The scope at the bottom, which the field is in.
LEMMA BottomFacts ==
  ASSUME NEW g \in Scope, NEW e \in Seq(Above)
  PROVE  /\ <<g>> \o e \in Seq(Scope) /\ <<g>> \o e # <<>>
         /\ Lookup(<<g>> \o e, Field) = g[Field]
         /\ \A n \in Name : Lookup(<<g>> \o e, n) = IF IsBound(e, n) THEN Lookup(e, n) ELSE g[n]
         /\ \A n \in Name : IsBound(<<g>> \o e, n) <=> Lookup(<<g>> \o e, n) # Unbound
         /\ \A v \in Val : g[Field] # Unbound =>
              Assign(<<g>> \o e, Field, v) = <<Bind(g, Field, v)>> \o e
<1> DEFINE c == <<g>> \o e
           m == Len(e)
<1>0. /\ e \in Seq(Scope) /\ <<g>> \in Seq(Scope) /\ Field \in Name
      /\ m \in Nat /\ DOMAIN e = 1..m
  BY AboveFacts, LenProperties
<1>1. ASSUME NEW h \in Scope
      PROVE  /\ <<h>> \o e \in Seq(Scope) /\ Len(<<h>> \o e) = m + 1
             /\ (<<h>> \o e)[1] = h
             /\ \A i \in 2..(m + 1) : (<<h>> \o e)[i] = e[i - 1] /\ i - 1 \in 1..m
  <2>1. Len(<<h>>) = 1 /\ <<h>>[1] = h /\ <<h>> \in Seq(Scope)
    OBVIOUS
  <2>2. /\ <<h>> \o e \in Seq(Scope) /\ Len(<<h>> \o e) = 1 + m
        /\ \A i \in 1..(1 + m) : (<<h>> \o e)[i] = IF i <= 1 THEN <<h>>[i] ELSE e[i - 1]
    BY <1>0, <2>1, ConcatProperties
  <2>3. 1 \in 1..(1 + m) /\ \A i \in 2..(m + 1) : i \in 1..(1 + m) /\ ~(i <= 1) /\ i - 1 \in 1..m
    BY <1>0
  <2> QED BY <1>0, <2>1, <2>2, <2>3
<1>2. c \in Seq(Scope) /\ c # <<>> /\ Len(c) = m + 1 /\ c[1] = g
  BY <1>0, <1>1
<1>3. \A n \in Name : Lookup(c, n) = IF IsBound(e, n) THEN Lookup(e, n) ELSE g[n]
  BY <1>0, LookupOver, LookupOne
<1>4. \A i \in 1..m : e[i][Field] = Unbound
  BY ElementOfSeq DEF Above
<1>5. ~IsBound(e, Field)
  BY <1>0, <1>4, LookupNone
<1>6. ASSUME NEW v \in Val, g[Field] # Unbound
      PROVE  Assign(c, Field, v) = <<Bind(g, Field, v)>> \o e
  <2> DEFINE h == Bind(g, Field, v)
             d == <<h>> \o e
  <2>0. v \in Slot
    BY DEF Slot
  <2>1. h \in Scope
    BY <2>0 DEF Scope, Bind
  <2>2. 1 \in 1..Len(c) /\ c[1][Field] # Unbound
    BY <1>0, <1>2, <1>6
  <2>3. \A j \in (1 + 1)..Len(c) : c[j][Field] = Unbound
    <3> TAKE j \in (1 + 1)..Len(c)
    <3>1. j \in 2..(m + 1)
      BY <1>0, <1>2
    <3> QED BY <1>1, <1>4, <3>1
  <2> HIDE DEF c
  <2>4. IsBound(c, Field) /\ Binder(c, Field) = 1
    BY <1>0, <1>2, <2>2, <2>3, LookupAt
  <2>5. Assign(c, Field, v) = [c EXCEPT ![1] = h]
    BY <1>2, <2>4 DEF Assign, Bind
  <2> HIDE DEF h
  <2>6. /\ [c EXCEPT ![1] = h] \in Seq(Scope) /\ Len([c EXCEPT ![1] = h]) = Len(c)
        /\ \A j \in 1..Len(c) : [c EXCEPT ![1] = h][j] = IF j = 1 THEN h ELSE c[j]
    BY <1>2, <2>1, <2>2, ExceptSeq
  <2>7. /\ d \in Seq(Scope) /\ Len(d) = Len(c) /\ d[1] = h
        /\ \A i \in 2..(m + 1) : d[i] = e[i - 1] /\ c[i] = e[i - 1]
    BY <1>1, <1>2, <2>1 DEF c
  <2> HIDE DEF d
  <2>8. \A j \in 1..Len(c) : j = 1 \/ j \in 2..(m + 1)
    BY <1>0, <1>2
  <2>9. \A j \in 1..Len(c) : [c EXCEPT ![1] = h][j] = d[j]
    BY <2>6, <2>7, <2>8
  <2>10. [c EXCEPT ![1] = h] = d
    BY <2>6, <2>7, <2>9, SeqEqual
  <2> QED BY <2>5, <2>10 DEF d, h
<1>7. \A n \in Name : IsBound(c, n) <=> Lookup(c, n) # Unbound
  BY <1>2, LookupNone
<1> QED BY <1>0, <1>2, <1>3, <1>5, <1>6, <1>7

-----------------------------------------------------------------------------
(* What the two runs have left to do, side by side. *)

Of(s, mode) == <<[stmt |-> s, mode |-> mode]>>
ItemAt(n, v) == <<[stmt |-> [kind |-> "item", name |-> n, value |-> v], mode |-> "marker"]>>
push == Marker("push")
pop == Marker("pop")

Nested == {s \in Statements : s.kind # "let"}

\* Stacks that show the same, whatever empty scopes there are among them.
Alike(e, l) == \A n \in Local : Lookup(e, n) = Lookup(l, n)

\* What the evaluator has left to do, its scopes above the bottom one, and
\* the same of the compiled test.
Points == Seq(Items) \X Seq(Above) \X Seq(Items) \X Seq(Above)

\* The rules by which they stand abreast, from the end backwards: the same
\* statement, ...
TopRule(R) ==
  \A t, c \in Seq(Items), s \in Statements :
    <<t, <<>>, c, <<>>>> \in R => <<Of(s, "test") \o t, <<>>, Of(s, "test") \o c, <<>>>> \in R
NestedRule(R) ==
  \A t, c \in Seq(Items), e, l \in Seq(Above), s \in Nested, m \in {"block", "plain"} :
    <<t, e, c, l>> \in R => <<Of(s, m) \o t, e, Of(s, "plain") \o c, l>> \in R
\* ... a scope of both, ...
PushRule(R) ==
  \A t, c \in Seq(Items), e, l \in Seq(Above) :
    <<t, e \o <<EmptyScope>>, c, l \o <<EmptyScope>>>> \in R => <<push \o t, e, push \o c, l>> \in R
PopRule(R) ==
  \A t, c \in Seq(Items), e, l \in Seq(Above), sc \in Above :
    <<t, e, c, l>> \in R => <<pop \o t, e \o <<sc>>, pop \o c, l \o <<sc>>>> \in R
\* ... one of the evaluator's, round the arm of a match, ...
ArmPushRule(R) ==
  \A t, c \in Seq(Items), e, l \in Seq(Above) :
    <<t, e \o <<EmptyScope>>, c, l>> \in R => <<push \o t, e, c, l>> \in R
ArmPopRule(R) ==
  \A t, c \in Seq(Items), e, l \in Seq(Above) :
    <<t, e, c, l>> \in R => <<pop \o t, e \o <<EmptyScope>>, c, l>> \in R
\* ... one of the compiled test's, round a loop over nothing, ...
LoopPushRule(R) ==
  \A t, c \in Seq(Items), e, l \in Seq(Above) :
    <<t, e, c, l \o <<EmptyScope>>>> \in R => <<t, e, push \o c, l>> \in R
LoopPopRule(R) ==
  \A t, c \in Seq(Items), e, l \in Seq(Above) :
    <<t, e, c, l>> \in R => <<t, e, pop \o c, l \o <<EmptyScope>>>> \in R
\* ... and an item, in the scope of the last one or in one of its own.
ItemRule(R) ==
  \A t, c \in Seq(Items), e, l \in Seq(Above), sc \in Above, n \in Local, v \in Val :
    /\ Alike(e, l)
    /\ <<t, e \o <<Bind(sc, n, v)>>, c, l \o <<Bind(sc, n, v)>>>> \in R
    => <<ItemAt(n, v) \o t, e \o <<sc>>, ItemAt(n, v) \o c, l \o <<sc>>>> \in R
TurnRule(R) ==
  \A t, c \in Seq(Items), e, l \in Seq(Above), sc \in Above, n \in Local, v \in Val :
    /\ Alike(e, l)
    /\ Bind(sc, n, v) = Bind(EmptyScope, n, v)
    /\ <<t, e \o <<Bind(sc, n, v)>>, c, l \o <<Bind(sc, n, v)>>>> \in R
    => <<pop \o (push \o (ItemAt(n, v) \o t)), e \o <<sc>>, ItemAt(n, v) \o c, l \o <<sc>>>> \in R

Closed(R) ==
  /\ <<<<>>, <<>>, <<>>, <<>>>> \in R
  /\ TopRule(R) /\ NestedRule(R) /\ PushRule(R) /\ PopRule(R) /\ ArmPushRule(R)
  /\ ArmPopRule(R) /\ LoopPushRule(R) /\ LoopPopRule(R) /\ ItemRule(R) /\ TurnRule(R)

Abreast == {q \in Points : \A R \in SUBSET Points : Closed(R) => q \in R}

\* What either run has left to do is made of items.
LEMMA PieceTypes ==
  /\ \A s \in Statements, m \in Modes : [stmt |-> s, mode |-> m] \in Items
  /\ \A n \in Local, v \in Val :
       [stmt |-> [kind |-> "item", name |-> n, value |-> v], mode |-> "marker"] \in Items
  /\ [stmt |-> [kind |-> "push"], mode |-> "marker"] \in Items
  /\ [stmt |-> [kind |-> "pop"], mode |-> "marker"] \in Items
BY DEF Items, Name

\* An item before the rest: the head and the tail.
LEMMA Prefixed ==
  ASSUME NEW t \in Seq(Items), NEW x \in Items
  PROVE  <<x>> \o t \in Seq(Items) /\ <<x>> \o t # <<>> /\ (<<x>> \o t)[1] = x
         /\ Tail(<<x>> \o t) = t
OBVIOUS

\* So with a statement, an item of a loop, a push or a pop before the rest.
LEMMA PieceFacts ==
  ASSUME NEW t \in Seq(Items)
  PROVE  /\ \A s \in Statements, m \in Modes : Of(s, m) \o t \in Seq(Items)
         /\ \A n \in Local, v \in Val : ItemAt(n, v) \o t \in Seq(Items)
         /\ push \o t \in Seq(Items) /\ pop \o t \in Seq(Items)
<1>1. push = <<[stmt |-> [kind |-> "push"], mode |-> "marker"]>>
      /\ pop = <<[stmt |-> [kind |-> "pop"], mode |-> "marker"]>>
  BY DEF push, pop, Marker
<1>2. push \o t \in Seq(Items) /\ pop \o t \in Seq(Items)
  BY <1>1, PieceTypes, Prefixed
<1>3. \A s \in Statements, m \in Modes : Of(s, m) \o t \in Seq(Items)
  BY PieceTypes, Prefixed DEF Of
<1>4. \A n \in Local, v \in Val : ItemAt(n, v) \o t \in Seq(Items)
  BY PieceTypes, Prefixed DEF ItemAt
<1> QED BY <1>2, <1>3, <1>4

\* One more scope on the stack.
LEMMA ScopesOver ==
  ASSUME NEW e \in Seq(Above), NEW sc \in Above
  PROVE  e \o <<sc>> \in Seq(Above)
OBVIOUS

\* A local name bound in a scope leaves it without the field.
LEMMA BoundAbove ==
  ASSUME NEW sc \in Above, NEW n \in Local, NEW v \in Val
  PROVE  Bind(sc, n, v) \in Above
<1>1. n \in Name /\ n # Field /\ v \in Slot
  BY AboveFacts DEF Slot
<1>2. sc \in [Name -> Slot] /\ sc[Field] = Unbound
  BY DEF Above, Scope
<1>3. Bind(sc, n, v) \in [Name -> Slot]
  BY <1>1, <1>2 DEF Bind
<1>4. Bind(sc, n, v)[Field] = sc[Field]
  BY <1>1, <1>2, AboveFacts DEF Bind
<1> QED BY <1>2, <1>3, <1>4, Zenon DEF Above, Scope

\* What a point of two stretches of code and scopes is made of.
LEMMA PointOf ==
  ASSUME NEW t \in Seq(Items), NEW e \in Seq(Above), NEW c \in Seq(Items), NEW l \in Seq(Above)
  PROVE  <<t, e, c, l>> \in Points
BY DEF Points

\* Abreast is the least relation that the rules are closed under, ...
LEMMA Least ==
  ASSUME NEW R \in SUBSET Points, Closed(R)
  PROVE  Abreast \subseteq R
BY DEF Abreast

\* ... and they are closed under it.
LEMMA AbreastClosed == Closed(Abreast)
<1>0. EmptyScope \in Above /\ <<>> \in Seq(Above) /\ <<>> \in Seq(Items)
  BY AboveFacts
<1>m. "test" \in Modes /\ "plain" \in Modes /\ "block" \in Modes /\ Nested \subseteq Statements
  BY DEF Modes, Nested
<1>e. <<<<>>, <<>>, <<>>, <<>>>> \in Abreast
  <2>1. <<<<>>, <<>>, <<>>, <<>>>> \in Points
    BY <1>0 DEF Points
  <2> QED BY <2>1, Zenon DEF Abreast, Closed
<1>p. ASSUME NEW q \in Points, \A R \in SUBSET Points : Closed(R) /\ Abreast \subseteq R => q \in R
      PROVE  q \in Abreast
  BY <1>p, Least, Zenon DEF Abreast
<1>1. TopRule(Abreast)
  <2> SUFFICES ASSUME NEW t \in Seq(Items), NEW c \in Seq(Items), NEW s \in Statements,
                      <<t, <<>>, c, <<>>>> \in Abreast
               PROVE  <<Of(s, "test") \o t, <<>>, Of(s, "test") \o c, <<>>>> \in Abreast
    BY Zenon DEF TopRule
  <2>1. <<Of(s, "test") \o t, <<>>, Of(s, "test") \o c, <<>>>> \in Points
    BY <1>0, <1>m, PieceFacts DEF Points
  <2>2. ASSUME NEW R \in SUBSET Points, Closed(R), Abreast \subseteq R
        PROVE  <<Of(s, "test") \o t, <<>>, Of(s, "test") \o c, <<>>>> \in R
    BY <2>2, Zenon DEF Closed, TopRule
  <2> QED BY <1>p, <2>1, <2>2, Zenon
<1>2. NestedRule(Abreast)
  <2> SUFFICES ASSUME NEW t \in Seq(Items), NEW c \in Seq(Items), NEW e \in Seq(Above), NEW l \in Seq(Above),
                      NEW s \in Nested, NEW m \in {"block", "plain"},
                      <<t, e, c, l>> \in Abreast
               PROVE  <<Of(s, m) \o t, e, Of(s, "plain") \o c, l>> \in Abreast
    BY Zenon DEF NestedRule
  <2>1. <<Of(s, m) \o t, e, Of(s, "plain") \o c, l>> \in Points
    BY <1>m, PieceFacts DEF Points
  <2>2. ASSUME NEW R \in SUBSET Points, Closed(R), Abreast \subseteq R
        PROVE  <<Of(s, m) \o t, e, Of(s, "plain") \o c, l>> \in R
    BY <2>2, Zenon DEF Closed, NestedRule
  <2> QED BY <1>p, <2>1, <2>2, Zenon
<1>3. PushRule(Abreast)
  <2> SUFFICES ASSUME NEW t \in Seq(Items), NEW c \in Seq(Items), NEW e \in Seq(Above), NEW l \in Seq(Above),
                      <<t, e \o <<EmptyScope>>, c, l \o <<EmptyScope>>>> \in Abreast
               PROVE  <<push \o t, e, push \o c, l>> \in Abreast
    BY Zenon DEF PushRule
  <2>1. <<push \o t, e, push \o c, l>> \in Points
    BY PieceFacts DEF Points
  <2>2. ASSUME NEW R \in SUBSET Points, Closed(R), Abreast \subseteq R
        PROVE  <<push \o t, e, push \o c, l>> \in R
    BY <2>2, Zenon DEF Closed, PushRule
  <2> QED BY <1>p, <2>1, <2>2, Zenon
<1>4. PopRule(Abreast)
  <2> SUFFICES ASSUME NEW t \in Seq(Items), NEW c \in Seq(Items), NEW e \in Seq(Above), NEW l \in Seq(Above),
                      NEW sc \in Above, <<t, e, c, l>> \in Abreast
               PROVE  <<pop \o t, e \o <<sc>>, pop \o c, l \o <<sc>>>> \in Abreast
    BY Zenon DEF PopRule
  <2>1. <<pop \o t, e \o <<sc>>, pop \o c, l \o <<sc>>>> \in Points
    BY PieceFacts, ScopesOver DEF Points
  <2>2. ASSUME NEW R \in SUBSET Points, Closed(R), Abreast \subseteq R
        PROVE  <<pop \o t, e \o <<sc>>, pop \o c, l \o <<sc>>>> \in R
    BY <2>2, Zenon DEF Closed, PopRule
  <2> QED BY <1>p, <2>1, <2>2, Zenon
<1>5. ArmPushRule(Abreast)
  <2> SUFFICES ASSUME NEW t \in Seq(Items), NEW c \in Seq(Items), NEW e \in Seq(Above), NEW l \in Seq(Above),
                      <<t, e \o <<EmptyScope>>, c, l>> \in Abreast
               PROVE  <<push \o t, e, c, l>> \in Abreast
    BY Zenon DEF ArmPushRule
  <2>1. <<push \o t, e, c, l>> \in Points
    BY PieceFacts DEF Points
  <2>2. ASSUME NEW R \in SUBSET Points, Closed(R), Abreast \subseteq R
        PROVE  <<push \o t, e, c, l>> \in R
    BY <2>2, Zenon DEF Closed, ArmPushRule
  <2> QED BY <1>p, <2>1, <2>2, Zenon
<1>6. ArmPopRule(Abreast)
  <2> SUFFICES ASSUME NEW t \in Seq(Items), NEW c \in Seq(Items), NEW e \in Seq(Above), NEW l \in Seq(Above),
                      <<t, e, c, l>> \in Abreast
               PROVE  <<pop \o t, e \o <<EmptyScope>>, c, l>> \in Abreast
    BY Zenon DEF ArmPopRule
  <2>1. <<pop \o t, e \o <<EmptyScope>>, c, l>> \in Points
    BY <1>0, PieceFacts, ScopesOver DEF Points
  <2>2. ASSUME NEW R \in SUBSET Points, Closed(R), Abreast \subseteq R
        PROVE  <<pop \o t, e \o <<EmptyScope>>, c, l>> \in R
    BY <2>2, Zenon DEF Closed, ArmPopRule
  <2> QED BY <1>p, <2>1, <2>2, Zenon
<1>7. LoopPushRule(Abreast)
  <2> SUFFICES ASSUME NEW t \in Seq(Items), NEW c \in Seq(Items), NEW e \in Seq(Above), NEW l \in Seq(Above),
                      <<t, e, c, l \o <<EmptyScope>>>> \in Abreast
               PROVE  <<t, e, push \o c, l>> \in Abreast
    BY Zenon DEF LoopPushRule
  <2>1. <<t, e, push \o c, l>> \in Points
    BY PieceFacts DEF Points
  <2>2. ASSUME NEW R \in SUBSET Points, Closed(R), Abreast \subseteq R
        PROVE  <<t, e, push \o c, l>> \in R
    BY <2>2, Zenon DEF Closed, LoopPushRule
  <2> QED BY <1>p, <2>1, <2>2, Zenon
<1>8. LoopPopRule(Abreast)
  <2> SUFFICES ASSUME NEW t \in Seq(Items), NEW c \in Seq(Items), NEW e \in Seq(Above), NEW l \in Seq(Above),
                      <<t, e, c, l>> \in Abreast
               PROVE  <<t, e, pop \o c, l \o <<EmptyScope>>>> \in Abreast
    BY Zenon DEF LoopPopRule
  <2>1. <<t, e, pop \o c, l \o <<EmptyScope>>>> \in Points
    BY <1>0, PieceFacts, ScopesOver DEF Points
  <2>2. ASSUME NEW R \in SUBSET Points, Closed(R), Abreast \subseteq R
        PROVE  <<t, e, pop \o c, l \o <<EmptyScope>>>> \in R
    BY <2>2, Zenon DEF Closed, LoopPopRule
  <2> QED BY <1>p, <2>1, <2>2, Zenon
<1>9. ItemRule(Abreast)
  <2> SUFFICES \A t, c \in Seq(Items), e, l \in Seq(Above), sc \in Above, n \in Local, v \in Val :
                 /\ Alike(e, l)
                 /\ <<t, e \o <<Bind(sc, n, v)>>, c, l \o <<Bind(sc, n, v)>>>> \in Abreast
                 => <<ItemAt(n, v) \o t, e \o <<sc>>, ItemAt(n, v) \o c, l \o <<sc>>>> \in Abreast
    BY Zenon DEF ItemRule
  <2> TAKE t, c \in Seq(Items), e, l \in Seq(Above), sc \in Above, n \in Local, v \in Val
  <2> HAVE /\ Alike(e, l)
                 /\ <<t, e \o <<Bind(sc, n, v)>>, c, l \o <<Bind(sc, n, v)>>>> \in Abreast
  <2>0. /\ ItemAt(n, v) \o t \in Seq(Items) /\ ItemAt(n, v) \o c \in Seq(Items)
        /\ e \o <<sc>> \in Seq(Above) /\ l \o <<sc>> \in Seq(Above)
    BY PieceFacts, ScopesOver, Zenon
  <2>1. <<ItemAt(n, v) \o t, e \o <<sc>>, ItemAt(n, v) \o c, l \o <<sc>>>> \in Points
    BY <2>0, PointOf, Zenon
  <2>2. ASSUME NEW R \in SUBSET Points, Closed(R), Abreast \subseteq R
        PROVE  <<ItemAt(n, v) \o t, e \o <<sc>>, ItemAt(n, v) \o c, l \o <<sc>>>> \in R
    BY <2>2, Zenon DEF Closed, ItemRule
  <2> QED BY <1>p, <2>1, <2>2, Zenon
<1>10. TurnRule(Abreast)
  <2> SUFFICES \A t, c \in Seq(Items), e, l \in Seq(Above), sc \in Above, n \in Local, v \in Val :
                 /\ Alike(e, l)
                 /\ Bind(sc, n, v) = Bind(EmptyScope, n, v)
                 /\ <<t, e \o <<Bind(sc, n, v)>>, c, l \o <<Bind(sc, n, v)>>>> \in Abreast
                 => <<pop \o (push \o (ItemAt(n, v) \o t)), e \o <<sc>>, ItemAt(n, v) \o c, l \o <<sc>>>> \in Abreast
    BY Zenon DEF TurnRule
  <2> TAKE t, c \in Seq(Items), e, l \in Seq(Above), sc \in Above, n \in Local, v \in Val
  <2> HAVE /\ Alike(e, l)
                 /\ Bind(sc, n, v) = Bind(EmptyScope, n, v)
                 /\ <<t, e \o <<Bind(sc, n, v)>>, c, l \o <<Bind(sc, n, v)>>>> \in Abreast
  <2>0. /\ ItemAt(n, v) \o t \in Seq(Items) /\ ItemAt(n, v) \o c \in Seq(Items)
        /\ e \o <<sc>> \in Seq(Above) /\ l \o <<sc>> \in Seq(Above)
    BY PieceFacts, ScopesOver, Zenon
  <2>p. pop \o (push \o (ItemAt(n, v) \o t)) \in Seq(Items)
    <3>1. push \o (ItemAt(n, v) \o t) \in Seq(Items)
      BY <2>0, PieceFacts, Zenon
    <3> QED BY <3>1, PieceFacts, Zenon
  <2>1. <<pop \o (push \o (ItemAt(n, v) \o t)), e \o <<sc>>, ItemAt(n, v) \o c, l \o <<sc>>>> \in Points
    BY <2>0, <2>p, PointOf, Zenon
  <2>2. ASSUME NEW R \in SUBSET Points, Closed(R), Abreast \subseteq R
        PROVE  <<pop \o (push \o (ItemAt(n, v) \o t)), e \o <<sc>>, ItemAt(n, v) \o c, l \o <<sc>>>> \in R
    BY <2>2, Zenon DEF Closed, TurnRule
  <2> QED BY <1>p, <2>1, <2>2, Zenon
<1> QED BY <1>e, <1>1, <1>2, <1>3, <1>4, <1>5, <1>6, <1>7, <1>8, <1>9, <1>10, Zenon DEF Closed

\* A scope on top of both, or an empty one on top of either, keeps them alike.
LEMMA AlikeOver ==
  ASSUME NEW e \in Seq(Above), NEW l \in Seq(Above), NEW sc \in Above
  PROVE  /\ Alike(e, l) => Alike(e \o <<sc>>, l \o <<sc>>)
         /\ Alike(e \o <<EmptyScope>>, l) <=> Alike(e, l)
         /\ Alike(e, l \o <<EmptyScope>>) <=> Alike(e, l)
<1>1. /\ e \in Seq(Scope) /\ l \in Seq(Scope) /\ Local \subseteq Name
      /\ EmptyScope \in Above /\ \A n \in Name : EmptyScope[n] = Unbound
  BY AboveFacts
<1>2. ASSUME NEW x \in Above PROVE x \in Scope /\ <<x>> \in Seq(Scope)
  BY <1>2 DEF Above
<1>3. ASSUME NEW b \in Seq(Scope), NEW x \in Above, NEW n \in Local
      PROVE  Lookup(b \o <<x>>, n) = IF x[n] # Unbound THEN x[n] ELSE Lookup(b, n)
  <2>1. x \in Scope /\ <<x>> \in Seq(Scope) /\ n \in Name
    BY <1>1, <1>2
  <2>2. Lookup(b \o <<x>>, n) = IF IsBound(<<x>>, n) THEN Lookup(<<x>>, n) ELSE Lookup(b, n)
    BY <2>1, LookupOver, Zenon
  <2>3. Lookup(<<x>>, n) = x[n] /\ (IsBound(<<x>>, n) <=> x[n] # Unbound)
    BY <2>1, LookupOne, Zenon
  <2> QED BY <2>2, <2>3
<1>4. \A b \in Seq(Scope), n \in Local : Lookup(b \o <<EmptyScope>>, n) = Lookup(b, n)
  BY <1>1, <1>3
<1> QED BY <1>1, <1>3, <1>4 DEF Alike

\* Where two runs that stand abreast can be.
AtEnd(t, e, c, l) == t = <<>> /\ e = <<>> /\ c = <<>> /\ l = <<>>
AtTop(t, e, c, l) ==
  /\ e = <<>> /\ l = <<>>
  /\ \E u, d \in Seq(Items), s \in Statements :
       <<u, e, d, l>> \in Abreast /\ t = Of(s, "test") \o u /\ c = Of(s, "test") \o d
AtNested(t, e, c, l) ==
  \E u, d \in Seq(Items), s \in Nested, m \in {"block", "plain"} :
    <<u, e, d, l>> \in Abreast /\ t = Of(s, m) \o u /\ c = Of(s, "plain") \o d
AtPush(t, e, c, l) ==
  \E u, d \in Seq(Items) :
    /\ <<u, e \o <<EmptyScope>>, d, l \o <<EmptyScope>>>> \in Abreast
    /\ t = push \o u /\ c = push \o d
AtPop(t, e, c, l) ==
  \E u, d \in Seq(Items), f, k \in Seq(Above), sc \in Above :
    /\ <<u, f, d, k>> \in Abreast
    /\ t = pop \o u /\ c = pop \o d /\ e = f \o <<sc>> /\ l = k \o <<sc>>
AtArmPush(t, e, c, l) ==
  \E u \in Seq(Items) : <<u, e \o <<EmptyScope>>, c, l>> \in Abreast /\ t = push \o u
AtArmPop(t, e, c, l) ==
  \E u \in Seq(Items), f \in Seq(Above) :
    <<u, f, c, l>> \in Abreast /\ t = pop \o u /\ e = f \o <<EmptyScope>>
AtLoopPush(t, e, c, l) ==
  \E d \in Seq(Items) : <<t, e, d, l \o <<EmptyScope>>>> \in Abreast /\ c = push \o d
AtLoopPop(t, e, c, l) ==
  \E d \in Seq(Items), k \in Seq(Above) :
    <<t, e, d, k>> \in Abreast /\ c = pop \o d /\ l = k \o <<EmptyScope>>
AtItem(t, e, c, l) ==
  \E u, d \in Seq(Items), f, k \in Seq(Above), sc \in Above, n \in Local, v \in Val :
    /\ <<u, f \o <<Bind(sc, n, v)>>, d, k \o <<Bind(sc, n, v)>>>> \in Abreast
    /\ t = ItemAt(n, v) \o u /\ c = ItemAt(n, v) \o d /\ e = f \o <<sc>> /\ l = k \o <<sc>>
AtTurn(t, e, c, l) ==
  \E u, d \in Seq(Items), f, k \in Seq(Above), sc \in Above, n \in Local, v \in Val :
    /\ Bind(sc, n, v) = Bind(EmptyScope, n, v)
    /\ <<u, f \o <<Bind(sc, n, v)>>, d, k \o <<Bind(sc, n, v)>>>> \in Abreast
    /\ t = pop \o (push \o (ItemAt(n, v) \o u)) /\ c = ItemAt(n, v) \o d
    /\ e = f \o <<sc>> /\ l = k \o <<sc>>

Somewhere(t, e, c, l) ==
  \/ AtEnd(t, e, c, l) \/ AtTop(t, e, c, l) \/ AtNested(t, e, c, l)
  \/ AtPush(t, e, c, l) \/ AtPop(t, e, c, l)
  \/ AtArmPush(t, e, c, l) \/ AtArmPop(t, e, c, l)
  \/ AtLoopPush(t, e, c, l) \/ AtLoopPop(t, e, c, l)
  \/ AtItem(t, e, c, l) \/ AtTurn(t, e, c, l)

\* Two runs that stand abreast see the same, and stand as one of the rules
\* says.
LEMMA AbreastFacts ==
  ASSUME NEW t, NEW e, NEW c, NEW l, <<t, e, c, l>> \in Abreast
  PROVE  /\ t \in Seq(Items) /\ c \in Seq(Items) /\ e \in Seq(Above) /\ l \in Seq(Above)
         /\ Alike(e, l) /\ Somewhere(t, e, c, l)
<1> DEFINE S == {q \in Abreast : Alike(q[2], q[4]) /\ Somewhere(q[1], q[2], q[3], q[4])}
<1>1. S \subseteq Abreast /\ Abreast \subseteq Points
  BY DEF Abreast
<1>2. \A t1, e1, c1, l1 :
        <<t1, e1, c1, l1>> \in S <=> /\ <<t1, e1, c1, l1>> \in Abreast
                                     /\ Alike(e1, l1) /\ Somewhere(t1, e1, c1, l1)
  OBVIOUS
<1> HIDE DEF S
<1>3. EmptyScope \in Above
  BY AboveFacts
<1>e. <<<<>>, <<>>, <<>>, <<>>>> \in S
  <2>1. <<<<>>, <<>>, <<>>, <<>>>> \in Abreast
    BY AbreastClosed DEF Closed
  <2>2. Alike(<<>>, <<>>) /\ Somewhere(<<>>, <<>>, <<>>, <<>>)
    BY DEF Alike, Somewhere, AtEnd
  <2> QED BY <1>2, <2>1, <2>2
<1>4. TopRule(S)
  <2> SUFFICES ASSUME NEW u \in Seq(Items), NEW d \in Seq(Items), NEW s \in Statements,
                      <<u, <<>>, d, <<>>>> \in S
               PROVE  <<Of(s, "test") \o u, <<>>, Of(s, "test") \o d, <<>>>> \in S
    BY Zenon DEF TopRule
  <2>1. <<Of(s, "test") \o u, <<>>, Of(s, "test") \o d, <<>>>> \in Abreast
    BY <1>1, AbreastClosed, Zenon DEF Closed, TopRule
  <2>2. AtTop(Of(s, "test") \o u, <<>>, Of(s, "test") \o d, <<>>)
    BY <1>1, Zenon DEF AtTop
  <2> QED BY <1>2, <2>1, <2>2, Zenon DEF Somewhere
<1>5. NestedRule(S)
  <2> SUFFICES ASSUME NEW u \in Seq(Items), NEW d \in Seq(Items), NEW f \in Seq(Above), NEW k \in Seq(Above),
                      NEW s \in Nested, NEW m \in {"block", "plain"}, <<u, f, d, k>> \in S
               PROVE  <<Of(s, m) \o u, f, Of(s, "plain") \o d, k>> \in S
    BY Zenon DEF NestedRule
  <2>1. <<Of(s, m) \o u, f, Of(s, "plain") \o d, k>> \in Abreast
    BY <1>1, AbreastClosed, Zenon DEF Closed, NestedRule
  <2>2. AtNested(Of(s, m) \o u, f, Of(s, "plain") \o d, k)
    BY <1>1, Zenon DEF AtNested
  <2> QED BY <1>2, <2>1, <2>2, Zenon DEF Somewhere
<1>6. PushRule(S)
  <2> SUFFICES ASSUME NEW u \in Seq(Items), NEW d \in Seq(Items), NEW f \in Seq(Above), NEW k \in Seq(Above),
                      <<u, f \o <<EmptyScope>>, d, k \o <<EmptyScope>>>> \in S
               PROVE  <<push \o u, f, push \o d, k>> \in S
    BY Zenon DEF PushRule
  <2>1. <<push \o u, f, push \o d, k>> \in Abreast
    BY <1>1, AbreastClosed, Zenon DEF Closed, PushRule
  <2>2. AtPush(push \o u, f, push \o d, k)
    BY <1>1, Zenon DEF AtPush
  <2>3. Alike(f, k)
    BY <1>2, <1>3, AlikeOver, ScopesOver
  <2> QED BY <1>2, <2>1, <2>2, <2>3, Zenon DEF Somewhere
<1>7. PopRule(S)
  <2> SUFFICES ASSUME NEW u \in Seq(Items), NEW d \in Seq(Items), NEW f \in Seq(Above), NEW k \in Seq(Above),
                      NEW sc \in Above, <<u, f, d, k>> \in S
               PROVE  <<pop \o u, f \o <<sc>>, pop \o d, k \o <<sc>>>> \in S
    BY Zenon DEF PopRule
  <2>1. <<pop \o u, f \o <<sc>>, pop \o d, k \o <<sc>>>> \in Abreast
    BY <1>1, AbreastClosed, Zenon DEF Closed, PopRule
  <2>2. AtPop(pop \o u, f \o <<sc>>, pop \o d, k \o <<sc>>)
    BY <1>1, Zenon DEF AtPop
  <2>3. Alike(f \o <<sc>>, k \o <<sc>>)
    BY <1>2, AlikeOver
  <2> QED BY <1>2, <2>1, <2>2, <2>3, Zenon DEF Somewhere
<1>8. ArmPushRule(S)
  <2> SUFFICES ASSUME NEW u \in Seq(Items), NEW d \in Seq(Items), NEW f \in Seq(Above), NEW k \in Seq(Above),
                      <<u, f \o <<EmptyScope>>, d, k>> \in S
               PROVE  <<push \o u, f, d, k>> \in S
    BY Zenon DEF ArmPushRule
  <2>1. <<push \o u, f, d, k>> \in Abreast
    BY <1>1, AbreastClosed, Zenon DEF Closed, ArmPushRule
  <2>2. AtArmPush(push \o u, f, d, k)
    BY <1>1, Zenon DEF AtArmPush
  <2>3. Alike(f, k)
    BY <1>2, <1>3, AlikeOver
  <2> QED BY <1>2, <2>1, <2>2, <2>3, Zenon DEF Somewhere
<1>9. ArmPopRule(S)
  <2> SUFFICES ASSUME NEW u \in Seq(Items), NEW d \in Seq(Items), NEW f \in Seq(Above), NEW k \in Seq(Above),
                      <<u, f, d, k>> \in S
               PROVE  <<pop \o u, f \o <<EmptyScope>>, d, k>> \in S
    BY Zenon DEF ArmPopRule
  <2>1. <<pop \o u, f \o <<EmptyScope>>, d, k>> \in Abreast
    BY <1>1, AbreastClosed, Zenon DEF Closed, ArmPopRule
  <2>2. AtArmPop(pop \o u, f \o <<EmptyScope>>, d, k)
    BY <1>1, Zenon DEF AtArmPop
  <2>3. Alike(f \o <<EmptyScope>>, k)
    BY <1>2, <1>3, AlikeOver
  <2> QED BY <1>2, <2>1, <2>2, <2>3, Zenon DEF Somewhere
<1>10. LoopPushRule(S)
  <2> SUFFICES ASSUME NEW u \in Seq(Items), NEW d \in Seq(Items), NEW f \in Seq(Above), NEW k \in Seq(Above),
                      <<u, f, d, k \o <<EmptyScope>>>> \in S
               PROVE  <<u, f, push \o d, k>> \in S
    BY Zenon DEF LoopPushRule
  <2>1. <<u, f, push \o d, k>> \in Abreast
    BY <1>1, AbreastClosed, Zenon DEF Closed, LoopPushRule
  <2>2. AtLoopPush(u, f, push \o d, k)
    BY <1>1, Zenon DEF AtLoopPush
  <2>3. Alike(f, k)
    BY <1>2, <1>3, AlikeOver
  <2> QED BY <1>2, <2>1, <2>2, <2>3, Zenon DEF Somewhere
<1>11. LoopPopRule(S)
  <2> SUFFICES ASSUME NEW u \in Seq(Items), NEW d \in Seq(Items), NEW f \in Seq(Above), NEW k \in Seq(Above),
                      <<u, f, d, k>> \in S
               PROVE  <<u, f, pop \o d, k \o <<EmptyScope>>>> \in S
    BY Zenon DEF LoopPopRule
  <2>1. <<u, f, pop \o d, k \o <<EmptyScope>>>> \in Abreast
    BY <1>1, AbreastClosed, Zenon DEF Closed, LoopPopRule
  <2>2. AtLoopPop(u, f, pop \o d, k \o <<EmptyScope>>)
    BY <1>1, Zenon DEF AtLoopPop
  <2>3. Alike(f, k \o <<EmptyScope>>)
    BY <1>2, <1>3, AlikeOver
  <2> QED BY <1>2, <2>1, <2>2, <2>3, Zenon DEF Somewhere
<1>12. ItemRule(S)
  <2> SUFFICES \A u, d \in Seq(Items), f, k \in Seq(Above), sc \in Above, n \in Local, v \in Val :
                 /\ Alike(f, k)
                 /\ <<u, f \o <<Bind(sc, n, v)>>, d, k \o <<Bind(sc, n, v)>>>> \in S
                 => <<ItemAt(n, v) \o u, f \o <<sc>>, ItemAt(n, v) \o d, k \o <<sc>>>> \in S
    BY Zenon DEF ItemRule
  <2> TAKE u, d \in Seq(Items), f, k \in Seq(Above), sc \in Above, n \in Local, v \in Val
  <2> HAVE /\ Alike(f, k)
                 /\ <<u, f \o <<Bind(sc, n, v)>>, d, k \o <<Bind(sc, n, v)>>>> \in S
  <2>1. <<ItemAt(n, v) \o u, f \o <<sc>>, ItemAt(n, v) \o d, k \o <<sc>>>> \in Abreast
    BY <1>1, AbreastClosed, Zenon DEF Closed, ItemRule
  <2>2. AtItem(ItemAt(n, v) \o u, f \o <<sc>>, ItemAt(n, v) \o d, k \o <<sc>>)
    BY <1>1, Zenon DEF AtItem
  <2>3. Alike(f \o <<sc>>, k \o <<sc>>)
    BY AlikeOver
  <2> QED BY <1>2, <2>1, <2>2, <2>3, Zenon DEF Somewhere
<1>13. TurnRule(S)
  <2> SUFFICES \A u, d \in Seq(Items), f, k \in Seq(Above), sc \in Above, n \in Local, v \in Val :
                 /\ Alike(f, k)
                 /\ Bind(sc, n, v) = Bind(EmptyScope, n, v)
                 /\ <<u, f \o <<Bind(sc, n, v)>>, d, k \o <<Bind(sc, n, v)>>>> \in S
                 => <<pop \o (push \o (ItemAt(n, v) \o u)), f \o <<sc>>, ItemAt(n, v) \o d, k \o <<sc>>>> \in S
    BY Zenon DEF TurnRule
  <2> TAKE u, d \in Seq(Items), f, k \in Seq(Above), sc \in Above, n \in Local, v \in Val
  <2> HAVE /\ Alike(f, k)
                 /\ Bind(sc, n, v) = Bind(EmptyScope, n, v)
                 /\ <<u, f \o <<Bind(sc, n, v)>>, d, k \o <<Bind(sc, n, v)>>>> \in S
  <2>1. <<pop \o (push \o (ItemAt(n, v) \o u)), f \o <<sc>>, ItemAt(n, v) \o d, k \o <<sc>>>> \in Abreast
    BY <1>1, AbreastClosed, Zenon DEF Closed, TurnRule
  <2>2. AtTurn(pop \o (push \o (ItemAt(n, v) \o u)), f \o <<sc>>, ItemAt(n, v) \o d, k \o <<sc>>)
    BY <1>1, Zenon DEF AtTurn
  <2>3. Alike(f \o <<sc>>, k \o <<sc>>)
    BY AlikeOver
  <2> QED BY <1>2, <2>1, <2>2, <2>3, Zenon DEF Somewhere
<1>14. Closed(S)
  BY <1>e, <1>4, <1>5, <1>6, <1>7, <1>8, <1>9, <1>10, <1>11, <1>12, <1>13, Zenon DEF Closed
<1>15. <<t, e, c, l>> \in S
  <2>1. S \in SUBSET Points
    BY <1>1
  <2> QED BY <1>14, <2>1, Least
<1>16. <<t, e, c, l>> \in Points
  BY <1>1
<1> QED BY <1>2, <1>15, <1>16 DEF Points

Prefix(body, k) == [i \in 1..k |-> body[i]]

\* The positions of a sequence.
LEMMA Positions ==
  ASSUME NEW n \in Nat
  PROVE  /\ n >= 1 => 1 \in 1..n /\ n \in 1..n
         /\ \A k \in 1..n : k < n => k + 1 \in 1..n
OBVIOUS

\* Concatenation of items is associative.
Cat2(a, b, r) == (a \o b) \o r = a \o (b \o r)
Cat3(a, b, c, r) == ((a \o b) \o c) \o r = a \o (b \o (c \o r))
Cat4(a, b, c, d, r) == (((a \o b) \o c) \o d) \o r = a \o (b \o (c \o (d \o r)))

\* ... two, three and four of them.
LEMMA Concat2 ==
  ASSUME NEW a \in Seq(Items), NEW b \in Seq(Items)
  PROVE  a \o b \in Seq(Items) /\ \A r \in Seq(Items) : Cat2(a, b, r)
BY ConcatProperties, ConcatAssociative DEF Cat2

LEMMA Concat3 ==
  ASSUME NEW a \in Seq(Items), NEW b \in Seq(Items), NEW c \in Seq(Items)
  PROVE  (a \o b) \o c \in Seq(Items) /\ \A r \in Seq(Items) : Cat3(a, b, c, r)
<1>1. a \o b \in Seq(Items) /\ (a \o b) \o c \in Seq(Items)
  BY Concat2, Zenon
<1>2. ASSUME NEW r \in Seq(Items) PROVE Cat3(a, b, c, r)
  <2>1. c \o r \in Seq(Items)
    BY Concat2, Zenon
  <2>2. Cat2(a \o b, c, r) /\ Cat2(a, b, c \o r)
    BY <1>1, <2>1, Concat2, Zenon
  <2> QED BY <2>2, Zenon DEF Cat2, Cat3
<1> QED BY <1>1, <1>2

LEMMA Concat4 ==
  ASSUME NEW a \in Seq(Items), NEW b \in Seq(Items), NEW c \in Seq(Items), NEW d \in Seq(Items)
  PROVE  /\ ((a \o b) \o c) \o d \in Seq(Items)
         /\ \A r \in Seq(Items) : Cat4(a, b, c, d, r)
<1>1. (a \o b) \o c \in Seq(Items) /\ ((a \o b) \o c) \o d \in Seq(Items)
  BY Concat2, Concat3, Zenon
<1>2. ASSUME NEW r \in Seq(Items) PROVE Cat4(a, b, c, d, r)
  <2>1. d \o r \in Seq(Items)
    BY Concat2, Zenon
  <2>2. Cat2((a \o b) \o c, d, r) /\ Cat3(a, b, c, d \o r)
    BY <1>1, <2>1, Concat2, Concat3, Zenon
  <2> QED BY <2>2, Zenon DEF Cat2, Cat3, Cat4
<1> QED BY <1>1, <1>2

\* The statements of a body, one more at a time.
LEMMA InPrefix ==
  ASSUME NEW body \in Seq(Statements), NEW m \in Modes, NEW k \in 1..Len(body)
  PROVE  /\ In(m, Prefix(body, k)) \in Seq(Items)
         /\ In(m, Prefix(body, 1)) = Of(body[1], m)
         /\ k < Len(body) =>
              In(m, Prefix(body, k + 1)) = In(m, Prefix(body, k)) \o Of(body[k + 1], m)
         /\ Prefix(body, Len(body)) = body
<1>0. Len(body) \in Nat /\ DOMAIN body = 1..Len(body) /\ k \in Nat /\ k >= 1
  BY LenProperties
<1> DEFINE x(i) == [stmt |-> body[i], mode |-> m]
<1>1. \A i \in 1..Len(body) : x(i) \in Items
  BY ElementOfSeq, PieceTypes
<1> HIDE DEF x
<1>2. \A j \in Nat : In(m, Prefix(body, j)) = [i \in 1..j |-> x(i)]
  <2> TAKE j \in Nat
  <2>1. DOMAIN Prefix(body, j) = 1..j
    BY DEF Prefix
  <2>2. In(m, Prefix(body, j)) = [i \in 1..j |-> [stmt |-> Prefix(body, j)[i], mode |-> m]]
    BY <2>1, Zenon DEF In
  <2>3. \A i \in 1..j : [stmt |-> Prefix(body, j)[i], mode |-> m] = x(i)
    BY DEF Prefix, x
  <2> QED BY <2>2, <2>3
<1>3. \A j \in 1..Len(body) : [i \in 1..j |-> x(i)] \in Seq(Items)
  BY <1>0, <1>1
<1>4. [i \in 1..1 |-> x(i)] = <<x(1)>>
  OBVIOUS
<1>5. ASSUME k < Len(body)
      PROVE  [i \in 1..(k + 1) |-> x(i)] = [i \in 1..k |-> x(i)] \o <<x(k + 1)>>
  <2> DEFINE p == [i \in 1..k |-> x(i)]
             q == [i \in 1..(k + 1) |-> x(i)]
  <2>1. k + 1 \in 1..Len(body) /\ x(k + 1) \in Items /\ p \in Seq(Items) /\ q \in Seq(Items)
        /\ Len(p) = k /\ Len(q) = k + 1
        /\ (\A i \in 1..k : p[i] = x(i)) /\ \A i \in 1..(k + 1) : q[i] = x(i)
    BY <1>0, <1>1, <1>3, <1>5
  <2> HIDE DEF p, q
  <2>2. /\ p \o <<x(k + 1)>> \in Seq(Items) /\ Len(p \o <<x(k + 1)>>) = k + 1
        /\ \A i \in 1..(k + 1) : (p \o <<x(k + 1)>>)[i] = x(i)
    <3>1. <<x(k + 1)>> \in Seq(Items) /\ Len(<<x(k + 1)>>) = 1 /\ <<x(k + 1)>>[1] = x(k + 1)
      BY <2>1
    <3>2. /\ p \o <<x(k + 1)>> \in Seq(Items) /\ Len(p \o <<x(k + 1)>>) = k + 1
          /\ \A i \in 1..(k + 1) :
               (p \o <<x(k + 1)>>)[i] = IF i <= k THEN p[i] ELSE <<x(k + 1)>>[i - k]
      BY <2>1, <3>1, ConcatProperties
    <3>3. \A i \in 1..(k + 1) : (i <= k /\ i \in 1..k) \/ (~(i <= k) /\ i = k + 1 /\ i - k = 1)
      BY <1>0
    <3> QED BY <2>1, <3>1, <3>2, <3>3
  <2>3. q = p \o <<x(k + 1)>>
    BY <2>1, <2>2, SeqEqual
  <2> QED BY <2>3 DEF p, q
<1>6. Prefix(body, Len(body)) = body
  BY <1>0 DEF Prefix
<1>7. Of(body[1], m) = <<x(1)>> /\ Of(body[k + 1], m) = <<x(k + 1)>>
  BY DEF Of, x
<1>8. k + 1 \in Nat /\ 1 \in Nat
  BY <1>0
<1> QED BY <1>0, <1>2, <1>3, <1>4, <1>5, <1>6, <1>7, <1>8

\* Of no statements there is nothing to execute.
LEMMA InEmpty == \A m : In(m, <<>>) = <<>>
BY DEF In

\* Statements in the same mode, or in a construct.
LEMMA InAbreast ==
  ASSUME NEW body \in Seq(Statements), NEW m \in Modes, NEW r \in Modes,
         NEW t, NEW e, NEW c, NEW l, <<t, e, c, l>> \in Abreast,
         \/ m = "test" /\ r = "test" /\ e = <<>> /\ l = <<>>
         \/ m \in {"block", "plain"} /\ r = "plain" /\ \A i \in 1..Len(body) : body[i].kind # "let"
  PROVE  <<In(m, body) \o t, e, In(r, body) \o c, l>> \in Abreast
<1> DEFINE n == Len(body)
<1>0. /\ n \in Nat /\ \A i \in 1..n : body[i] \in Statements
      /\ e \in Seq(Above) /\ l \in Seq(Above) /\ t \in Seq(Items) /\ c \in Seq(Items)
  BY LenProperties, ElementOfSeq, AbreastFacts
<1>1. ASSUME NEW u, NEW d, <<u, e, d, l>> \in Abreast, NEW i \in 1..n
      PROVE  <<Of(body[i], m) \o u, e, Of(body[i], r) \o d, l>> \in Abreast
  <2>1. u \in Seq(Items) /\ d \in Seq(Items)
    BY <1>1, AbreastFacts
  <2>2. CASE m = "test" /\ r = "test" /\ e = <<>> /\ l = <<>>
    BY <1>0, <1>1, <2>1, <2>2, AbreastClosed DEF Closed, TopRule
  <2>3. CASE /\ m \in {"block", "plain"} /\ r = "plain"
             /\ \A j \in 1..Len(body) : body[j].kind # "let"
    <3>1. body[i] \in Nested
      BY <1>0, <2>3 DEF Nested
    <3> QED BY <1>0, <1>1, <2>1, <2>3, <3>1, AbreastClosed DEF Closed, NestedRule
  <2> QED BY <2>2, <2>3
<1>2. CASE body = <<>>
  BY <1>0, <1>2, InEmpty, ConcatEmptySeq
<1>3. CASE body # <<>>
  <2> DEFINE P(k) == In(m, Prefix(body, k))
             Q(k) == In(r, Prefix(body, k))
             S == {k \in 1..n : \A u, d \in Seq(Items) : <<u, e, d, l>> \in Abreast
                     => <<P(k) \o u, e, Q(k) \o d, l>> \in Abreast}
  <2>0. n >= 1
    BY <1>0, <1>3, EmptySeq
  <2>1. 1 \in S
    <3>1. 1 \in 1..n /\ P(1) = Of(body[1], m) /\ Q(1) = Of(body[1], r)
      BY <1>0, <2>0, InPrefix
    <3> HIDE DEF P, Q
    <3> QED BY <1>1, <3>1
  <2>2. ASSUME NEW k \in 1..n, k \in S, k < n PROVE k + 1 \in S
    <3>0. k + 1 \in 1..n
      BY <1>0, <2>2, Positions
    <3>1. /\ k + 1 \in 1..n /\ P(k) \in Seq(Items) /\ Q(k) \in Seq(Items)
          /\ P(k + 1) = P(k) \o Of(body[k + 1], m) /\ Q(k + 1) = Q(k) \o Of(body[k + 1], r)
      BY <2>2, <3>0, InPrefix, Zenon
    <3>2. Of(body[k + 1], m) \in Seq(Items) /\ Of(body[k + 1], r) \in Seq(Items)
      <4>1. body[k + 1] \in Statements
        BY <1>0, <3>1
      <4> QED BY <4>1, PieceTypes DEF Of
    <3> HIDE DEF P, Q
    <3>3. ASSUME NEW u \in Seq(Items), NEW d \in Seq(Items), <<u, e, d, l>> \in Abreast
          PROVE  <<P(k + 1) \o u, e, Q(k + 1) \o d, l>> \in Abreast
      <4> DEFINE v == Of(body[k + 1], m) \o u
                 w == Of(body[k + 1], r) \o d
      <4>1. <<v, e, w, l>> \in Abreast
        BY <1>1, <3>1, <3>3
      <4>2. v \in Seq(Items) /\ w \in Seq(Items)
        BY <3>2, ConcatProperties
      <4>c. Cat2(P(k), Of(body[k + 1], m), u) /\ Cat2(Q(k), Of(body[k + 1], r), d)
        BY <3>1, <3>2, Concat2, Zenon
      <4>3. P(k + 1) \o u = P(k) \o v /\ Q(k + 1) \o d = Q(k) \o w
        BY <3>1, <4>c, Zenon DEF Cat2
      <4> HIDE DEF v, w
      <4>4. <<P(k) \o v, e, Q(k) \o w, l>> \in Abreast
        BY <2>2, <4>1, <4>2
      <4> QED BY <4>3, <4>4
    <3> QED BY <3>1, <3>3
  <2> HIDE DEF S
  <2>3. 1..n \subseteq S
    BY <1>0, <2>0, <2>1, <2>2, Upwards
  <2>4. n \in S
    BY <1>0, <2>0, <2>3, Positions, Zenon
  <2>5. P(n) = In(m, body) /\ Q(n) = In(r, body)
    <3>1. Prefix(body, n) = body
      BY <1>0, <2>0, InPrefix
    <3> QED BY <3>1
  <2> HIDE DEF P, Q, n
  <2>6. <<P(n) \o t, e, Q(n) \o c, l>> \in Abreast
    BY <1>0, <2>4 DEF S
  <2> QED BY <2>5, <2>6
<1> QED BY <1>2, <1>3

\* FlattenSeq as the concatenations it builds, one part at a time.
Parts(g, n) == g \in [1..n -> Seq(Items)]
Builds(f, g, n) ==
  /\ \A i \in 1..n : f[i] \in Seq(Items)
  /\ f[1] = g[1] /\ FlattenSeq(g) = f[n]
  /\ \A i \in 1..n : i < n => f[i + 1] = f[i] \o g[i + 1]

\* A flattened sequence is built up one part at a time.
LEMMA Unrolled ==
  ASSUME NEW n \in Nat, n >= 1, NEW g, Parts(g, n)
  PROVE  \E f : Builds(f, g, n)
<1>1. g \in Seq(Seq(Items)) /\ Len(g) = n /\ g # <<>>
  <2>1. g \in [1..n -> Seq(Items)]
    BY DEF Parts
  <2>2. g \in Seq(Seq(Items))
    BY <2>1, SeqDef
  <2>3. Len(g) = n
    BY <2>1, <2>2, LenProperties
  <2> QED BY <2>2, <2>3, EmptySeq
<1>2. PICK f : Joined(g, n, f) /\ FlattenSeq(g) = f[n]
  BY <1>1, FlattenIsJoined
<1>3. \A i \in 1..n : f[i] = IF i = 1 THEN g[i] ELSE f[i - 1] \o g[i]
  BY <1>2, Zenon DEF Joined
<1>4. \A i \in 1..n : i < n => i + 1 \in 1..n /\ i + 1 # 1 /\ (i + 1) - 1 = i
  OBVIOUS
<1>5. 1 \in 1..n /\ f[1] = g[1] /\ \A i \in 1..n : i < n => f[i + 1] = f[i] \o g[i + 1]
  <2>1. 1 \in 1..n
    OBVIOUS
  <2>2. f[1] = g[1]
    BY <1>3, <2>1
  <2>3. ASSUME NEW i \in 1..n, i < n PROVE f[i + 1] = f[i] \o g[i + 1]
    BY <1>3, <1>4, <2>3
  <2> QED BY <2>1, <2>2, <2>3
<1> DEFINE S == {i \in 1..n : f[i] \in Seq(Items)}
<1>6. 1 \in S
  BY <1>5 DEF Parts
<1>7. ASSUME NEW m \in 1..n, m \in S, m < n PROVE m + 1 \in S
  <2>1. m + 1 \in 1..n /\ f[m + 1] = f[m] \o g[m + 1] /\ f[m] \in Seq(Items)
    BY <1>4, <1>5, <1>7, Zenon
  <2>p. g[m + 1] \in Seq(Items)
    BY <2>1 DEF Parts
  <2>2. f[m] \o g[m + 1] \in Seq(Items)
    BY <2>1, <2>p, Concat2, Zenon
  <2> QED BY <2>1, <2>2, Zenon
<1> HIDE DEF S
<1>8. 1..n \subseteq S
  BY <1>6, <1>7, Upwards
<1> QED BY <1>2, <1>5, <1>8 DEF S, Builds

\* What a loop is unrolled to: the items, each in the scope of the last one.
LEMMA ItemFacts ==
  ASSUME NEW s \in Statements, s.kind = "for"
  PROVE  /\ s.name \in Name /\ s.items \in Seq(Val) /\ s.body \in Seq(Statements)
         /\ Len(s.items) \in Nat /\ DOMAIN s.items = 1..Len(s.items)
         /\ \A i \in 1..Len(s.items) : s.items[i] \in Val /\ ItemOf(s, i) = ItemAt(s.name, s.items[i])
         /\ \A i \in 1..Len(s.body) : s.body[i].kind # "let"
         /\ \A m \in Modes : In(m, s.body) \in Seq(Items)
         /\ s.name \in Local => \A i \in 1..Len(s.items) : ItemOf(s, i) \in Seq(Items)
<1>1. s.name \in Name /\ s.items \in Seq(Val) /\ s.body \in Seq(Statements)
  BY StatementFacts
<1>2. /\ Len(s.items) \in Nat /\ DOMAIN s.items = 1..Len(s.items) /\ DOMAIN s.body = 1..Len(s.body)
      /\ \A i \in 1..Len(s.items) : s.items[i] \in Val
  BY <1>1, LenProperties, ElementOfSeq
<1>3. \A i \in 1..Len(s.body) : s.body[i].kind # "let"
  BY <1>2, StatementsAssumption
<1>4. \A m \in Modes : In(m, s.body) \in Seq(Items)
  BY <1>1, NeutralIn DEF Neutral
<1>5. \A i \in 1..Len(s.items) : ItemOf(s, i) = ItemAt(s.name, s.items[i])
  BY DEF ItemOf, ItemAt
<1>6. ASSUME s.name \in Local, NEW i \in 1..Len(s.items) PROVE ItemOf(s, i) \in Seq(Items)
  <2>1. s.items[i] \in Val
    BY <1>2
  <2>2. [stmt |-> [kind |-> "item", name |-> s.name, value |-> s.items[i]], mode |-> "marker"] \in Items
    BY <1>6, <2>1, PieceTypes, Zenon
  <2>3. ItemAt(s.name, s.items[i]) \in Seq(Items)
    BY <2>2 DEF ItemAt
  <2> QED BY <1>5, <2>3, Zenon
<1> QED BY <1>1, <1>2, <1>3, <1>4, <1>5, <1>6

\* Pushes and pops before the rest.
LEMMA Marks ==
  push \in Seq(Items) /\ pop \in Seq(Items) /\ \A t \in Seq(Items) : push \o t \in Seq(Items) /\ pop \o t \in Seq(Items)
<1>1. push \in Seq(Items) /\ pop \in Seq(Items)
  BY PieceTypes DEF push, pop, Marker
<1> QED BY <1>1, PieceFacts

\* Bound again in one scope, the name has the last value.
LEMMA BindAgain == \A n, v, w : Bind(Bind(EmptyScope, n, v), n, w) = Bind(EmptyScope, n, w)
BY DEF Bind, EmptyScope

\* A turn of a loop, given what comes behind its body.
ScopeOf(s, i) == Bind(EmptyScope, s.name, s.items[i])

\* The scope of an item holds it alone: the next item in its place gives the
\* scope of that one.
LEMMA ScopeOfFacts ==
  ASSUME NEW s \in Statements, s.kind = "for", s.name \in Local, NEW i \in 1..Len(s.items)
  PROVE  /\ ScopeOf(s, i) \in Above
         /\ Bind(EmptyScope, s.name, s.items[i]) = ScopeOf(s, i)
         /\ \A j \in 1..Len(s.items) : Bind(ScopeOf(s, j), s.name, s.items[i]) = ScopeOf(s, i)
<1>1. s.items[i] \in Val /\ EmptyScope \in Above
  BY ItemFacts, AboveFacts
<1>2. ScopeOf(s, i) \in Above
  BY <1>1, BoundAbove DEF ScopeOf
<1>3. \A j \in 1..Len(s.items) : Bind(ScopeOf(s, j), s.name, s.items[i]) = ScopeOf(s, i)
  BY BindAgain, Zenon DEF ScopeOf
<1> QED BY <1>2, <1>3 DEF ScopeOf

\* The same loop in both, in one scope: as in a function, or a loop nested in
\* one.
LEMMA OneScopeAbreast ==
  ASSUME NEW s \in Statements, s.kind = "for", s.name \in Local,
         NEW t, NEW e, NEW c, NEW l, <<t, e, c, l>> \in Abreast
  PROVE  <<OneScope(s, "plain") \o t, e, OneScope(s, "plain") \o c, l>> \in Abreast
<1> DEFINE n == Len(s.items)
           body == In("plain", s.body)
           turn(i) == ItemOf(s, i) \o body
           flat == FlattenSeq([i \in 1..n |-> turn(i)])
<1>0. /\ t \in Seq(Items) /\ c \in Seq(Items) /\ e \in Seq(Above) /\ l \in Seq(Above)
      /\ Alike(e, l)
  BY AbreastFacts
<1>1. /\ n \in Nat /\ "plain" \in Modes /\ body \in Seq(Items)
      /\ \A i \in 1..n : /\ s.items[i] \in Val /\ ItemOf(s, i) = ItemAt(s.name, s.items[i])
                         /\ ItemOf(s, i) \in Seq(Items)
  BY ItemFacts DEF Modes
<1>2. EmptyScope \in Above
  BY AboveFacts
<1>3. OneScope(s, "plain") = push \o flat \o pop
  BY ItemFacts, Zenon DEF OneScope, push, pop
<1> SUFFICES /\ flat \in Seq(Items)
             /\ <<flat \o (pop \o t), e \o <<EmptyScope>>, flat \o (pop \o c), l \o <<EmptyScope>>>> \in Abreast
  <2>1. ASSUME flat \in Seq(Items), NEW u \in Seq(Items)
        PROVE  /\ OneScope(s, "plain") \o u = push \o (flat \o (pop \o u))
               /\ flat \o (pop \o u) \in Seq(Items)
    <3> HIDE DEF flat
    <3>1. push \in Seq(Items) /\ pop \in Seq(Items) /\ pop \o u \in Seq(Items)
      BY <2>1, Marks
    <3>2. Cat3(push, flat, pop, u) /\ flat \o (pop \o u) \in Seq(Items)
      BY <2>1, <3>1, Concat2, Concat3, Zenon
    <3> QED BY <1>3, <3>2, Zenon DEF Cat3
  <2> HIDE DEF flat
  <2>2. ASSUME flat \in Seq(Items),
               <<flat \o (pop \o t), e \o <<EmptyScope>>, flat \o (pop \o c), l \o <<EmptyScope>>>> \in Abreast
        PROVE  <<OneScope(s, "plain") \o t, e, OneScope(s, "plain") \o c, l>> \in Abreast
    BY <1>0, <2>1, <2>2, AbreastClosed DEF Closed, PushRule
  <2> QED BY <2>2
<1>4. CASE n = 0
  <2>1. flat = <<>>
    <3>1. [i \in 1..n |-> turn(i)] = <<>>
      BY <1>4
    <3> QED BY <3>1 DEF FlattenSeq
  <2>2. <<pop \o t, e \o <<EmptyScope>>, pop \o c, l \o <<EmptyScope>>>> \in Abreast
    BY <1>0, <1>2, AbreastClosed DEF Closed, PopRule
  <2>3. /\ <<>> \o (pop \o t) = pop \o t /\ <<>> \o (pop \o c) = pop \o c
        /\ <<>> \in Seq(Items)
    BY <1>0, Marks, ConcatEmptySeq
  <2> HIDE DEF flat
  <2> QED BY <2>1, <2>2, <2>3
<1>5. CASE n >= 1
  <2> DEFINE g == [i \in 1..n |-> turn(i)]
  <2>0. \A i \in 1..n : turn(i) \in Seq(Items)
    BY <1>1, Concat2
  <2>1. g \in [1..n -> Seq(Items)] /\ \A i \in 1..n : g[i] = turn(i) /\ g[i] \in Seq(Items)
    BY <2>0
  <2> HIDE DEF g
  <2>2. PICK f : /\ \A i \in 1..n : f[i] \in Seq(Items)
                 /\ f[1] = g[1] /\ FlattenSeq(g) = f[n]
                 /\ \A i \in 1..n : i < n => f[i + 1] = f[i] \o g[i + 1]
    <3>1. Parts(g, n)
      BY <2>1, Zenon DEF Parts
    <3>2. \E f : Builds(f, g, n)
      BY <1>1, <1>5, <3>1, Unrolled, Zenon
    <3> QED BY <3>2, Zenon DEF Builds
  <2>3. ASSUME NEW u \in Seq(Items), NEW d \in Seq(Items), NEW i \in 1..n, NEW sc \in Above,
               Bind(sc, s.name, s.items[i]) = ScopeOf(s, i),
               <<u, e \o <<ScopeOf(s, i)>>, d, l \o <<ScopeOf(s, i)>>>> \in Abreast
        PROVE  <<turn(i) \o u, e \o <<sc>>, turn(i) \o d, l \o <<sc>>>> \in Abreast
    <3>1. <<body \o u, e \o <<ScopeOf(s, i)>>, body \o d, l \o <<ScopeOf(s, i)>>>> \in Abreast
      BY <1>1, <2>3, InAbreast, ItemFacts
    <3>2. body \o u \in Seq(Items) /\ body \o d \in Seq(Items)
      BY <1>1, Concat2
    <3> DEFINE v == body \o u
               w == body \o d
    <3>c. Cat2(ItemOf(s, i), body, u) /\ Cat2(ItemOf(s, i), body, d)
      BY <1>1, Concat2, Zenon
    <3>3. turn(i) \o u = ItemAt(s.name, s.items[i]) \o v /\ turn(i) \o d = ItemAt(s.name, s.items[i]) \o w
      BY <1>1, <3>c, Zenon DEF Cat2
    <3> HIDE DEF v, w, body, turn
    <3>4. <<ItemAt(s.name, s.items[i]) \o v, e \o <<sc>>, ItemAt(s.name, s.items[i]) \o w, l \o <<sc>>>> \in Abreast
      <4>1. v \in Seq(Items) /\ w \in Seq(Items) /\ s.items[i] \in Val
            /\ <<v, e \o <<Bind(sc, s.name, s.items[i])>>, w, l \o <<Bind(sc, s.name, s.items[i])>>>> \in Abreast
        BY <1>1, <2>3, <3>1, <3>2 DEF v, w
      <4> QED BY <1>0, <4>1, AbreastClosed DEF Closed, ItemRule
    <3> QED BY <3>3, <3>4
  <2> DEFINE S == {k \in 1..n : \A u, d \in Seq(Items) :
                     <<u, e \o <<ScopeOf(s, k)>>, d, l \o <<ScopeOf(s, k)>>>> \in Abreast
                     => <<f[k] \o u, e \o <<EmptyScope>>, f[k] \o d, l \o <<EmptyScope>>>> \in Abreast}
  <2>4. 1 \in S
    <3>0. 1 \in 1..n
      BY <1>1, <1>5, Positions
    <3>1. 1 \in 1..n /\ f[1] = turn(1)
      BY <2>1, <2>2, <3>0, Zenon
    <3>2. Bind(EmptyScope, s.name, s.items[1]) = ScopeOf(s, 1)
      BY DEF ScopeOf
    <3> HIDE DEF turn
    <3> QED BY <1>2, <2>3, <3>1, <3>2
  <2>5. ASSUME NEW k \in 1..n, k \in S, k < n PROVE k + 1 \in S
    <3>0. k + 1 \in 1..n
      BY <1>1, <2>5, Positions
    <3>1. k + 1 \in 1..n /\ f[k + 1] = f[k] \o turn(k + 1) /\ f[k] \in Seq(Items)
      BY <2>1, <2>2, <2>5, <3>0, Zenon
    <3>2. /\ Bind(ScopeOf(s, k), s.name, s.items[k + 1]) = ScopeOf(s, k + 1)
          /\ ScopeOf(s, k) \in Above
      BY <3>1, ScopeOfFacts
    <3>3. turn(k + 1) \in Seq(Items)
      BY <2>0, <3>1
    <3> HIDE DEF turn
    <3>4. ASSUME NEW u \in Seq(Items), NEW d \in Seq(Items),
                 <<u, e \o <<ScopeOf(s, k + 1)>>, d, l \o <<ScopeOf(s, k + 1)>>>> \in Abreast
          PROVE  <<f[k + 1] \o u, e \o <<EmptyScope>>, f[k + 1] \o d, l \o <<EmptyScope>>>> \in Abreast
      <4> DEFINE v == turn(k + 1) \o u
                 w == turn(k + 1) \o d
      <4>1. <<v, e \o <<ScopeOf(s, k)>>, w, l \o <<ScopeOf(s, k)>>>> \in Abreast
        BY <2>3, <3>1, <3>2, <3>4
      <4>c. Cat2(f[k], turn(k + 1), u) /\ Cat2(f[k], turn(k + 1), d)
        BY <3>1, <3>3, Concat2, Zenon
      <4>2. v \in Seq(Items) /\ w \in Seq(Items) /\ f[k + 1] \o u = f[k] \o v /\ f[k + 1] \o d = f[k] \o w
        BY <3>1, <3>3, <4>c, Concat2, Zenon DEF Cat2
      <4> HIDE DEF v, w
      <4> QED BY <2>5, <4>1, <4>2
    <3> QED BY <3>1, <3>4
  <2> HIDE DEF S
  <2>6. 1..n \subseteq S
    BY <1>1, <1>5, <2>4, <2>5, Upwards
  <2>7. n \in S /\ n \in 1..n
    BY <1>1, <1>5, <2>6, Positions, Zenon
  <2>8. <<pop \o t, e \o <<ScopeOf(s, n)>>, pop \o c, l \o <<ScopeOf(s, n)>>>> \in Abreast
    BY <1>0, <2>7, ScopeOfFacts, AbreastClosed DEF Closed, PopRule
  <2>9. flat = f[n]
    BY <2>2 DEF g
  <2>10. flat \in Seq(Items)
    BY <2>2, <2>7, <2>9
  <2> HIDE DEF flat, n
  <2> QED BY <1>0, <2>7, <2>8, <2>9, <2>10, Marks DEF S
<1> QED BY <1>1, <1>4, <1>5

\* The loop of a test: the evaluator's scope for each item, the one scope of
\* the compiled loop.
LEMMA TurnsAbreast ==
  ASSUME NEW s \in Statements, s.kind = "for", s.name \in Local,
         NEW t, NEW e, NEW c, NEW l, <<t, e, c, l>> \in Abreast
  PROVE  <<ScopePerItem(s, "block") \o t, e, OneScope(s, "plain") \o c, l>> \in Abreast
<1> DEFINE n == Len(s.items)
           inner == In("block", s.body)
           body == In("plain", s.body)
           scoped(i) == push \o ItemOf(s, i) \o inner \o pop
           turn(i) == ItemOf(s, i) \o body
           flat == FlattenSeq([i \in 1..n |-> turn(i)])
           deep == FlattenSeq([i \in 1..n |-> scoped(i)])
<1>0. /\ t \in Seq(Items) /\ c \in Seq(Items) /\ e \in Seq(Above) /\ l \in Seq(Above)
      /\ Alike(e, l)
  BY AbreastFacts
<1>1. /\ n \in Nat /\ "plain" \in Modes /\ "block" \in Modes
      /\ body \in Seq(Items) /\ inner \in Seq(Items)
      /\ \A i \in 1..n : /\ s.items[i] \in Val /\ ItemOf(s, i) = ItemAt(s.name, s.items[i])
                         /\ ItemOf(s, i) \in Seq(Items)
  BY ItemFacts DEF Modes
<1>2. EmptyScope \in Above
  BY AboveFacts
<1>3. OneScope(s, "plain") = push \o flat \o pop
  BY ItemFacts, Zenon DEF OneScope, push, pop
<1>4. ScopePerItem(s, "block") = deep
  BY ItemFacts, Zenon DEF ScopePerItem, push, pop
<1> SUFFICES /\ flat \in Seq(Items)
             /\ <<deep \o t, e, push \o (flat \o (pop \o c)), l>> \in Abreast
  <2>1. ASSUME flat \in Seq(Items)
        PROVE  OneScope(s, "plain") \o c = push \o (flat \o (pop \o c))
    <3> HIDE DEF flat
    <3>1. push \in Seq(Items) /\ pop \in Seq(Items) /\ pop \o c \in Seq(Items)
      BY <1>0, Marks
    <3>2. Cat3(push, flat, pop, c)
      BY <1>0, <2>1, <3>1, Concat3, Zenon
    <3> QED BY <1>3, <3>2, Zenon DEF Cat3
  <2> HIDE DEF flat, deep
  <2> QED BY <1>4, <2>1
<1>5. CASE n = 0
  <2>1. flat = <<>> /\ deep = <<>>
    <3>1. [i \in 1..n |-> turn(i)] = <<>> /\ [i \in 1..n |-> scoped(i)] = <<>>
      BY <1>5
    <3> QED BY <3>1 DEF FlattenSeq
  <2>2. <<t, e, pop \o c, l \o <<EmptyScope>>>> \in Abreast
    BY <1>0, AbreastClosed DEF Closed, LoopPopRule
  <2>3. <<t, e, push \o (pop \o c), l>> \in Abreast
    BY <1>0, <2>2, Marks, AbreastClosed DEF Closed, LoopPushRule
  <2>4. /\ <<>> \o t = t /\ <<>> \o (pop \o c) = pop \o c
        /\ <<>> \in Seq(Items)
    BY <1>0, Marks, ConcatEmptySeq
  <2> HIDE DEF flat, deep
  <2> QED BY <2>1, <2>3, <2>4
<1>6. CASE n >= 1
  <2> DEFINE g == [i \in 1..n |-> turn(i)]
             h == [i \in 1..n |-> scoped(i)]
             A(i) == ItemAt(s.name, s.items[i])
  <2>0. ASSUME NEW i \in 1..n
        PROVE  /\ turn(i) \in Seq(Items) /\ scoped(i) \in Seq(Items) /\ A(i) \in Seq(Items)
               /\ \A u \in Seq(Items) :
                    /\ scoped(i) \o u = push \o (A(i) \o (inner \o (pop \o u)))
                    /\ turn(i) \o u = A(i) \o (body \o u)
                    /\ inner \o u \in Seq(Items) /\ body \o u \in Seq(Items)
                    /\ A(i) \o u \in Seq(Items)
    <3>0. A(i) \in Seq(Items) /\ push \in Seq(Items) /\ pop \in Seq(Items) /\ ItemOf(s, i) = A(i)
      BY <1>1, Marks
    <3> HIDE DEF A, inner, body
    <3>2. ((push \o A(i)) \o inner) \o pop \in Seq(Items) /\ A(i) \o body \in Seq(Items)
      BY <1>1, <3>0, Concat2, Concat4, Zenon
    <3>3. ASSUME NEW u \in Seq(Items)
          PROVE  /\ (((push \o A(i)) \o inner) \o pop) \o u = push \o (A(i) \o (inner \o (pop \o u)))
                 /\ (A(i) \o body) \o u = A(i) \o (body \o u)
                 /\ inner \o u \in Seq(Items) /\ body \o u \in Seq(Items)
                 /\ A(i) \o u \in Seq(Items)
      <4>1. Cat4(push, A(i), inner, pop, u) /\ Cat2(A(i), body, u)
        BY <1>1, <3>0, Concat2, Concat4, Zenon
      <4>2. inner \o u \in Seq(Items) /\ body \o u \in Seq(Items) /\ A(i) \o u \in Seq(Items)
        BY <1>1, <3>0, Concat2, Zenon
      <4> QED BY <4>1, <4>2, Zenon DEF Cat2, Cat4
    <3> QED BY <3>0, <3>2, <3>3
  <2>1. /\ g \in [1..n -> Seq(Items)] /\ \A i \in 1..n : g[i] = turn(i) /\ g[i] \in Seq(Items)
        /\ h \in [1..n -> Seq(Items)] /\ \A i \in 1..n : h[i] = scoped(i) /\ h[i] \in Seq(Items)
    BY <2>0
  <2> HIDE DEF g, h
  <2>2. PICK f : /\ \A i \in 1..n : f[i] \in Seq(Items)
                 /\ f[1] = g[1] /\ FlattenSeq(g) = f[n]
                 /\ \A i \in 1..n : i < n => f[i + 1] = f[i] \o g[i + 1]
    <3>1. Parts(g, n)
      BY <2>1, Zenon DEF Parts
    <3>2. \E f : Builds(f, g, n)
      BY <1>1, <1>6, <3>1, Unrolled, Zenon
    <3> QED BY <3>2, Zenon DEF Builds
  <2>3. PICK k : /\ \A i \in 1..n : k[i] \in Seq(Items)
                 /\ k[1] = h[1] /\ FlattenSeq(h) = k[n]
                 /\ \A i \in 1..n : i < n => k[i + 1] = k[i] \o h[i + 1]
    <3>1. Parts(h, n)
      BY <2>1, Zenon DEF Parts
    <3>2. \E k : Builds(k, h, n)
      BY <1>1, <1>6, <3>1, Unrolled, Zenon
    <3> QED BY <3>2, Zenon DEF Builds
  \* The body of a turn, to the pop behind it.
  <2>4. ASSUME NEW u \in Seq(Items), NEW d \in Seq(Items), NEW i \in 1..n,
               <<pop \o u, e \o <<ScopeOf(s, i)>>, d, l \o <<ScopeOf(s, i)>>>> \in Abreast
        PROVE  /\ <<inner \o (pop \o u), e \o <<ScopeOf(s, i)>>, body \o d, l \o <<ScopeOf(s, i)>>>> \in Abreast
               /\ inner \o (pop \o u) \in Seq(Items) /\ body \o d \in Seq(Items)
    <3>1. <<inner \o (pop \o u), e \o <<ScopeOf(s, i)>>, body \o d, l \o <<ScopeOf(s, i)>>>> \in Abreast
      BY <1>1, <2>4, InAbreast, ItemFacts
    <3> QED BY <2>0, <3>1, Marks
  <2> DEFINE S == {i \in 1..n : \A u, d \in Seq(Items) :
                     <<pop \o u, e \o <<ScopeOf(s, i)>>, d, l \o <<ScopeOf(s, i)>>>> \in Abreast
                     => <<k[i] \o u, e, push \o (f[i] \o d), l>> \in Abreast}
  <2>5. 1 \in S
    <3>0. 1 \in 1..n
      BY <1>1, <1>6, Positions
    <3>1. 1 \in 1..n /\ f[1] = turn(1) /\ k[1] = scoped(1)
      BY <2>1, <2>2, <2>3, <3>0, Zenon
    <3>2. Bind(EmptyScope, s.name, s.items[1]) = ScopeOf(s, 1)
      BY DEF ScopeOf
    <3>3. ASSUME NEW u \in Seq(Items), NEW d \in Seq(Items),
                 <<pop \o u, e \o <<ScopeOf(s, 1)>>, d, l \o <<ScopeOf(s, 1)>>>> \in Abreast
          PROVE  <<k[1] \o u, e, push \o (f[1] \o d), l>> \in Abreast
      <4> DEFINE v == inner \o (pop \o u)
                 w == body \o d
      <4>1. /\ <<v, e \o <<ScopeOf(s, 1)>>, w, l \o <<ScopeOf(s, 1)>>>> \in Abreast
            /\ v \in Seq(Items) /\ w \in Seq(Items)
        BY <2>4, <3>1, <3>3
      <4>2. k[1] \o u = push \o (A(1) \o v) /\ f[1] \o d = A(1) \o w
        <5>1. scoped(1) \o u = push \o (A(1) \o v) /\ turn(1) \o d = A(1) \o w
          BY <2>0, <3>1
        <5> QED BY <3>1, <5>1, Zenon
      <4>3. A(1) \o v \in Seq(Items) /\ A(1) \o w \in Seq(Items) /\ s.items[1] \in Val
        BY <1>1, <2>0, <3>1, <4>1
      <4> HIDE DEF v, w
      <4>4. <<A(1) \o v, e \o <<EmptyScope>>, A(1) \o w, l \o <<EmptyScope>>>> \in Abreast
        BY <1>0, <1>2, <3>2, <4>1, <4>3, AbreastClosed DEF Closed, ItemRule
      <4> HIDE DEF A
      <4>5. <<push \o (A(1) \o v), e, push \o (A(1) \o w), l>> \in Abreast
        BY <1>0, <4>3, <4>4, AbreastClosed DEF Closed, PushRule
      <4> QED BY <4>2, <4>5
    <3> QED BY <3>1, <3>3
  <2>6. ASSUME NEW i \in 1..n, i \in S, i < n PROVE i + 1 \in S
    <3>1. /\ i + 1 \in 1..n /\ f[i + 1] = f[i] \o turn(i + 1) /\ f[i] \in Seq(Items)
          /\ k[i + 1] = k[i] \o scoped(i + 1) /\ k[i] \in Seq(Items)
      <4>1. i + 1 \in 1..n
        BY <1>1, <2>6, Positions
      <4>2. f[i + 1] = f[i] \o turn(i + 1) /\ f[i] \in Seq(Items)
        BY <2>1, <2>2, <2>6, <4>1, Zenon
      <4>3. k[i + 1] = k[i] \o scoped(i + 1) /\ k[i] \in Seq(Items)
        BY <2>1, <2>3, <2>6, <4>1, Zenon
      <4> QED BY <4>1, <4>2, <4>3
    <3>2. /\ Bind(ScopeOf(s, i), s.name, s.items[i + 1]) = ScopeOf(s, i + 1)
          /\ Bind(EmptyScope, s.name, s.items[i + 1]) = ScopeOf(s, i + 1)
          /\ ScopeOf(s, i) \in Above
      BY <3>1, ScopeOfFacts
    <3>3. ASSUME NEW u \in Seq(Items), NEW d \in Seq(Items),
                 <<pop \o u, e \o <<ScopeOf(s, i + 1)>>, d, l \o <<ScopeOf(s, i + 1)>>>> \in Abreast
          PROVE  <<k[i + 1] \o u, e, push \o (f[i + 1] \o d), l>> \in Abreast
      <4> DEFINE v == inner \o (pop \o u)
                 w == body \o d
                 x == push \o (A(i + 1) \o v)
                 y == A(i + 1) \o w
      <4>1. /\ <<v, e \o <<ScopeOf(s, i + 1)>>, w, l \o <<ScopeOf(s, i + 1)>>>> \in Abreast
            /\ v \in Seq(Items) /\ w \in Seq(Items)
        BY <2>4, <3>1, <3>3
      <4>2. scoped(i + 1) \o u = x /\ turn(i + 1) \o d = y
            /\ scoped(i + 1) \in Seq(Items) /\ turn(i + 1) \in Seq(Items)
        BY <2>0, <3>1
      <4>3. x \in Seq(Items) /\ y \in Seq(Items) /\ s.items[i + 1] \in Val
        <5>1. A(i + 1) \o v \in Seq(Items) /\ A(i + 1) \o w \in Seq(Items) /\ s.items[i + 1] \in Val
          BY <1>1, <2>0, <3>1, <4>1
        <5> QED BY <5>1, Marks
      <4> HIDE DEF v, w, scoped, turn
      <4>4. <<pop \o x, e \o <<ScopeOf(s, i)>>, y, l \o <<ScopeOf(s, i)>>>> \in Abreast
        <5>1. <<v, e \o <<Bind(ScopeOf(s, i), s.name, s.items[i + 1])>>, w,
                l \o <<Bind(ScopeOf(s, i), s.name, s.items[i + 1])>>>> \in Abreast
          BY <3>2, <4>1
        <5>2. Bind(ScopeOf(s, i), s.name, s.items[i + 1])
                = Bind(EmptyScope, s.name, s.items[i + 1])
          BY <3>2
        <5>3. TurnRule(Abreast)
          BY AbreastClosed DEF Closed
        <5> QED BY <1>0, <3>2, <4>1, <4>3, <5>1, <5>2, <5>3, Zenon DEF TurnRule
      <4> HIDE DEF x, y
      <4>5. <<k[i] \o x, e, push \o (f[i] \o y), l>> \in Abreast
        BY <2>6, <4>3, <4>4
      <4>6. k[i + 1] \o u = k[i] \o x /\ f[i + 1] \o d = f[i] \o y
        <5>1. Cat2(k[i], scoped(i + 1), u) /\ Cat2(f[i], turn(i + 1), d)
          BY <3>1, <4>2, Concat2, Zenon
        <5> QED BY <3>1, <4>2, <5>1, Zenon DEF Cat2
      <4> QED BY <4>5, <4>6
    <3> QED BY <3>1, <3>3
  <2> HIDE DEF S
  <2>7. 1..n \subseteq S
    BY <1>1, <1>6, <2>5, <2>6, Upwards
  <2>8. n \in S /\ n \in 1..n
    BY <1>1, <1>6, <2>7, Positions, Zenon
  <2>9. <<pop \o t, e \o <<ScopeOf(s, n)>>, pop \o c, l \o <<ScopeOf(s, n)>>>> \in Abreast
    BY <1>0, <2>8, ScopeOfFacts, AbreastClosed DEF Closed, PopRule
  <2>10. flat = f[n] /\ deep = k[n] /\ flat \in Seq(Items)
    BY <2>2, <2>3, <2>8 DEF g, h
  <2> HIDE DEF flat, deep, n
  <2> QED BY <1>0, <2>8, <2>9, <2>10, Marks DEF S
<1> QED BY <1>1, <1>5, <1>6

\* The arm of a match, which only the evaluator gives a scope.
LEMMA ArmAbreast ==
  ASSUME NEW s \in Statements, s.kind = "match",
         NEW t, NEW e, NEW c, NEW l, <<t, e, c, l>> \in Abreast
  PROVE  <<(push \o In("plain", s.body) \o pop) \o t, e, In("plain", s.body) \o c, l>> \in Abreast
<1> DEFINE body == In("plain", s.body)
<1>0. t \in Seq(Items) /\ c \in Seq(Items) /\ e \in Seq(Above) /\ l \in Seq(Above)
  BY AbreastFacts
<1>1. /\ s.body \in Seq(Statements) /\ "plain" \in Modes /\ body \in Seq(Items)
      /\ \A i \in 1..Len(s.body) : s.body[i].kind # "let"
  <2>1. s.body \in Seq(Statements) /\ "plain" \in Modes
    BY StatementFacts DEF Modes
  <2>2. DOMAIN s.body = 1..Len(s.body)
    BY <2>1, LenProperties
  <2> QED BY <2>1, <2>2, NeutralIn, StatementsAssumption DEF Neutral
<1>2. <<pop \o t, e \o <<EmptyScope>>, c, l>> \in Abreast
  BY <1>0, AbreastClosed DEF Closed, ArmPopRule
<1>3. <<body \o (pop \o t), e \o <<EmptyScope>>, body \o c, l>> \in Abreast
  BY <1>1, <1>2, InAbreast
<1>4. push \in Seq(Items) /\ pop \in Seq(Items) /\ pop \o t \in Seq(Items)
  BY <1>0, Marks
<1> HIDE DEF body
<1>5. push \o body \in Seq(Items) /\ body \o (pop \o t) \in Seq(Items) /\ body \o c \in Seq(Items)
  BY <1>0, <1>1, <1>4, Concat2, Zenon
<1>6. <<push \o (body \o (pop \o t)), e, body \o c, l>> \in Abreast
  BY <1>0, <1>3, <1>5, AbreastClosed DEF Closed, ArmPushRule
<1>7. ((push \o body) \o pop) \o t = push \o (body \o (pop \o t))
  <2>1. Cat3(push, body, pop, t)
    BY <1>0, <1>1, <1>4, Concat3, Zenon
  <2> QED BY <2>1, Zenon DEF Cat3
<1> QED BY <1>6, <1>7 DEF body

-----------------------------------------------------------------------------
(* The points of the evaluator's run. *)

\* A point of the evaluator's run, and what it does next (of its calls, one
\* outside a match that asks nothing).
Now == [todo |-> todo, env |-> env, verdict |-> verdict]
Goes(x, y, items, e) ==
  y = [todo |-> items \o Tail(x.todo), env |-> e, verdict |-> "running"]
Failing(y) == y.verdict = "failed"

Runs(x, y) ==
  /\ x.verdict = "running"
  /\ x.todo = <<>> => y.verdict = "passed" /\ y.env = x.env
  /\ x.todo # <<>> =>
       LET s == x.todo[1].stmt
           m == x.todo[1].mode
           field == Lookup(x.env, Field)
       IN
       /\ s.kind = "call" /\ m # "plain" /\ s.action \notin Asking =>
            LET after == Effect[s.action][s.value][field]
            IN  IF after \in Holds THEN Goes(x, y, <<>>, Assign(x.env, Field, after)) ELSE Failing(y)
       /\ s.kind = "assert" =>
            IF Lookup(x.env, s.name) = s.value THEN Goes(x, y, <<>>, x.env) ELSE Failing(y)
       /\ s.kind = "let" => Goes(x, y, <<>>, Define(x.env, s.name, s.value))
       /\ s.kind = "set" => Goes(x, y, <<>>, Assign(x.env, Field, s.value))
       /\ s.kind = "if" =>
            LET elif == s.else[1]
            IN  IF field = s.value THEN Goes(x, y, In(Inner(m), s.then), x.env)
                ELSE IF ~s.elif \/ m = "plain" THEN Goes(x, y, In(Inner(m), s.else), x.env)
                ELSE IF field = elif.value THEN Goes(x, y, In("block", elif.then), x.env)
                ELSE Goes(x, y, <<>>, x.env)
       /\ s.kind = "for" =>
            Goes(x, y, IF m = "plain" THEN OneScope(s, "plain") ELSE ScopePerItem(s, "block"), x.env)
       /\ s.kind = "match" => Goes(x, y, push \o In("plain", s.body) \o pop, x.env)
       /\ s.kind = "push" => Goes(x, y, <<>>, PushScope(x.env, EmptyScope))
       /\ s.kind = "item" => Goes(x, y, <<>>, Define(x.env, s.name, s.value))
       /\ s.kind = "pop" => Goes(x, y, <<>>, PopScope(x.env))

\* A step of the evaluator starts at the head of what is left.
LEMMA NowFacts ==
  ASSUME NEW kind, Step(kind)
  PROVE  /\ Now.verdict = "running" /\ Now.todo # <<>> /\ Now.env = env
         /\ Now.todo[1].stmt = Stmt /\ Now.todo[1].mode = Mode /\ Stmt.kind = kind
         /\ verdict = "running"
         /\ \A items : Replace(items) => Goes(Now, Now', items, env')
         /\ Fail => Failing(Now')
<1>1. verdict = "running" /\ todo # <<>> /\ Stmt.kind = kind
  BY DEF Step
<1>2. ASSUME NEW items, Replace(items) PROVE Goes(Now, Now', items, env')
  BY <1>1, <1>2 DEF Replace, Goes, Now
<1>3. ASSUME Fail PROVE Failing(Now')
  BY <1>3 DEF Fail, Failing, Now
<1> QED BY <1>1, <1>2, <1>3 DEF Now, Stmt, Mode

\* Every action of the evaluator goes from point to point.
LEMMA EvaluateRuns ==
  ASSUME Evaluate
  PROVE  Runs(Now, Now')
<1>1. CASE Call
  <2>1. Step("call") /\ Mode # "plain"
    BY <1>1 DEF Call
  <2>2. ASSUME Stmt.action \notin Asking
        PROVE  LET after == Effect[Stmt.action][Stmt.value][Lookup(env, Field)]
               IN  IF after \in Holds THEN Goes(Now, Now', <<>>, Assign(env, Field, after)) ELSE Failing(Now')
    <3>1. After = Effect[Stmt.action][Stmt.value][Lookup(env, Field)]
      BY <2>2 DEF After, Input
    <3>2. CASE After \in Holds
      <4>1. env' = Assign(env, Field, After) /\ Replace(<<>>)
        BY <1>1, <3>2 DEF Call, Proceed
      <4>2. Goes(Now, Now', <<>>, env')
        BY <2>1, <4>1, NowFacts
      <4> QED BY <3>1, <3>2, <4>1, <4>2
    <3>3. CASE After \notin Holds
      <4>1. Fail
        BY <1>1, <3>3 DEF Call
      <4> QED BY <2>1, <3>1, <3>3, <4>1, NowFacts
    <3> QED BY <3>2, <3>3
  <2> QED BY <2>1, <2>2, NowFacts DEF Runs
<1>2. CASE CallUnknown
  <2>1. Step("call") /\ Mode = "plain"
    BY <1>2 DEF CallUnknown
  <2> QED BY <2>1, NowFacts DEF Runs
<1>3. CASE Check
  <2>1. Step("assert")
    BY <1>3 DEF Check
  <2>2. CASE Lookup(env, Stmt.name) = Stmt.value
    <3>1. env' = env /\ Replace(<<>>)
      BY <1>3, <2>2 DEF Check, Proceed
    <3>2. Goes(Now, Now', <<>>, env)
      BY <2>1, <3>1, NowFacts
    <3> QED BY <2>1, <2>2, <3>2, NowFacts DEF Runs
  <2>3. CASE Lookup(env, Stmt.name) # Stmt.value
    <3>1. Fail
      BY <1>3, <2>3 DEF Check
    <3>2. Failing(Now')
      BY <2>1, <3>1, NowFacts
    <3> QED BY <2>1, <2>3, <3>2, NowFacts DEF Runs
  <2> QED BY <2>2, <2>3
<1>4. CASE Let
  <2>1. Step("let") /\ env' = Define(env, Stmt.name, Stmt.value) /\ Replace(<<>>)
    BY <1>4 DEF Let, Proceed
  <2>2. Goes(Now, Now', <<>>, Define(env, Stmt.name, Stmt.value))
    BY <2>1, NowFacts
  <2> QED BY <2>1, <2>2, NowFacts DEF Runs
<1>5. CASE SetField
  <2>1. Step("set") /\ env' = Assign(env, Field, Stmt.value) /\ Replace(<<>>)
    BY <1>5 DEF SetField, Proceed
  <2>2. Goes(Now, Now', <<>>, Assign(env, Field, Stmt.value))
    BY <2>1, NowFacts
  <2> QED BY <2>1, <2>2, NowFacts DEF Runs
<1>6. CASE If
  <2> DEFINE elif == Stmt.else[1]
  <2>1. Step("if") /\ env' = env
    BY <1>6 DEF If
  <2>2. IF Lookup(env, Field) = Stmt.value THEN Replace(In(Inner(Mode), Stmt.then))
        ELSE IF ~Stmt.elif \/ Mode = "plain" THEN Replace(In(Inner(Mode), Stmt.else))
        ELSE IF Lookup(env, Field) = elif.value THEN Replace(In("block", elif.then))
        ELSE Replace(<<>>)
    BY <1>6 DEF If, Test, Proceed
  <2>3. \A items : Replace(items) => Goes(Now, Now', items, env)
    BY <2>1, NowFacts
  <2>4. IF Lookup(env, Field) = Stmt.value THEN Goes(Now, Now', In(Inner(Mode), Stmt.then), env)
        ELSE IF ~Stmt.elif \/ Mode = "plain" THEN Goes(Now, Now', In(Inner(Mode), Stmt.else), env)
        ELSE IF Lookup(env, Field) = elif.value THEN Goes(Now, Now', In("block", elif.then), env)
        ELSE Goes(Now, Now', <<>>, env)
    BY <2>2, <2>3, Zenon
  <2> QED BY <2>1, <2>4, NowFacts DEF Runs
<1>7. CASE For
  <2>1. Step("for") /\ env' = env
    BY <1>7 DEF For
  <2>2. Replace(IF Mode = "plain" THEN OneScope(Stmt, "plain") ELSE ScopePerItem(Stmt, "block"))
    BY <1>7 DEF For
  <2>3. Goes(Now, Now', IF Mode = "plain" THEN OneScope(Stmt, "plain") ELSE ScopePerItem(Stmt, "block"), env)
    BY <2>1, <2>2, NowFacts
  <2> QED BY <2>1, <2>3, NowFacts DEF Runs
<1>8. CASE Match
  <2>1. Step("match") /\ env' = env /\ Replace(push \o In("plain", Stmt.body) \o pop)
    BY <1>8, Zenon DEF Match, push, pop
  <2>2. Goes(Now, Now', push \o In("plain", Stmt.body) \o pop, env)
    BY <2>1, NowFacts
  <2> QED BY <2>1, <2>2, NowFacts DEF Runs
<1>9. CASE Push
  <2>1. Step("push") /\ env' = PushScope(env, EmptyScope) /\ Replace(<<>>)
    BY <1>9 DEF Push, Proceed
  <2>2. Goes(Now, Now', <<>>, PushScope(env, EmptyScope))
    BY <2>1, NowFacts
  <2> QED BY <2>1, <2>2, NowFacts DEF Runs
<1>10. CASE Item
  <2>1. Step("item") /\ env' = Define(env, Stmt.name, Stmt.value) /\ Replace(<<>>)
    BY <1>10 DEF Item, Proceed
  <2>2. Goes(Now, Now', <<>>, Define(env, Stmt.name, Stmt.value))
    BY <2>1, NowFacts
  <2> QED BY <2>1, <2>2, NowFacts DEF Runs
<1>11. CASE Pop
  <2>1. Step("pop") /\ env' = PopScope(env) /\ Replace(<<>>)
    BY <1>11 DEF Pop, Proceed
  <2>2. Goes(Now, Now', <<>>, PopScope(env))
    BY <2>1, NowFacts
  <2> QED BY <2>1, <2>2, NowFacts DEF Runs
<1>12. CASE Pass
  BY <1>12 DEF Pass, Runs, Now
<1> QED
  BY <1>1, <1>2, <1>3, <1>4, <1>5, <1>6, <1>7, <1>8, <1>9, <1>10, <1>11, <1>12
     DEF Evaluate

-----------------------------------------------------------------------------
(* The point the compiled test stands at. *)

\* The field is the record's, and the other names have the same values.
Bottom(g, b, r) ==
  /\ g \in Scope /\ b \in Scope /\ r \in Val
  /\ g[Field] = r /\ b[Field] = Unbound /\ \A n \in Local : g[n] = b[n]

Stacks(x, l, e, k, r) ==
  /\ x.verdict = "running"
  /\ \E g, b : Bottom(g, b, r) /\ x.env = <<g>> \o e /\ l = <<b>> \o k

\* The evaluator was where the compiled test is, ...
Level(x, c, l, r) ==
  \E e, k : <<x.todo, e, c, k>> \in Abreast /\ Stacks(x, l, e, k, r)

\* ... and not at a scope that only it has, ...
InArm(t, e, c, k) == AtArmPush(t, e, c, k) \/ AtArmPop(t, e, c, k)
Ready(x, c, l, r) ==
  \E e, k : /\ <<x.todo, e, c, k>> \in Abreast /\ Stacks(x, l, e, k, r)
            /\ ~InArm(x.todo, e, c, k)

\* ... or at an `if` whose `else if` the compiled test has come to.
Behind(x, c, l, r) ==
  \E s \in Statements, m \in {"test", "block"}, u, d \in Seq(Items) : \E e, k :
    /\ s.kind = "if" /\ s.elif /\ r # s.value
    /\ r = s.else[1].value \/ s.else[1].else = <<>>
    /\ <<u, e, d, k>> \in Abreast /\ Stacks(x, l, e, k, r)
    /\ x.todo = Of(s, m) \o u /\ c = Of(s.else[1], "plain") \o d

\* The two stacks show the same local values; the field is in the evaluator
\* alone.
LEMMA StacksFacts ==
  ASSUME NEW x, NEW l, NEW e \in Seq(Above), NEW k \in Seq(Above), NEW r,
         Alike(e, k), Stacks(x, l, e, k, r)
  PROVE  /\ Lookup(x.env, Field) = r /\ ~IsBound(l, Field) /\ r \in Val
         /\ \A n \in Local : Lookup(l, n) = Lookup(x.env, n)
         /\ \A n \in Local : ~IsBound(l, n) => Lookup(x.env, n) = Unbound
<1>1. PICK g, b : Bottom(g, b, r) /\ x.env = <<g>> \o e /\ l = <<b>> \o k
  BY DEF Stacks
<1>2. g \in Scope /\ b \in Scope /\ e \in Seq(Scope) /\ k \in Seq(Scope) /\ Field \in Name
      /\ Local \subseteq Name
  BY <1>1, AboveFacts DEF Bottom
<1>3. Lookup(x.env, Field) = r /\ r \in Val
  BY <1>1, <1>2, BottomFacts DEF Bottom
<1>4. ~IsBound(l, Field)
  BY <1>1, <1>2, BottomFacts DEF Bottom
<1>5. \A n \in Local : Lookup(l, n) = Lookup(x.env, n)
  <2> TAKE n \in Local
  <2>1. IsBound(e, n) <=> IsBound(k, n)
    BY <1>2, LookupNone DEF Alike
  <2>2. /\ Lookup(x.env, n) = IF IsBound(e, n) THEN Lookup(e, n) ELSE g[n]
        /\ Lookup(l, n) = IF IsBound(k, n) THEN Lookup(k, n) ELSE b[n]
    <3>1. n \in Name
      BY <1>2
    <3>2. /\ Lookup(<<g>> \o e, n) = IF IsBound(e, n) THEN Lookup(e, n) ELSE g[n]
          /\ Lookup(<<b>> \o k, n) = IF IsBound(k, n) THEN Lookup(k, n) ELSE b[n]
      BY <1>2, <3>1, BottomFacts, Zenon
    <3> QED BY <1>1, <3>2, Zenon
  <2> QED BY <1>1, <2>1, <2>2 DEF Alike, Bottom
<1>6. \A n \in Local : IsBound(l, n) <=> Lookup(l, n) # Unbound
  BY <1>1, <1>2, BottomFacts
<1> QED BY <1>3, <1>4, <1>5, <1>6

\* A statement that both are at, in the modes of each.
Together(e, k, s, m, r) ==
  /\ s \in Statements
  /\ \/ m = "test" /\ r = "test" /\ e = <<>> /\ k = <<>>
     \/ m \in {"block", "plain"} /\ r = "plain" /\ s.kind # "let"

AtStatement(t, e, c, k) ==
  \E u, d \in Seq(Items) : \E s, m, r :
    <<u, e, d, k>> \in Abreast /\ Together(e, k, s, m, r) /\ t = Of(s, m) \o u /\ c = Of(s, r) \o d

\* The statement or marker before the rest is the next, and the rest what it
\* leaves.
LEMMA HeadOf ==
  ASSUME NEW u \in Seq(Items)
  PROVE  /\ \A s \in Statements, m \in Modes :
              /\ (Of(s, m) \o u)[1].stmt = s /\ (Of(s, m) \o u)[1].mode = m
              /\ Of(s, m) \o u # <<>> /\ Tail(Of(s, m) \o u) = u
         /\ \A n \in Local, v \in Val :
              /\ (ItemAt(n, v) \o u)[1].stmt = [kind |-> "item", name |-> n, value |-> v]
              /\ ItemAt(n, v) \o u # <<>> /\ Tail(ItemAt(n, v) \o u) = u
         /\ (push \o u)[1].stmt.kind = "push" /\ push \o u # <<>> /\ Tail(push \o u) = u
         /\ (pop \o u)[1].stmt.kind = "pop" /\ pop \o u # <<>> /\ Tail(pop \o u) = u
<1>1. ASSUME NEW s \in Statements, NEW m \in Modes
      PROVE  /\ (Of(s, m) \o u)[1].stmt = s /\ (Of(s, m) \o u)[1].mode = m
             /\ Of(s, m) \o u # <<>> /\ Tail(Of(s, m) \o u) = u
  <2> DEFINE x == [stmt |-> s, mode |-> m]
  <2>1. x \in Items /\ Of(s, m) = <<x>> /\ x.stmt = s /\ x.mode = m
    BY PieceTypes DEF Of
  <2> HIDE DEF x
  <2> QED BY <2>1, Prefixed
<1>2. ASSUME NEW n \in Local, NEW v \in Val
      PROVE  /\ (ItemAt(n, v) \o u)[1].stmt = [kind |-> "item", name |-> n, value |-> v]
             /\ ItemAt(n, v) \o u # <<>> /\ Tail(ItemAt(n, v) \o u) = u
  <2> DEFINE i == [kind |-> "item", name |-> n, value |-> v]
             x == [stmt |-> i, mode |-> "marker"]
  <2>1. x \in Items /\ ItemAt(n, v) = <<x>> /\ x.stmt = i
    BY PieceTypes DEF ItemAt
  <2> HIDE DEF x
  <2> QED BY <2>1, Prefixed
<1>3. ASSUME NEW j \in {"push", "pop"}
      PROVE  /\ (Marker(j) \o u)[1].stmt.kind = j
             /\ Marker(j) \o u # <<>> /\ Tail(Marker(j) \o u) = u
  <2> DEFINE x == [stmt |-> [kind |-> j], mode |-> "marker"]
  <2>1. x \in Items /\ Marker(j) = <<x>> /\ x.stmt.kind = j
    BY DEF Marker, Items
  <2> HIDE DEF x
  <2> QED BY <2>1, Prefixed
<1> QED BY <1>1, <1>2, <1>3 DEF push, pop

\* The same of a sequence that is known to be put together so.
LEMMA HeadStmt ==
  ASSUME NEW q, NEW u \in Seq(Items), NEW s \in Statements, NEW m \in Modes, q = Of(s, m) \o u
  PROVE  q # <<>> /\ q[1].stmt = s /\ q[1].mode = m /\ Tail(q) = u
<1> DEFINE x == [stmt |-> s, mode |-> m]
<1>1. x \in Items /\ Of(s, m) = <<x>> /\ x.stmt = s /\ x.mode = m
  BY PieceTypes DEF Of
<1> HIDE DEF x
<1>2. <<x>> \o u # <<>> /\ (<<x>> \o u)[1] = x /\ Tail(<<x>> \o u) = u
  BY <1>1, Prefixed, Zenon
<1>3. q = <<x>> \o u
  BY <1>1, Zenon
<1>4. q # <<>> /\ q[1] = x /\ Tail(q) = u
  BY <1>2, <1>3, Zenon
<1> QED BY <1>1, <1>4, Zenon

\* ... and in the mode of the compiled test.
LEMMA HeadPlain ==
  ASSUME NEW q, NEW u \in Seq(Items), NEW s \in Statements, q = Of(s, "plain") \o u
  PROVE  q # <<>> /\ q[1].stmt = s /\ Tail(q) = u
<1>1. PICK m : m = "plain"
  OBVIOUS
<1>2. m \in Modes
  BY <1>1 DEF Modes
<1>3. q = Of(s, m) \o u
  BY <1>1
<1> QED BY <1>2, <1>3, HeadStmt, Zenon

\* ... and of an item.
LEMMA HeadItem ==
  ASSUME NEW q, NEW u \in Seq(Items), NEW n \in Local, NEW v \in Val, q = ItemAt(n, v) \o u
  PROVE  q # <<>> /\ q[1].stmt = [kind |-> "item", name |-> n, value |-> v] /\ Tail(q) = u
<1> DEFINE i == [kind |-> "item", name |-> n, value |-> v]
           x == [stmt |-> i, mode |-> "marker"]
<1>1. x \in Items /\ ItemAt(n, v) = <<x>> /\ x.stmt = i
  BY PieceTypes DEF ItemAt
<1> HIDE DEF x
<1>2. <<x>> \o u # <<>> /\ (<<x>> \o u)[1] = x /\ Tail(<<x>> \o u) = u
  BY <1>1, Prefixed, Zenon
<1>3. q = <<x>> \o u
  BY <1>1, Zenon
<1>4. q # <<>> /\ q[1] = x /\ Tail(q) = u
  BY <1>2, <1>3, Zenon
<1> QED BY <1>1, <1>4, Zenon

\* Where the two are, by what the compiled test executes next.
LEMMA WhereAt ==
  ASSUME NEW t, NEW e, NEW c, NEW k, <<t, e, c, k>> \in Abreast, ~InArm(t, e, c, k)
  PROVE  /\ c = <<>> => AtEnd(t, e, c, k)
         /\ c # <<>> /\ c[1].stmt.kind \notin {"push", "pop", "item"} => AtStatement(t, e, c, k)
         /\ c # <<>> /\ c[1].stmt.kind = "push" => AtPush(t, e, c, k) \/ AtLoopPush(t, e, c, k)
         /\ c # <<>> /\ c[1].stmt.kind = "pop" => AtPop(t, e, c, k) \/ AtLoopPop(t, e, c, k)
         /\ c # <<>> /\ c[1].stmt.kind = "item" => AtItem(t, e, c, k) \/ AtTurn(t, e, c, k)
<1> DEFINE kind == c[1].stmt.kind
           markers == {"push", "pop", "item"}
<1>0. "test" \in Modes /\ "plain" \in Modes /\ "block" \in Modes /\ Nested \subseteq Statements
  BY DEF Modes, Nested
<1>1. AtTop(t, e, c, k) => AtStatement(t, e, c, k) /\ c # <<>> /\ kind \notin markers
  <2> SUFFICES ASSUME AtTop(t, e, c, k)
               PROVE  AtStatement(t, e, c, k) /\ c # <<>> /\ kind \notin markers
    OBVIOUS
  <2>1. e = <<>> /\ k = <<>>
    BY DEF AtTop
  <2>2. PICK u \in Seq(Items), d \in Seq(Items), s \in Statements :
          <<u, e, d, k>> \in Abreast /\ t = Of(s, "test") \o u /\ c = Of(s, "test") \o d
    BY DEF AtTop
  <2>3. AtStatement(t, e, c, k)
    BY <2>1, <2>2 DEF AtStatement, Together
  <2>4. c # <<>> /\ c[1].stmt = s
    BY <1>0, <2>2, HeadStmt, Zenon
  <2> QED BY <2>3, <2>4, StatementFacts
<1>2. AtNested(t, e, c, k) => AtStatement(t, e, c, k) /\ c # <<>> /\ kind \notin markers
  <2> SUFFICES ASSUME AtNested(t, e, c, k)
               PROVE  AtStatement(t, e, c, k) /\ c # <<>> /\ kind \notin markers
    OBVIOUS
  <2>1. PICK u \in Seq(Items), d \in Seq(Items), s \in Nested, m \in {"block", "plain"} :
          <<u, e, d, k>> \in Abreast /\ t = Of(s, m) \o u /\ c = Of(s, "plain") \o d
    BY DEF AtNested
  <2>2. AtStatement(t, e, c, k)
    <3>1. Together(e, k, s, m, "plain")
      BY DEF Together, Nested
    <3> QED BY <2>1, <3>1 DEF AtStatement
  <2>3. c # <<>> /\ c[1].stmt = s
    <3>1. s \in Statements
      BY <1>0
    <3>2. c = Of(s, "plain") \o d /\ d \in Seq(Items)
      BY <2>1
    <3> QED BY <3>1, <3>2, HeadPlain, Zenon
  <2> QED BY <1>0, <2>2, <2>3, StatementFacts
<1>3. AtPush(t, e, c, k) \/ AtLoopPush(t, e, c, k) => c # <<>> /\ kind = "push"
  BY HeadOf DEF AtPush, AtLoopPush
<1>4. AtPop(t, e, c, k) \/ AtLoopPop(t, e, c, k) => c # <<>> /\ kind = "pop"
  BY HeadOf DEF AtPop, AtLoopPop
<1>5. AtItem(t, e, c, k) \/ AtTurn(t, e, c, k) => c # <<>> /\ kind = "item"
  <2>1. ASSUME NEW d \in Seq(Items), NEW n \in Local, NEW v \in Val, c = ItemAt(n, v) \o d
        PROVE  c # <<>> /\ kind = "item"
    <3>1. c # <<>> /\ c[1].stmt = [kind |-> "item", name |-> n, value |-> v]
      BY <2>1, HeadItem, Zenon
    <3> QED BY <3>1
  <2>2. AtItem(t, e, c, k) => \E d \in Seq(Items), n \in Local, v \in Val : c = ItemAt(n, v) \o d
    BY DEF AtItem
  <2>3. AtTurn(t, e, c, k) => \E d \in Seq(Items), n \in Local, v \in Val : c = ItemAt(n, v) \o d
    <3> SUFFICES ASSUME AtTurn(t, e, c, k)
                 PROVE  \E d \in Seq(Items), n \in Local, v \in Val : c = ItemAt(n, v) \o d
      OBVIOUS
    <3>1. PICK u \in Seq(Items), d \in Seq(Items), f \in Seq(Above), j \in Seq(Above), sc \in Above,
               n \in Local, v \in Val :
            /\ Bind(sc, n, v) = Bind(EmptyScope, n, v)
            /\ <<u, f \o <<Bind(sc, n, v)>>, d, j \o <<Bind(sc, n, v)>>>> \in Abreast
            /\ t = pop \o (push \o (ItemAt(n, v) \o u)) /\ c = ItemAt(n, v) \o d
            /\ e = f \o <<sc>> /\ k = j \o <<sc>>
      BY DEF AtTurn
    <3> QED BY <3>1, Zenon
  <2> QED BY <2>1, <2>2, <2>3
<1>6. AtEnd(t, e, c, k) => c = <<>>
  BY DEF AtEnd
<1>7. Somewhere(t, e, c, k)
  BY AbreastFacts
<1> HIDE DEF kind, markers
<1>8. \/ AtEnd(t, e, c, k) \/ AtTop(t, e, c, k) \/ AtNested(t, e, c, k)
      \/ AtPush(t, e, c, k) \/ AtPop(t, e, c, k)
      \/ AtLoopPush(t, e, c, k) \/ AtLoopPop(t, e, c, k)
      \/ AtItem(t, e, c, k) \/ AtTurn(t, e, c, k)
  BY <1>7, Zenon DEF Somewhere, InArm
<1>9. "push" \in markers /\ "pop" \in markers /\ "item" \in markers
  BY DEF markers
<1> QED BY <1>1, <1>2, <1>3, <1>4, <1>5, <1>6, <1>8, <1>9 DEF kind, markers

\* Scope operations on the stack over the bottom scope.
LEMMA ScopeOps ==
  ASSUME NEW g \in Scope, NEW e \in Seq(Above), NEW sc \in Above
  PROVE  /\ PushScope(<<g>> \o e, sc) = <<g>> \o (e \o <<sc>>)
         /\ PopScope(<<g>> \o (e \o <<sc>>)) = <<g>> \o e
         /\ \A n \in Name, v \in Val :
              /\ Define(<<g>> \o (e \o <<sc>>), n, v) = <<g>> \o (e \o <<Bind(sc, n, v)>>)
              /\ Define(<<g>> \o <<>>, n, v) = <<Bind(g, n, v)>> \o <<>>
<1>1. /\ e \in Seq(Scope) /\ <<g>> \in Seq(Scope) /\ sc \in Scope /\ <<sc>> \in Seq(Scope)
      /\ <<g>> \o e \in Seq(Scope) /\ <<g>> \o e # <<>> /\ <<>> \in Seq(Scope)
  BY AboveFacts, BottomFacts DEF Above
<1>2. ASSUME NEW z \in Scope PROVE (<<g>> \o e) \o <<z>> = <<g>> \o (e \o <<z>>)
  <2>1. <<z>> \in Seq(Scope)
    OBVIOUS
  <2> QED BY <1>1, <2>1, ConcatAssociative
<1>3. PushScope(<<g>> \o e, sc) = <<g>> \o (e \o <<sc>>)
  BY <1>1, <1>2, TopFacts
<1>4. PopScope(<<g>> \o (e \o <<sc>>)) = <<g>> \o e
  BY <1>1, <1>2, TopFacts
<1>5. ASSUME NEW n \in Name, NEW v \in Val
      PROVE  /\ Define(<<g>> \o (e \o <<sc>>), n, v) = <<g>> \o (e \o <<Bind(sc, n, v)>>)
             /\ Define(<<g>> \o <<>>, n, v) = <<Bind(g, n, v)>> \o <<>>
  <2>0. v \in Slot
    BY DEF Slot
  <2>1. Bind(sc, n, v) \in Scope /\ Bind(g, n, v) \in Scope
    BY <1>1, <2>0 DEF Scope, Bind
  <2>2. Define((<<g>> \o e) \o <<sc>>, n, v) = (<<g>> \o e) \o <<Bind(sc, n, v)>>
    BY <1>1, TopFacts
  <2>3. Define(<<>> \o <<g>>, n, v) = <<>> \o <<Bind(g, n, v)>>
    BY <1>1, TopFacts
  <2>4. ASSUME NEW z \in Scope PROVE <<>> \o <<z>> = <<z>> /\ <<z>> \o <<>> = <<z>>
    <3>1. <<z>> \in Seq(Scope)
      OBVIOUS
    <3> QED BY <3>1, ConcatEmptySeq
  <2>5. <<>> \o <<g>> = <<g>> \o <<>>
    BY <2>4
  <2>6. <<>> \o <<Bind(g, n, v)>> = <<Bind(g, n, v)>> \o <<>>
    BY <2>1, <2>4
  <2>7. Define(<<g>> \o <<>>, n, v) = <<Bind(g, n, v)>> \o <<>>
    BY <2>3, <2>5, <2>6
  <2> QED BY <1>1, <1>2, <2>1, <2>2, <2>7
<1> QED BY <1>3, <1>4, <1>5

\* ... of which the definition of a name is the one that takes a value.
LEMMA DefineTop ==
  ASSUME NEW g \in Scope, NEW e \in Seq(Above), NEW sc \in Above, NEW n \in Name, NEW v \in Val
  PROVE  Define(<<g>> \o (e \o <<sc>>), n, v) = <<g>> \o (e \o <<Bind(sc, n, v)>>)
<1>1. \A i \in Name, w \in Val :
        /\ Define(<<g>> \o (e \o <<sc>>), i, w) = <<g>> \o (e \o <<Bind(sc, i, w)>>)
        /\ Define(<<g>> \o <<>>, i, w) = <<Bind(g, i, w)>> \o <<>>
  BY ScopeOps, Zenon
<1> QED BY <1>1, Zenon

\* What a point goes on to.
LEMMA GoesTo ==
  ASSUME NEW x, NEW y, NEW u \in Seq(Items), Tail(x.todo) = u
  PROVE  /\ \A items, v : Goes(x, y, items, v) =>
              y.todo = items \o u /\ y.env = v /\ y.verdict = "running"
         /\ \A v : Goes(x, y, <<>>, v) => y.todo = u /\ y.env = v /\ y.verdict = "running"
<1>1. ASSUME NEW items, NEW v, Goes(x, y, items, v)
      PROVE  y.todo = items \o u /\ y.env = v /\ y.verdict = "running"
  <2> DEFINE z == items \o u
  <2>1. y = [todo |-> z, env |-> v, verdict |-> "running"]
    BY <1>1, Zenon DEF Goes
  <2> HIDE DEF z
  <2>2. y.todo = z /\ y.env = v /\ y.verdict = "running"
    BY <2>1
  <2> QED BY <2>2 DEF z
<1>2. <<>> \o u = u
  BY ConcatEmptySeq
<1> QED BY <1>1, <1>2

\* The same of the point itself, whatever its rest.
LEMMA GoesOn ==
  ASSUME NEW x, NEW y, NEW items, NEW v, Goes(x, y, items, v)
  PROVE  y.todo = items \o Tail(x.todo) /\ y.env = v /\ y.verdict = "running"
<1> DEFINE z == items \o Tail(x.todo)
<1>1. y = [todo |-> z, env |-> v, verdict |-> "running"]
  BY Zenon DEF Goes
<1> HIDE DEF z
<1>2. y.todo = z /\ y.env = v /\ y.verdict = "running"
  BY <1>1
<1> QED BY <1>2 DEF z

\* Through the scopes that only the evaluator has.
LEMMA ArmMoves ==
  ASSUME NEW x, NEW y, NEW c, NEW l, NEW r, Level(x, c, l, r), ~Ready(x, c, l, r), Runs(x, y)
  PROVE  Level(y, c, l, r)
<1>1. PICK e, k : <<x.todo, e, c, k>> \in Abreast /\ Stacks(x, l, e, k, r)
  BY DEF Level
<1>2. InArm(x.todo, e, c, k)
  BY <1>1 DEF Ready
<1>3. e \in Seq(Above) /\ EmptyScope \in Above
  BY <1>1, AbreastFacts, AboveFacts
<1>4. PICK g, b : Bottom(g, b, r) /\ x.env = <<g>> \o e /\ l = <<b>> \o k
  BY <1>1 DEF Stacks
<1>5. g \in Scope
  BY <1>4 DEF Bottom
<1>6. CASE AtArmPush(x.todo, e, c, k)
  <2>1. PICK u \in Seq(Items) : <<u, e \o <<EmptyScope>>, c, k>> \in Abreast /\ x.todo = push \o u
    BY <1>6 DEF AtArmPush
  <2>2. x.todo # <<>> /\ x.todo[1].stmt.kind = "push" /\ Tail(x.todo) = u
    BY <2>1, HeadOf
  <2>3. Goes(x, y, <<>>, PushScope(x.env, EmptyScope))
    BY <2>2 DEF Runs
  <2>4. y.todo = u /\ y.env = <<g>> \o (e \o <<EmptyScope>>) /\ y.verdict = "running"
    <3>1. y.todo = u /\ y.env = PushScope(x.env, EmptyScope) /\ y.verdict = "running"
      BY <2>2, <2>3, GoesTo, Zenon
    <3>2. PushScope(<<g>> \o e, EmptyScope) = <<g>> \o (e \o <<EmptyScope>>)
      BY <1>3, <1>5, ScopeOps, Zenon
    <3> QED BY <1>4, <3>1, <3>2, Zenon
  <2> QED BY <1>4, <2>1, <2>4 DEF Level, Stacks
<1>7. CASE AtArmPop(x.todo, e, c, k)
  <2>1. PICK u \in Seq(Items), f \in Seq(Above) :
          <<u, f, c, k>> \in Abreast /\ x.todo = pop \o u /\ e = f \o <<EmptyScope>>
    BY <1>7 DEF AtArmPop
  <2>2. x.todo # <<>> /\ x.todo[1].stmt.kind = "pop" /\ Tail(x.todo) = u
    BY <2>1, HeadOf
  <2>3. Goes(x, y, <<>>, PopScope(x.env))
    BY <2>2 DEF Runs
  <2>4. y.todo = u /\ y.env = <<g>> \o f /\ y.verdict = "running"
    <3>1. y.todo = u /\ y.env = PopScope(x.env) /\ y.verdict = "running"
      BY <2>2, <2>3, GoesTo, Zenon
    <3>2. PopScope(<<g>> \o (f \o <<EmptyScope>>)) = <<g>> \o f
      BY <1>3, <1>5, ScopeOps, Zenon
    <3> QED BY <1>4, <2>1, <3>1, <3>2, Zenon
  <2> QED BY <1>4, <2>1, <2>4 DEF Level, Stacks
<1> QED BY <1>2, <1>6, <1>7 DEF InArm

\* At a statement of both.
LEMMA AtInstr ==
  ASSUME NEW x, Ready(x, code, locals, record), NEW kind, Op(kind),
         kind \notin {"push", "pop", "item"}
  PROVE  \E u, d, e, k, m, r :
           /\ <<u, e, d, k>> \in Abreast /\ Together(e, k, Instr, m, r)
           /\ u \in Seq(Items) /\ d \in Seq(Items) /\ e \in Seq(Above) /\ k \in Seq(Above)
           /\ Instr.kind = kind
           /\ x.todo # <<>> /\ x.todo[1].stmt = Instr /\ x.todo[1].mode = m /\ Tail(x.todo) = u
           /\ x.todo = Of(Instr, m) \o u
           /\ code[1].mode = r /\ Tail(code) = d
           /\ Alike(e, k) /\ Stacks(x, locals, e, k, record)
<1>1. code # <<>> /\ code[1].stmt.kind = kind /\ Instr = code[1].stmt
  BY DEF Op, Instr
<1>2. PICK e, k : /\ <<x.todo, e, code, k>> \in Abreast /\ Stacks(x, locals, e, k, record)
                  /\ ~InArm(x.todo, e, code, k)
  BY DEF Ready
<1>3. AtStatement(x.todo, e, code, k)
  BY <1>1, <1>2, WhereAt
<1>4. PICK u, d, s, m, r : /\ <<u, e, d, k>> \in Abreast /\ Together(e, k, s, m, r)
                           /\ x.todo = Of(s, m) \o u /\ code = Of(s, r) \o d
  BY <1>3 DEF AtStatement
<1>5. u \in Seq(Items) /\ d \in Seq(Items) /\ e \in Seq(Above) /\ k \in Seq(Above) /\ Alike(e, k)
  BY <1>4, AbreastFacts
<1>6. s \in Statements /\ m \in Modes /\ r \in Modes
  BY <1>4 DEF Together, Modes
<1>7. s = Instr /\ code[1].mode = r /\ Tail(code) = d
  <2>1. code = Of(s, r) \o d /\ d \in Seq(Items) /\ s \in Statements /\ r \in Modes
    BY <1>4, <1>5, <1>6
  <2>2. code[1].stmt = s /\ code[1].mode = r /\ Tail(code) = d
    BY <2>1, HeadStmt, Zenon
  <2> QED BY <1>1, <2>2
<1>8. x.todo # <<>> /\ x.todo[1].stmt = s /\ x.todo[1].mode = m /\ Tail(x.todo) = u
  BY <1>4, <1>5, <1>6, HeadStmt, Zenon
<1> QED BY <1>1, <1>2, <1>4, <1>5, <1>7, <1>8

\* What a step of the compiled test comes to, the evaluator having been at x
\* and gone on to y.
Keeps(x, y) ==
  \/ /\ result' = "running"
     /\ \/ Level(x, code', locals', record') \/ Level(y, code', locals', record')
        \/ Behind(x, code', locals', record')
  \/ result' = "failed" /\ y.verdict = "failed"
  \/ result' = "passed" /\ y.verdict = "passed" /\ Lookup(y.env, Field) = record'

\* The statement is done with, and with it the field has a value.
LEMMA Written ==
  ASSUME NEW x, NEW y, NEW u, NEW d, NEW e, NEW k, NEW v \in Val,
         <<u, e, d, k>> \in Abreast, Stacks(x, locals, e, k, record),
         Tail(x.todo) = u, Tail(code) = d,
         Goes(x, y, <<>>, Assign(x.env, Field, v)),
         result = "running", Advance, locals' = locals, record' = v
  PROVE  Keeps(x, y)
<1>1. u \in Seq(Items) /\ d \in Seq(Items) /\ e \in Seq(Above)
  BY AbreastFacts
<1>2. PICK g, b : Bottom(g, b, record) /\ x.env = <<g>> \o e /\ locals = <<b>> \o k
  BY DEF Stacks
<1>3. g \in Scope /\ g[Field] # Unbound
  BY <1>2, AboveFacts DEF Bottom
<1> DEFINE h == Bind(g, Field, v)
<1>4. Bottom(h, b, v)
  <2>1. v \in Slot /\ Field \in Name /\ Field \notin Local /\ Local \subseteq Name
    BY AboveFacts DEF Slot
  <2>2. h \in Scope /\ h[Field] = v /\ \A n \in Local : h[n] = g[n]
    BY <1>3, <2>1 DEF Scope, Bind
  <2> HIDE DEF h
  <2> QED BY <1>2, <2>2, Zenon DEF Bottom
<1>5. y.todo = u /\ y.env = <<h>> \o e /\ y.verdict = "running"
  <2>1. y.todo = u /\ y.env = Assign(x.env, Field, v) /\ y.verdict = "running"
    BY <1>1, GoesTo, Zenon
  <2>2. Assign(<<g>> \o e, Field, v) = <<h>> \o e
    BY <1>1, <1>3, BottomFacts, Zenon
  <2> QED BY <1>2, <2>1, <2>2, Zenon
<1>6. code' = d /\ result' = "running"
  BY <1>1, ConcatEmptySeq DEF Advance, Splice
<1> HIDE DEF h
<1> QED BY <1>2, <1>4, <1>5, <1>6 DEF Keeps, Level, Stacks

\* The construct is replaced by what it contains.
LEMMA Opened ==
  ASSUME NEW x, NEW y, NEW u, NEW d, NEW e, NEW k, NEW s, NEW p,
         <<s \o u, e, p \o d, k>> \in Abreast, Stacks(x, locals, e, k, record),
         Tail(x.todo) = u, Tail(code) = d, u \in Seq(Items),
         Goes(x, y, s, x.env),
         result = "running", Splice(p), UNCHANGED <<locals, record>>
  PROVE  Keeps(x, y)
<1>1. PICK g, b : Bottom(g, b, record) /\ x.env = <<g>> \o e /\ locals = <<b>> \o k
  BY DEF Stacks
<1>2. y.todo = s \o u /\ y.env = <<g>> \o e /\ y.verdict = "running"
  <2>1. y.todo = s \o u /\ y.env = x.env /\ y.verdict = "running"
    BY GoesOn, Zenon
  <2> QED BY <1>1, <2>1, Zenon
<1>3. code' = p \o d /\ result' = "running"
  BY DEF Splice
<1> QED BY <1>1, <1>2, <1>3 DEF Keeps, Level, Stacks

\* Every name has one value in both runs: the field as well, though the
\* compiled test keeps it in the record.
LEMMA ValueIs ==
  ASSUME NEW x, NEW e \in Seq(Above), NEW k \in Seq(Above), Alike(e, k),
         Stacks(x, locals, e, k, record)
  PROVE  Value(Field) = record /\ Lookup(x.env, Field) = record /\ record \in Val
         /\ \A n \in Name : Value(n) = Lookup(x.env, n)
<1>1. /\ Lookup(x.env, Field) = record /\ ~IsBound(locals, Field) /\ record \in Val
      /\ \A n \in Local : Lookup(locals, n) = Lookup(x.env, n)
      /\ \A n \in Local : ~IsBound(locals, n) => Lookup(x.env, n) = Unbound
  BY StacksFacts
<1>2. \A n \in Name : n = Field \/ (n \in Local /\ n # Field)
  BY AboveFacts DEF Name
<1> QED BY <1>1, <1>2 DEF Value

\* A call that commits, or traps where the evaluator failed.
LEMMA DispatchKeeps ==
  ASSUME NEW x, NEW y, Ready(x, code, locals, record), Runs(x, y), Dispatch, differences' = {}
  PROVE  Keeps(x, y)
<1>1. Op("call") /\ ~Plain
  BY DEF Dispatch
<1>2. Instr.action \notin WithParam /\ Instr.action \notin Asking
  BY DEF Dispatch, Differ
<1>3. LET after == Effect[Instr.action][Instr.value][record]
      IN  IF after \in Holds THEN record' = after /\ Advance /\ UNCHANGED locals ELSE Trap
  BY <1>2, Zenon DEF Dispatch
<1>4. PICK u, d, e, k, m, r :
        /\ <<u, e, d, k>> \in Abreast /\ Together(e, k, Instr, m, r)
        /\ u \in Seq(Items) /\ d \in Seq(Items) /\ e \in Seq(Above) /\ k \in Seq(Above)
        /\ Instr.kind = "call"
        /\ x.todo # <<>> /\ x.todo[1].stmt = Instr /\ x.todo[1].mode = m /\ Tail(x.todo) = u
        /\ x.todo = Of(Instr, m) \o u
        /\ code[1].mode = r /\ Tail(code) = d
        /\ Alike(e, k) /\ Stacks(x, locals, e, k, record)
  BY <1>1, AtInstr
<1>5. m # "plain"
  BY <1>1, <1>4 DEF Plain, Together
<1>6. Lookup(x.env, Field) = record
  BY <1>4, ValueIs
<1> DEFINE after == Effect[Instr.action][Instr.value][record]
<1>7. IF after \in Holds THEN Goes(x, y, <<>>, Assign(x.env, Field, after)) ELSE Failing(y)
  BY <1>2, <1>4, <1>5, <1>6 DEF Runs
<1>8. CASE after \in Holds
  <2>1. after \in Val
    BY <1>8, TestRunsAssumption
  <2>2. /\ Goes(x, y, <<>>, Assign(x.env, Field, after))
        /\ record' = after /\ Advance /\ UNCHANGED locals /\ result = "running"
    BY <1>1, <1>3, <1>7, <1>8 DEF Op
  <2> HIDE DEF after
  <2> QED BY <1>4, <2>1, <2>2, Written
<1>9. CASE after \notin Holds
  BY <1>3, <1>7, <1>9 DEF Trap, Failing, Keeps
<1> QED BY <1>8, <1>9

\* An assertion: it holds in both or in neither.
LEMMA AssertKeeps ==
  ASSUME NEW x, NEW y, Ready(x, code, locals, record), Runs(x, y), AssertOrTrap
  PROVE  Keeps(x, y)
<1>1. Op("assert")
  BY DEF AssertOrTrap
<1>2. PICK u, d, e, k, m, r :
        /\ <<u, e, d, k>> \in Abreast /\ Together(e, k, Instr, m, r)
        /\ u \in Seq(Items) /\ d \in Seq(Items) /\ e \in Seq(Above) /\ k \in Seq(Above)
        /\ Instr.kind = "assert"
        /\ x.todo # <<>> /\ x.todo[1].stmt = Instr /\ x.todo[1].mode = m /\ Tail(x.todo) = u
        /\ x.todo = Of(Instr, m) \o u
        /\ code[1].mode = r /\ Tail(code) = d
        /\ Alike(e, k) /\ Stacks(x, locals, e, k, record)
  BY <1>1, AtInstr
<1>3. Instr.name \in Name
  BY <1>2, StatementsAssumption DEF Together
<1>4. Value(Instr.name) = Lookup(x.env, Instr.name)
  BY <1>2, <1>3, ValueIs
<1>5. IF Lookup(x.env, Instr.name) = Instr.value THEN Goes(x, y, <<>>, x.env) ELSE Failing(y)
  BY <1>2 DEF Runs
<1>6. CASE Value(Instr.name) = Instr.value
  <2>1. /\ Goes(x, y, <<>>, x.env) /\ Splice(<<>>) /\ UNCHANGED <<locals, record>>
        /\ result = "running"
    BY <1>1, <1>4, <1>5, <1>6 DEF AssertOrTrap, Op, Advance
  <2>2. <<>> \o u = u /\ <<>> \o d = d
    BY <1>2, ConcatEmptySeq
  <2> QED BY <1>2, <2>1, <2>2, Opened
<1>7. CASE Value(Instr.name) # Instr.value
  <2>1. Failing(y) /\ Trap
    BY <1>4, <1>5, <1>7 DEF AssertOrTrap
  <2> QED BY <2>1 DEF Trap, Failing, Keeps
<1> QED BY <1>6, <1>7

\* A `let` at the top of the test: of both bottom scopes.
LEMMA LetKeeps ==
  ASSUME NEW x, NEW y, Ready(x, code, locals, record), Runs(x, y), LetLocal, differences' = {}
  PROVE  Keeps(x, y)
<1>1. /\ Op("let") /\ locals' = Define(locals, Instr.name, Instr.value) /\ Advance
      /\ Instr.name # Field /\ record' = record /\ result = "running"
  BY DEF LetLocal, Differ, Op
<1>2. PICK u, d, e, k, m, r :
        /\ <<u, e, d, k>> \in Abreast /\ Together(e, k, Instr, m, r)
        /\ u \in Seq(Items) /\ d \in Seq(Items) /\ e \in Seq(Above) /\ k \in Seq(Above)
        /\ Instr.kind = "let"
        /\ x.todo # <<>> /\ x.todo[1].stmt = Instr /\ x.todo[1].mode = m /\ Tail(x.todo) = u
        /\ x.todo = Of(Instr, m) \o u
        /\ code[1].mode = r /\ Tail(code) = d
        /\ Alike(e, k) /\ Stacks(x, locals, e, k, record)
  BY <1>1, AtInstr
<1>3. e = <<>> /\ k = <<>> /\ Instr \in Statements
  BY <1>2 DEF Together
<1>4. Instr.name \in Name /\ Instr.value \in Val
  BY <1>2, <1>3, StatementFacts
<1>5. PICK g, b : Bottom(g, b, record) /\ x.env = <<g>> \o e /\ locals = <<b>> \o k
  BY <1>2 DEF Stacks
<1> DEFINE g2 == Bind(g, Instr.name, Instr.value)
           b2 == Bind(b, Instr.name, Instr.value)
<1>6. g \in Scope /\ b \in Scope /\ EmptyScope \in Above
  BY <1>5, AboveFacts DEF Bottom
<1>7. Goes(x, y, <<>>, Define(x.env, Instr.name, Instr.value))
  BY <1>2 DEF Runs
<1>8. \A z \in Scope, n \in Name, v \in Val :
        Define(<<z>> \o <<>>, n, v) = <<Bind(z, n, v)>> \o <<>>
  <2>1. e \in Seq(Above)
    BY <1>2
  <2> QED BY <1>6, <2>1, ScopeOps, Zenon
<1>9. y.todo = u /\ y.env = <<g2>> \o e /\ y.verdict = "running"
  <2>1. y.todo = u /\ y.env = Define(x.env, Instr.name, Instr.value) /\ y.verdict = "running"
    <3>1. u \in Seq(Items) /\ Tail(x.todo) = u
      BY <1>2
    <3> QED BY <1>7, <3>1, GoesTo, Zenon
  <2>2. Define(<<g>> \o <<>>, Instr.name, Instr.value) = <<g2>> \o <<>>
    BY <1>4, <1>6, <1>8, Zenon
  <2> HIDE DEF g2
  <2> QED BY <1>3, <1>5, <2>1, <2>2, Zenon
<1>10. locals' = <<b2>> \o k
  <2>1. Define(<<b>> \o <<>>, Instr.name, Instr.value) = <<b2>> \o <<>>
    BY <1>4, <1>6, <1>8, Zenon
  <2> HIDE DEF b2
  <2> QED BY <1>1, <1>3, <1>5, <2>1, Zenon
<1>11. Bottom(g2, b2, record)
  <2>1. Instr.value \in Slot /\ Field \in Name /\ Local \subseteq Name
    BY <1>4, AboveFacts DEF Slot
  <2>2. /\ g2 \in Scope /\ g2[Field] = g[Field]
        /\ \A n \in Local : g2[n] = IF n = Instr.name THEN Instr.value ELSE g[n]
    BY <1>1, <1>4, <1>6, <2>1 DEF Scope, Bind
  <2>3. /\ b2 \in Scope /\ b2[Field] = b[Field]
        /\ \A n \in Local : b2[n] = IF n = Instr.name THEN Instr.value ELSE b[n]
    BY <1>1, <1>4, <1>6, <2>1 DEF Scope, Bind
  <2> HIDE DEF g2, b2
  <2> QED BY <1>5, <2>2, <2>3 DEF Bottom
<1>12. code' = d /\ result' = "running"
  BY <1>1, <1>2, ConcatEmptySeq DEF Advance, Splice
<1> HIDE DEF g2, b2
<1> QED BY <1>1, <1>2, <1>9, <1>10, <1>11, <1>12 DEF Keeps, Level, Stacks

\* A `set`: the field and the record.
LEMMA SetKeeps ==
  ASSUME NEW x, NEW y, Ready(x, code, locals, record), Runs(x, y), SetRecord
  PROVE  Keeps(x, y)
<1>1. /\ Op("set") /\ record' = Instr.value /\ Advance /\ UNCHANGED locals
      /\ result = "running"
  BY DEF SetRecord, Op
<1>2. PICK u, d, e, k, m, r :
        /\ <<u, e, d, k>> \in Abreast /\ Together(e, k, Instr, m, r)
        /\ u \in Seq(Items) /\ d \in Seq(Items) /\ e \in Seq(Above) /\ k \in Seq(Above)
        /\ Instr.kind = "set"
        /\ x.todo # <<>> /\ x.todo[1].stmt = Instr /\ x.todo[1].mode = m /\ Tail(x.todo) = u
        /\ x.todo = Of(Instr, m) \o u
        /\ code[1].mode = r /\ Tail(code) = d
        /\ Alike(e, k) /\ Stacks(x, locals, e, k, record)
  BY <1>1, AtInstr
<1>3. Instr.value \in Val
  BY <1>2, StatementFacts DEF Together
<1>4. Goes(x, y, <<>>, Assign(x.env, Field, Instr.value))
  BY <1>2 DEF Runs
<1> QED BY <1>1, <1>2, <1>3, <1>4, Written

\* The two branches of an `if`, and the branches of its `else if`.
LEMMA IfFacts ==
  ASSUME NEW s \in Statements, s.kind = "if"
  PROVE  /\ s.then \in Seq(Statements) /\ s.else \in Seq(Statements)
         /\ \A i \in 1..Len(s.then) : s.then[i].kind # "let"
         /\ \A i \in 1..Len(s.else) : s.else[i].kind # "let"
         /\ s.elif \in BOOLEAN
         /\ s.elif => /\ s.else[1] \in Statements /\ s.else[1].kind = "if"
                      /\ Len(s.else) = 1 /\ In("plain", s.else) = Of(s.else[1], "plain")
<1>1. /\ s.then \in Seq(Statements) /\ s.else \in Seq(Statements) /\ s.elif \in BOOLEAN
      /\ s.elif => Len(s.else) = 1 /\ s.else[1].kind = "if"
  BY StatementsAssumption
<1>2. DOMAIN s.then = 1..Len(s.then) /\ DOMAIN s.else = 1..Len(s.else)
  BY <1>1, LenProperties
<1>3. /\ \A i \in 1..Len(s.then) : s.then[i].kind # "let"
      /\ \A i \in 1..Len(s.else) : s.else[i].kind # "let"
  BY <1>2, StatementsAssumption
<1>4. ASSUME s.elif
      PROVE  s.else[1] \in Statements /\ In("plain", s.else) = Of(s.else[1], "plain")
  <2>1. 1 \in 1..Len(s.else) /\ "plain" \in Modes
    BY <1>1, <1>4 DEF Modes
  <2>2. Prefix(s.else, Len(s.else)) = s.else
    BY <1>1, <2>1, InPrefix
  <2>3. In("plain", Prefix(s.else, 1)) = Of(s.else[1], "plain")
    BY <1>1, <2>1, InPrefix
  <2> QED BY <1>1, <1>4, <2>1, <2>2, <2>3, ElementOfSeq
<1> QED BY <1>1, <1>3, <1>4

\* An `if`: the same branch, or an `else if` that the compiled test comes to
\* first.
LEMMA BranchKeeps ==
  ASSUME NEW x, NEW y, Ready(x, code, locals, record), Runs(x, y), Branch, differences' = {}
  PROVE  Keeps(x, y)
<1>1. /\ Op("if") /\ UNCHANGED <<locals, record>> /\ result = "running"
      /\ Splice(In("plain", IF Value(Field) = Instr.value THEN Instr.then ELSE Instr.else))
  BY DEF Branch, Op, InnerCode
<1>2. PICK u, d, e, k, m, r :
        /\ <<u, e, d, k>> \in Abreast /\ Together(e, k, Instr, m, r)
        /\ u \in Seq(Items) /\ d \in Seq(Items) /\ e \in Seq(Above) /\ k \in Seq(Above)
        /\ Instr.kind = "if"
        /\ x.todo # <<>> /\ x.todo[1].stmt = Instr /\ x.todo[1].mode = m /\ Tail(x.todo) = u
        /\ x.todo = Of(Instr, m) \o u
        /\ code[1].mode = r /\ Tail(code) = d
        /\ Alike(e, k) /\ Stacks(x, locals, e, k, record)
  BY <1>1, AtInstr
<1>3. /\ Instr \in Statements /\ m \in {"test", "block", "plain"}
      /\ Inner(m) \in {"block", "plain"} /\ Inner(m) \in Modes /\ "plain" \in Modes
  BY <1>2 DEF Together, Inner, Modes
<1>4. Value(Field) = record /\ Lookup(x.env, Field) = record
  BY <1>2, ValueIs
<1>5. ASSUME NEW body \in Seq(Statements), \A i \in 1..Len(body) : body[i].kind # "let"
      PROVE  <<In(Inner(m), body) \o u, e, In("plain", body) \o d, k>> \in Abreast
  BY <1>2, <1>3, <1>5, InAbreast
<1>6. LET elif == Instr.else[1]
      IN  IF record = Instr.value THEN Goes(x, y, In(Inner(m), Instr.then), x.env)
          ELSE IF ~Instr.elif \/ m = "plain" THEN Goes(x, y, In(Inner(m), Instr.else), x.env)
          ELSE IF record = elif.value THEN Goes(x, y, In("block", elif.then), x.env)
          ELSE Goes(x, y, <<>>, x.env)
  BY <1>2, <1>4 DEF Runs
<1>7. CASE record = Instr.value
  <2>1. Splice(In("plain", Instr.then)) /\ Goes(x, y, In(Inner(m), Instr.then), x.env)
    BY <1>1, <1>4, <1>6, <1>7
  <2>2. <<In(Inner(m), Instr.then) \o u, e, In("plain", Instr.then) \o d, k>> \in Abreast
    BY <1>2, <1>3, <1>5, IfFacts
  <2> QED BY <1>1, <1>2, <2>1, <2>2, Opened
<1>8. CASE record # Instr.value /\ (~Instr.elif \/ m = "plain")
  <2>1. Splice(In("plain", Instr.else)) /\ Goes(x, y, In(Inner(m), Instr.else), x.env)
    BY <1>1, <1>4, <1>6, <1>8
  <2>2. <<In(Inner(m), Instr.else) \o u, e, In("plain", Instr.else) \o d, k>> \in Abreast
    BY <1>2, <1>3, <1>5, IfFacts
  <2> QED BY <1>1, <1>2, <2>1, <2>2, Opened
<1>9. CASE record # Instr.value /\ Instr.elif /\ m # "plain"
  <2>1. code' = Of(Instr.else[1], "plain") \o d /\ result' = "running"
    BY <1>1, <1>2, <1>3, <1>4, <1>9, IfFacts DEF Splice
  <2>2. m \in {"test", "block"} /\ UNCHANGED <<locals, record>>
    BY <1>1, <1>3, <1>9
  <2>3. record = Instr.else[1].value \/ Instr.else[1].else = <<>>
    BY <1>4, <1>9 DEF Branch, Differ
  <2>4. Behind(x, code', locals', record')
    BY <1>2, <1>3, <1>9, <2>1, <2>2, <2>3 DEF Behind
  <2> QED BY <2>1, <2>4 DEF Keeps
<1>10. Instr.elif \in BOOLEAN
  BY <1>2, <1>3, IfFacts
<1> QED BY <1>7, <1>8, <1>9, <1>10

\* The compiled test comes up with an `else if`.
LEMMA ElseIfKeeps ==
  ASSUME NEW x, NEW y, Behind(x, code, locals, record), Runs(x, y), Branch, differences' = {}
  PROVE  Keeps(x, y)
<1>0. PICK s \in Statements, m \in {"test", "block"}, u \in Seq(Items), d \in Seq(Items) : \E e, k :
        /\ s.kind = "if" /\ s.elif /\ record # s.value
        /\ record = s.else[1].value \/ s.else[1].else = <<>>
        /\ <<u, e, d, k>> \in Abreast /\ Stacks(x, locals, e, k, record)
        /\ x.todo = Of(s, m) \o u /\ code = Of(s.else[1], "plain") \o d
  BY DEF Behind
<1>1. PICK e, k :
        /\ s.kind = "if" /\ s.elif /\ record # s.value
        /\ record = s.else[1].value \/ s.else[1].else = <<>>
        /\ <<u, e, d, k>> \in Abreast /\ Stacks(x, locals, e, k, record)
        /\ x.todo = Of(s, m) \o u /\ code = Of(s.else[1], "plain") \o d
  BY <1>0
<1> DEFINE elif == s.else[1]
<1>2. elif \in Statements /\ elif.kind = "if" /\ "plain" \in Modes /\ "block" \in Modes /\ m \in Modes
  BY <1>1, IfFacts DEF Modes
<1> HIDE DEF elif
<1>3. Instr = elif /\ Tail(code) = d
  <2>1. code = Of(elif, "plain") \o d /\ d \in Seq(Items) /\ elif \in Statements
    BY <1>0, <1>1, <1>2 DEF elif
  <2>2. code[1].stmt = elif /\ Tail(code) = d
    BY <2>1, HeadPlain, Zenon
  <2> QED BY <2>2 DEF Instr
<1>4. x.todo # <<>> /\ x.todo[1].stmt = s /\ x.todo[1].mode = m /\ Tail(x.todo) = u
  <2>1. x.todo = Of(s, m) \o u /\ u \in Seq(Items) /\ s \in Statements /\ m \in Modes
    BY <1>0, <1>1, <1>2
  <2> QED BY <2>1, HeadStmt, Zenon
<1>5. Value(Field) = record /\ Lookup(x.env, Field) = record
  BY <1>1, AbreastFacts, ValueIs
<1>6. /\ UNCHANGED <<locals, record>> /\ result = "running"
      /\ Splice(In("plain", IF record = elif.value THEN elif.then ELSE elif.else))
  BY <1>3, <1>5 DEF Branch, Op, InnerCode
<1>7. IF record = elif.value THEN Goes(x, y, In("block", elif.then), x.env)
      ELSE Goes(x, y, <<>>, x.env)
  BY <1>1, <1>4, <1>5 DEF Runs, elif
<1>8. CASE record = elif.value
  <2>1. Splice(In("plain", elif.then)) /\ Goes(x, y, In("block", elif.then), x.env)
    BY <1>6, <1>7, <1>8
  <2>2. <<In("block", elif.then) \o u, e, In("plain", elif.then) \o d, k>> \in Abreast
    BY <1>1, <1>2, IfFacts, InAbreast
  <2> QED BY <1>1, <1>3, <1>4, <1>6, <2>1, <2>2, Opened
<1>9. CASE record # elif.value
  <2>1. Splice(In("plain", elif.else)) /\ Goes(x, y, <<>>, x.env)
    BY <1>6, <1>7, <1>9
  <2>2. u = <<>> \o u
    BY ConcatEmptySeq
  <2>3. In("plain", elif.else) = <<>> /\ <<>> \o d = d
    BY <1>1, <1>9, InEmpty, ConcatEmptySeq DEF elif
  <2> QED BY <1>1, <1>3, <1>4, <1>6, <2>1, <2>2, <2>3, Opened
<1> QED BY <1>8, <1>9

\* A `for`: the turns of both.
LEMMA LoopKeeps ==
  ASSUME NEW x, NEW y, Ready(x, code, locals, record), Runs(x, y), Loop, differences' = {}
  PROVE  Keeps(x, y)
<1>1. /\ Op("for") /\ UNCHANGED <<locals, record>> /\ result = "running"
      /\ Splice(OneScope(Instr, "plain")) /\ Instr.name # Field
  <2>1. Splice(OneScope(Instr, "plain"))
    BY Zenon DEF Loop, OneScope, InnerCode
  <2> QED BY <2>1 DEF Loop, Op, Differ
<1>2. PICK u, d, e, k, m, r :
        /\ <<u, e, d, k>> \in Abreast /\ Together(e, k, Instr, m, r)
        /\ u \in Seq(Items) /\ d \in Seq(Items) /\ e \in Seq(Above) /\ k \in Seq(Above)
        /\ Instr.kind = "for"
        /\ x.todo # <<>> /\ x.todo[1].stmt = Instr /\ x.todo[1].mode = m /\ Tail(x.todo) = u
        /\ x.todo = Of(Instr, m) \o u
        /\ code[1].mode = r /\ Tail(code) = d
        /\ Alike(e, k) /\ Stacks(x, locals, e, k, record)
  BY <1>1, AtInstr
<1>3. Instr \in Statements /\ Instr.name \in Local
  BY <1>1, <1>2, StatementFacts DEF Together, Name
<1>4. Goes(x, y, IF m = "plain" THEN OneScope(Instr, "plain") ELSE ScopePerItem(Instr, "block"), x.env)
  BY <1>2 DEF Runs
<1>5. CASE m = "plain"
  <2>1. <<OneScope(Instr, "plain") \o u, e, OneScope(Instr, "plain") \o d, k>> \in Abreast
    BY <1>2, <1>3, OneScopeAbreast
  <2> QED BY <1>1, <1>2, <1>4, <1>5, <2>1, Opened
<1>6. CASE m # "plain"
  <2>1. <<ScopePerItem(Instr, "block") \o u, e, OneScope(Instr, "plain") \o d, k>> \in Abreast
    BY <1>2, <1>3, TurnsAbreast
  <2> QED BY <1>1, <1>2, <1>4, <1>6, <2>1, Opened
<1> QED BY <1>5, <1>6

\* A `match`: the arm, in a scope that only the evaluator has.
LEMMA ArmKeeps ==
  ASSUME NEW x, NEW y, Ready(x, code, locals, record), Runs(x, y), Arm
  PROVE  Keeps(x, y)
<1>1. /\ Op("match") /\ UNCHANGED <<locals, record>> /\ result = "running"
      /\ Splice(In("plain", Instr.body))
  BY DEF Arm, Op, InnerCode
<1>2. PICK u, d, e, k, m, r :
        /\ <<u, e, d, k>> \in Abreast /\ Together(e, k, Instr, m, r)
        /\ u \in Seq(Items) /\ d \in Seq(Items) /\ e \in Seq(Above) /\ k \in Seq(Above)
        /\ Instr.kind = "match"
        /\ x.todo # <<>> /\ x.todo[1].stmt = Instr /\ x.todo[1].mode = m /\ Tail(x.todo) = u
        /\ x.todo = Of(Instr, m) \o u
        /\ code[1].mode = r /\ Tail(code) = d
        /\ Alike(e, k) /\ Stacks(x, locals, e, k, record)
  BY <1>1, AtInstr
<1>3. Goes(x, y, push \o In("plain", Instr.body) \o pop, x.env)
  BY <1>2 DEF Runs
<1>4. <<(push \o In("plain", Instr.body) \o pop) \o u, e, In("plain", Instr.body) \o d, k>> \in Abreast
  BY <1>2, ArmAbreast DEF Together
<1> QED BY <1>1, <1>2, <1>3, <1>4, Opened

\* One turn of a loop to the next: a pop and a push before the item.
Turns(x, y) ==
  /\ result' = "running" /\ y.verdict = "running"
  /\ \A y2 : Runs(y, y2) =>
       /\ y2.verdict = "running"
       /\ \A y3 : Runs(y2, y3) => Level(y3, code', locals', record')

\* A push of both, or the one round a loop over nothing.
LEMMA PushKeeps ==
  ASSUME NEW x, NEW y, Ready(x, code, locals, record), Runs(x, y),
         Op("push"), locals' = PushScope(locals, EmptyScope), Advance, record' = record
  PROVE  Keeps(x, y)
<1>1. code # <<>> /\ code[1].stmt.kind = "push" /\ result = "running"
  BY DEF Op, Instr
<1>2. PICK e, k : /\ <<x.todo, e, code, k>> \in Abreast /\ Stacks(x, locals, e, k, record)
                  /\ ~InArm(x.todo, e, code, k)
  BY DEF Ready
<1>3. /\ e \in Seq(Above) /\ k \in Seq(Above) /\ EmptyScope \in Above
      /\ code \in Seq(Items)
  BY <1>2, AbreastFacts, AboveFacts
<1>4. PICK g, b : Bottom(g, b, record) /\ x.env = <<g>> \o e /\ locals = <<b>> \o k
  BY <1>2 DEF Stacks
<1>5. /\ PushScope(x.env, EmptyScope) = <<g>> \o (e \o <<EmptyScope>>)
      /\ locals' = <<b>> \o (k \o <<EmptyScope>>)
  <2>1. g \in Scope /\ b \in Scope
    BY <1>4 DEF Bottom
  <2>2. PushScope(<<g>> \o e, EmptyScope) = <<g>> \o (e \o <<EmptyScope>>)
    BY <1>3, <2>1, ScopeOps, Zenon
  <2>3. PushScope(<<b>> \o k, EmptyScope) = <<b>> \o (k \o <<EmptyScope>>)
    BY <1>3, <2>1, ScopeOps, Zenon
  <2> QED BY <1>4, <2>2, <2>3, Zenon
<1>6. code' = Tail(code) /\ result' = "running"
  <2>1. Tail(code) \in Seq(Items)
    BY <1>1, <1>3, HeadTailProperties
  <2> QED BY <1>1, <2>1, ConcatEmptySeq DEF Advance, Splice
<1>7. AtPush(x.todo, e, code, k) \/ AtLoopPush(x.todo, e, code, k)
  BY <1>1, <1>2, WhereAt
<1>8. CASE AtPush(x.todo, e, code, k)
  <2>1. PICK u \in Seq(Items), d \in Seq(Items) :
          /\ <<u, e \o <<EmptyScope>>, d, k \o <<EmptyScope>>>> \in Abreast
          /\ x.todo = push \o u /\ code = push \o d
    BY <1>8 DEF AtPush
  <2>2. x.todo # <<>> /\ x.todo[1].stmt.kind = "push" /\ Tail(x.todo) = u /\ Tail(code) = d
    BY <2>1, HeadOf
  <2>3. Goes(x, y, <<>>, PushScope(x.env, EmptyScope))
    BY <2>2 DEF Runs
  <2>4. y.todo = u /\ y.env = <<g>> \o (e \o <<EmptyScope>>) /\ y.verdict = "running"
    <3>1. y.todo = u /\ y.env = PushScope(x.env, EmptyScope) /\ y.verdict = "running"
      BY <2>2, <2>3, GoesTo, Zenon
    <3> QED BY <1>5, <3>1, Zenon
  <2> QED BY <1>4, <1>5, <1>6, <2>1, <2>2, <2>4 DEF Keeps, Level, Stacks
<1>9. CASE AtLoopPush(x.todo, e, code, k)
  <2>1. PICK d \in Seq(Items) :
          <<x.todo, e, d, k \o <<EmptyScope>>>> \in Abreast /\ code = push \o d
    BY <1>9 DEF AtLoopPush
  <2>2. Tail(code) = d /\ x.verdict = "running"
    BY <1>2, <2>1, HeadOf DEF Stacks
  <2> QED BY <1>4, <1>5, <1>6, <2>1, <2>2 DEF Keeps, Level, Stacks
<1> QED BY <1>7, <1>8, <1>9

\* A pop of both, or the one round a loop over nothing.
LEMMA PopKeeps ==
  ASSUME NEW x, NEW y, Ready(x, code, locals, record), Runs(x, y),
         Op("pop"), locals' = PopScope(locals), Advance, record' = record
  PROVE  Keeps(x, y)
<1>1. code # <<>> /\ code[1].stmt.kind = "pop" /\ result = "running"
  BY DEF Op, Instr
<1>2. PICK e, k : /\ <<x.todo, e, code, k>> \in Abreast /\ Stacks(x, locals, e, k, record)
                  /\ ~InArm(x.todo, e, code, k)
  BY DEF Ready
<1>3. code \in Seq(Items) /\ EmptyScope \in Above
  BY <1>2, AbreastFacts, AboveFacts
<1>4. PICK g, b : Bottom(g, b, record) /\ x.env = <<g>> \o e /\ locals = <<b>> \o k
  BY <1>2 DEF Stacks
<1>5. g \in Scope /\ b \in Scope
  BY <1>4 DEF Bottom
<1>6. code' = Tail(code) /\ result' = "running"
  <2>1. Tail(code) \in Seq(Items)
    BY <1>1, <1>3, HeadTailProperties
  <2> QED BY <1>1, <2>1, ConcatEmptySeq DEF Advance, Splice
<1>7. AtPop(x.todo, e, code, k) \/ AtLoopPop(x.todo, e, code, k)
  BY <1>1, <1>2, WhereAt
<1>8. CASE AtPop(x.todo, e, code, k)
  <2>1. PICK u \in Seq(Items), d \in Seq(Items), f \in Seq(Above), j \in Seq(Above), sc \in Above :
          /\ <<u, f, d, j>> \in Abreast
          /\ x.todo = pop \o u /\ code = pop \o d /\ e = f \o <<sc>> /\ k = j \o <<sc>>
    BY <1>8 DEF AtPop
  <2>2. x.todo # <<>> /\ x.todo[1].stmt.kind = "pop" /\ Tail(x.todo) = u /\ Tail(code) = d
    BY <2>1, HeadOf
  <2>3. Goes(x, y, <<>>, PopScope(x.env))
    BY <2>2 DEF Runs
  <2>4. y.todo = u /\ y.env = <<g>> \o f /\ y.verdict = "running" /\ locals' = <<b>> \o j
    <3>1. y.todo = u /\ y.env = PopScope(x.env) /\ y.verdict = "running"
      BY <2>2, <2>3, GoesTo, Zenon
    <3>2. PopScope(<<g>> \o (f \o <<sc>>)) = <<g>> \o f
      BY <1>5, <2>1, ScopeOps, Zenon
    <3>3. PopScope(<<b>> \o (j \o <<sc>>)) = <<b>> \o j
      BY <1>5, <2>1, ScopeOps, Zenon
    <3> QED BY <1>4, <2>1, <3>1, <3>2, <3>3, Zenon
  <2> QED BY <1>4, <1>6, <2>1, <2>2, <2>4 DEF Keeps, Level, Stacks
<1>9. CASE AtLoopPop(x.todo, e, code, k)
  <2>1. PICK d \in Seq(Items), j \in Seq(Above) :
          <<x.todo, e, d, j>> \in Abreast /\ code = pop \o d /\ k = j \o <<EmptyScope>>
    BY <1>9 DEF AtLoopPop
  <2>2. Tail(code) = d /\ x.verdict = "running"
    BY <1>2, <2>1, HeadOf DEF Stacks
  <2>3. locals' = <<b>> \o j
    BY <1>3, <1>4, <1>5, <2>1, ScopeOps
  <2> QED BY <1>4, <1>6, <2>1, <2>2, <2>3 DEF Keeps, Level, Stacks
<1> QED BY <1>7, <1>8, <1>9

\* An item: of both, or of the compiled loop where the evaluator is to change
\* scopes first.
LEMMA ItemKeeps ==
  ASSUME NEW x, NEW y, Ready(x, code, locals, record), Runs(x, y),
         Op("item"), locals' = Define(locals, Instr.name, Instr.value), Advance, record' = record
  PROVE  Keeps(x, y) \/ Turns(x, y)
<1>1. code # <<>> /\ code[1].stmt.kind = "item" /\ result = "running" /\ Instr = code[1].stmt
  BY DEF Op, Instr
<1>2. PICK e, k : /\ <<x.todo, e, code, k>> \in Abreast /\ Stacks(x, locals, e, k, record)
                  /\ ~InArm(x.todo, e, code, k)
  BY DEF Ready
<1>3. code \in Seq(Items) /\ EmptyScope \in Above /\ Local \subseteq Name
  BY <1>2, AbreastFacts, AboveFacts
<1>4. PICK g, b : Bottom(g, b, record) /\ x.env = <<g>> \o e /\ locals = <<b>> \o k
  BY <1>2 DEF Stacks
<1>5. g \in Scope /\ b \in Scope
  BY <1>4 DEF Bottom
<1>6. code' = Tail(code) /\ result' = "running"
  <2>1. Tail(code) \in Seq(Items)
    BY <1>1, <1>3, HeadTailProperties
  <2> QED BY <1>1, <2>1, ConcatEmptySeq DEF Advance, Splice
<1>7. AtItem(x.todo, e, code, k) \/ AtTurn(x.todo, e, code, k)
  BY <1>1, <1>2, WhereAt
<1>8. CASE AtItem(x.todo, e, code, k)
  <2>1. PICK u \in Seq(Items), d \in Seq(Items), f \in Seq(Above), j \in Seq(Above), sc \in Above,
             n \in Local, v \in Val :
          /\ <<u, f \o <<Bind(sc, n, v)>>, d, j \o <<Bind(sc, n, v)>>>> \in Abreast
          /\ x.todo = ItemAt(n, v) \o u /\ code = ItemAt(n, v) \o d /\ e = f \o <<sc>> /\ k = j \o <<sc>>
    BY <1>8, Zenon DEF AtItem
  <2> DEFINE i == [kind |-> "item", name |-> n, value |-> v]
  <2>2. /\ x.todo # <<>> /\ x.todo[1].stmt = i /\ Tail(x.todo) = u
        /\ Instr = i /\ Tail(code) = d /\ n \in Name
    <3>1. x.todo # <<>> /\ x.todo[1].stmt = i /\ Tail(x.todo) = u
      BY <2>1, HeadItem, Zenon
    <3>2. code[1].stmt = i /\ Tail(code) = d
      BY <2>1, HeadItem, Zenon
    <3> QED BY <1>1, <1>3, <2>1, <3>1, <3>2
  <2>3. Goes(x, y, <<>>, Define(x.env, n, v))
    <3>1. i.kind = "item" /\ i.name = n /\ i.value = v
      OBVIOUS
    <3> HIDE DEF i
    <3> QED BY <2>2, <3>1 DEF Runs
  <2>4. /\ y.todo = u /\ y.env = <<g>> \o (f \o <<Bind(sc, n, v)>>) /\ y.verdict = "running"
        /\ locals' = <<b>> \o (j \o <<Bind(sc, n, v)>>)
    <3>1. y.todo = u /\ y.env = Define(x.env, n, v) /\ y.verdict = "running"
      BY <2>2, <2>3, GoesTo, Zenon
    <3>2. Define(<<g>> \o (f \o <<sc>>), n, v) = <<g>> \o (f \o <<Bind(sc, n, v)>>)
      BY <1>5, <2>1, <2>2, ScopeOps, Zenon
    <3>3. Define(<<b>> \o (j \o <<sc>>), n, v) = <<b>> \o (j \o <<Bind(sc, n, v)>>)
      BY <1>5, <2>1, <2>2, ScopeOps, Zenon
    <3>4. Instr.name = n /\ Instr.value = v
      BY <2>2
    <3> QED BY <1>4, <2>1, <3>1, <3>2, <3>3, <3>4, Zenon
  <2> QED BY <1>4, <1>6, <2>1, <2>2, <2>4 DEF Keeps, Level, Stacks
<1>9. CASE AtTurn(x.todo, e, code, k)
  <2>1. PICK u \in Seq(Items), d \in Seq(Items), f \in Seq(Above), j \in Seq(Above), sc \in Above,
             n \in Local, v \in Val :
          /\ Bind(sc, n, v) = Bind(EmptyScope, n, v)
          /\ <<u, f \o <<Bind(sc, n, v)>>, d, j \o <<Bind(sc, n, v)>>>> \in Abreast
          /\ x.todo = pop \o (push \o (ItemAt(n, v) \o u)) /\ code = ItemAt(n, v) \o d
          /\ e = f \o <<sc>> /\ k = j \o <<sc>>
    BY <1>9, Zenon DEF AtTurn
  <2> DEFINE w == ItemAt(n, v) \o u
  <2>2. w \in Seq(Items) /\ push \o w \in Seq(Items)
    BY PieceFacts
  <2>3. /\ x.todo # <<>> /\ x.todo[1].stmt.kind = "pop" /\ Tail(x.todo) = push \o w
        /\ Tail(code) = d /\ Instr.name = n /\ Instr.value = v /\ n \in Name
    <3>1. x.todo = pop \o (push \o w)
      BY <2>1
    <3> HIDE DEF w
    <3>2. x.todo # <<>> /\ x.todo[1].stmt.kind = "pop" /\ Tail(x.todo) = push \o w
      BY <2>2, <3>1, HeadOf
    <3>3. code[1].stmt = [kind |-> "item", name |-> n, value |-> v] /\ Tail(code) = d
      BY <2>1, HeadItem, Zenon
    <3>4. Instr.name = n /\ Instr.value = v
      BY <1>1, <3>3
    <3>5. n \in Name
      BY <1>3, <2>1
    <3> QED BY <3>2, <3>3, <3>4, <3>5, Zenon
  <2>4. Goes(x, y, <<>>, PopScope(x.env))
    BY <2>3 DEF Runs
  <2>5. y.todo = push \o w /\ y.env = <<g>> \o f /\ y.verdict = "running"
    <3> HIDE DEF w
    <3>1. y.todo = push \o w /\ y.env = PopScope(x.env) /\ y.verdict = "running"
      BY <2>2, <2>3, <2>4, GoesTo, Zenon
    <3>2. PopScope(<<g>> \o (f \o <<sc>>)) = <<g>> \o f
      BY <1>5, <2>1, ScopeOps, Zenon
    <3> QED BY <1>4, <2>1, <3>1, <3>2, Zenon
  <2>6. locals' = <<b>> \o (j \o <<Bind(sc, n, v)>>)
    <3>1. Define(<<b>> \o (j \o <<sc>>), n, v) = <<b>> \o (j \o <<Bind(sc, n, v)>>)
      <4>1. j \in Seq(Above) /\ sc \in Above /\ n \in Name /\ v \in Val
        BY <2>1, <2>3
      <4> QED BY <1>5, <4>1, ScopeOps, Zenon
    <3> QED BY <1>4, <2>1, <2>3, <3>1, Zenon
  <2>7. ASSUME NEW y2, Runs(y, y2)
        PROVE  y2.todo = w /\ y2.env = <<g>> \o (f \o <<EmptyScope>>) /\ y2.verdict = "running"
    <3> HIDE DEF w
    <3>1. y.todo # <<>> /\ y.todo[1].stmt.kind = "push" /\ Tail(y.todo) = w
      BY <2>2, <2>5, HeadOf
    <3>2. Goes(y, y2, <<>>, PushScope(y.env, EmptyScope))
      BY <2>7, <3>1 DEF Runs
    <3>3. y2.todo = w /\ y2.env = PushScope(y.env, EmptyScope) /\ y2.verdict = "running"
      <4>1. w \in Seq(Items) /\ Tail(y.todo) = w
        BY <2>2, <3>1
      <4> QED BY <3>2, <4>1, GoesTo, Zenon
    <3>4. PushScope(<<g>> \o f, EmptyScope) = <<g>> \o (f \o <<EmptyScope>>)
      BY <1>3, <1>5, <2>1, ScopeOps, Zenon
    <3> QED BY <2>5, <3>3, <3>4, Zenon
  <2>8. ASSUME NEW y2, Runs(y, y2), NEW y3, Runs(y2, y3)
        PROVE  Level(y3, code', locals', record')
    <3>1. /\ y2.todo # <<>> /\ y2.todo[1].stmt.kind = "item" /\ y2.todo[1].stmt.name = n
          /\ y2.todo[1].stmt.value = v /\ Tail(y2.todo) = u
      <4>1. y2.todo = ItemAt(n, v) \o u
        BY <2>7, <2>8
      <4>2. /\ y2.todo # <<>> /\ y2.todo[1].stmt = [kind |-> "item", name |-> n, value |-> v]
            /\ Tail(y2.todo) = u
        <5>1. u \in Seq(Items) /\ n \in Local /\ v \in Val
          BY <2>1
        <5> QED BY <4>1, <5>1, HeadItem, Zenon
      <4> QED BY <4>2
    <3>2. Goes(y2, y3, <<>>, Define(y2.env, n, v))
      <4>1. y2.verdict = "running"
        BY <2>7, <2>8
      <4> QED BY <2>8, <3>1, <4>1 DEF Runs
    <3>3. /\ y3.todo = u /\ y3.env = <<g>> \o (f \o <<Bind(sc, n, v)>>)
          /\ y3.verdict = "running"
      <4>1. y3.todo = u /\ y3.env = Define(y2.env, n, v) /\ y3.verdict = "running"
        <5>1. u \in Seq(Items) /\ Tail(y2.todo) = u
          BY <2>1, <3>1
        <5> QED BY <3>2, <5>1, GoesTo, Zenon
      <4>2. Define(<<g>> \o (f \o <<EmptyScope>>), n, v) = <<g>> \o (f \o <<Bind(EmptyScope, n, v)>>)
        <5>1. PICK z : z = EmptyScope
          OBVIOUS
        <5>2. f \in Seq(Above) /\ z \in Above /\ n \in Name /\ v \in Val
          BY <1>3, <2>1, <2>3, <5>1
        <5>3. Define(<<g>> \o (f \o <<z>>), n, v) = <<g>> \o (f \o <<Bind(z, n, v)>>)
          BY <1>5, <5>2, DefineTop, Zenon
        <5> QED BY <5>1, <5>3, Zenon
      <4>3. y2.env = <<g>> \o (f \o <<EmptyScope>>)
        BY <2>7, <2>8
      <4> QED BY <2>1, <4>1, <4>2, <4>3, Zenon
    <3> QED BY <1>4, <1>6, <2>1, <2>3, <2>6, <3>3 DEF Level, Stacks
  <2> QED BY <1>6, <2>5, <2>7, <2>8 DEF Turns
<1> QED BY <1>7, <1>8, <1>9

\* The compiled test passes at the end: there the evaluator passed.
LEMMA ReturnKeeps ==
  ASSUME NEW x, NEW y, Ready(x, code, locals, record), Runs(x, y), Return
  PROVE  Keeps(x, y)
<1>1. code = <<>> /\ result' = "passed" /\ UNCHANGED <<locals, record>>
  BY DEF Return
<1>2. PICK e, k : /\ <<x.todo, e, code, k>> \in Abreast /\ Stacks(x, locals, e, k, record)
                  /\ ~InArm(x.todo, e, code, k)
  BY DEF Ready
<1>3. x.todo = <<>>
  BY <1>1, <1>2, WhereAt DEF AtEnd
<1>4. y.verdict = "passed" /\ y.env = x.env
  BY <1>3 DEF Runs
<1>5. Lookup(x.env, Field) = record
  BY <1>2, AbreastFacts, ValueIs
<1> QED BY <1>1, <1>4, <1>5 DEF Keeps

\* Any step of the compiled test, as long as nothing tells the two apart.
LEMMA ExecuteKeeps ==
  ASSUME NEW x, NEW y, result = "running", Execute, differences' = {}, Runs(x, y),
         Ready(x, code, locals, record) \/ Behind(x, code, locals, record)
  PROVE  Keeps(x, y) \/ Turns(x, y)
<1>1. ~Begin /\ ~SkipCall
  BY DEF Begin, SkipCall, Differ
<1>2. CASE Behind(x, code, locals, record)
  <2>1. code # <<>> /\ Instr.kind = "if"
    <3>1. PICK s \in Statements, d \in Seq(Items) : s.kind = "if" /\ s.elif /\ code = Of(s.else[1], "plain") \o d
      BY <1>2 DEF Behind
    <3>2. s.else[1] \in Statements /\ s.else[1].kind = "if" /\ "plain" \in Modes
      BY <3>1, IfFacts DEF Modes
    <3> QED BY <3>1, <3>2, HeadOf DEF Instr
  <2>2. Branch
    BY <1>1, <2>1 DEF Execute, Dispatch, AssertOrTrap, LetLocal, SetRecord, Loop, Arm, ItemLocal, Return, Op
  <2> QED BY <1>2, <2>2, ElseIfKeeps
<1>3. CASE Ready(x, code, locals, record)
  <2>1. CASE ItemLocal
    <3>1. Advance /\ record' = record
      BY <2>1 DEF ItemLocal
    <3> QED BY <1>3, <2>1, <3>1, PushKeeps, PopKeeps, ItemKeeps DEF ItemLocal
  <2> QED BY <1>1, <1>3, <2>1, DispatchKeeps, AssertKeeps, LetKeeps, SetKeeps, BranchKeeps, LoopKeeps,
             ArmKeeps, ReturnKeeps DEF Execute
<1> QED BY <1>2, <1>3

-----------------------------------------------------------------------------
(* The evaluator's finished run, and the verdicts. *)

\* The points the evaluator's run came by.
Trace(n, tr) ==
  /\ tr[0] = [todo |-> In("test", test), env |-> Fresh, verdict |-> "running"]
  /\ tr[n] = Now
  /\ \A k \in 0..(n - 1) : Runs(tr[k], tr[k + 1])

\* The compiled test is where the evaluator was at one of them.
Alongside(n, tr) ==
  \E k \in 0..n : Level(tr[k], code, locals, record) \/ Behind(tr[k], code, locals, record)

OutcomeInv ==
  /\ CleanInv
  /\ record \in Val
  /\ result = "none" => differences = {} /\ locals = <<EmptyScope>>
  /\ result # "none" => verdict # "running"
  /\ "argument" \in differences => result = "failed"
  /\ \E n \in Nat : \E tr :
       Trace(n, tr) /\ (result = "running" /\ differences = {} => Alongside(n, tr))
  /\ result \in {"passed", "failed"} /\ differences = {} =>
       result = verdict /\ (verdict = "passed" => Lookup(env, Field) = record)

\* At the start the trace is the one point of the test to run.
LEMMA InitOutcome == Init => OutcomeInv
<1> SUFFICES ASSUME Init PROVE OutcomeInv
  OBVIOUS
<1>1. /\ todo = In("test", test) /\ env = Fresh /\ verdict = "running"
      /\ locals = <<EmptyScope>> /\ record \in Val /\ result = "none" /\ differences = {}
  BY DEF Init
<1> DEFINE tr == [k \in {0} |-> Now]
<1>2. tr[0] = Now /\ Now = [todo |-> In("test", test), env |-> Fresh, verdict |-> "running"]
  BY <1>1 DEF Now
<1> HIDE DEF tr
<1>3. Trace(0, tr)
  BY <1>2 DEF Trace
<1> QED BY <1>1, <1>3, InitClean DEF OutcomeInv

\* The evaluator, which runs first, leaves one more point.
LEMMA EvaluateOutcome ==
  ASSUME OutcomeInv, Evaluate
  PROVE  OutcomeInv'
<1>1. /\ verdict = "running" /\ UNCHANGED <<test, mocks, compiled>>
  BY DEF Evaluate, Call, CallUnknown, Check, Let, SetField, If, For, Match, Push, Item, Pop, Pass, Step
<1>2. UNCHANGED <<code, locals, record, result, differences, test>>
  BY <1>1 DEF compiled
<1>3. result = "none"
  BY <1>1 DEF OutcomeInv
<1>4. CleanInv'
  BY EvaluateKeepsClean DEF OutcomeInv
<1>5. PICK n \in Nat : \E tr : Trace(n, tr)
  BY DEF OutcomeInv
<1>6. PICK tr : Trace(n, tr)
  BY <1>5
<1>7. PICK now : now = Now'
  OBVIOUS
<1> DEFINE q == [k \in 0..(n + 1) |-> IF k = n + 1 THEN now ELSE tr[k]]
<1>8. n + 1 \in Nat /\ q[n + 1] = now /\ \A k \in 0..n : q[k] = tr[k] /\ k \in 0..(n + 1)
  OBVIOUS
<1> HIDE DEF q
<1>9. Trace(n + 1, q)'
  <2>1. q[0] = [todo |-> In("test", test'), env |-> Fresh, verdict |-> "running"]
    BY <1>2, <1>8, <1>6 DEF Trace
  <2>2. ASSUME NEW k \in 0..n PROVE Runs(q[k], q[k + 1])
    <3>1. CASE k = n
      BY <1>8, <1>6, <1>7, <3>1, EvaluateRuns DEF Trace
    <3>2. CASE k # n
      <4>1. k \in 0..(n - 1) /\ k + 1 \in 0..n
        BY <3>2
      <4> QED BY <1>8, <1>6, <4>1 DEF Trace
    <3> QED BY <3>1, <3>2
  <2>3. (n + 1) - 1 = n
    OBVIOUS
  <2> QED BY <1>8, <1>7, <2>1, <2>2, <2>3 DEF Trace, Now
<1> QED BY <1>2, <1>3, <1>4, <1>8, <1>9 DEF OutcomeInv

\* The differences that a step finds are on record.
LEMMA DifferencesStay ==
  ASSUME Execute, ~Begin
  PROVE  /\ result = "running" /\ differences \subseteq differences'
         /\ UNCHANGED <<test, todo, env, verdict>>
BY DEF Execute, Dispatch, SkipCall, AssertOrTrap, LetLocal, SetRecord, Branch, Loop, Arm, ItemLocal,
       Return, Op, Differ, Agree, evaluator

\* A call with an argument traps in the compiled test.
LEMMA ArgumentTraps ==
  ASSUME Execute, ~Begin, "argument" \notin differences, "argument" \in differences'
  PROVE  result' = "failed"
<1>1. CASE Dispatch
  BY <1>1 DEF Dispatch, Differ, Agree, Trap
<1>2. ~Differ("nested call") /\ ~Differ("field's name") /\ ~Differ("else if")
  <2>1. ASSUME NEW what, what # "argument" PROVE ~Differ(what)
    <3>1. "argument" \notin differences \cup {what}
      BY <2>1
    <3> QED BY <3>1, Zenon DEF Differ
  <2> QED BY <2>1
<1>3. ~Agree
  BY DEF Agree
<1>4. CASE ~Dispatch
  BY <1>2, <1>3, <1>4 DEF Execute, SkipCall, AssertOrTrap, LetLocal, SetRecord, Branch, Loop, Arm,
     ItemLocal, Return, Agree
<1> QED BY <1>1, <1>4

\* The record always has a value.
LEMMA RecordType ==
  ASSUME CleanInv, Execute, record \in Val
  PROVE  record' \in Val
<1>1. CASE Begin
  BY <1>1, TestRunsAssumption DEF Begin
<1>2. CASE Dispatch
  BY <1>2, TestRunsAssumption DEF Dispatch, Trap
<1>3. CASE SetRecord
  <2>1. Op("set") /\ record' = Instr.value
    BY <1>3 DEF SetRecord
  <2>2. Instr \in Statements /\ Instr.kind = "set"
    BY <2>1, OpFacts
  <2> QED BY <2>1, <2>2, StatementFacts
<1> QED BY <1>1, <1>2, <1>3
     DEF Execute, SkipCall, AssertOrTrap, LetLocal, Branch, Loop, Arm, ItemLocal, Return, Trap

\* The compiled test begins alongside the trace's first point.
LEMMA BeginsAlongside ==
  ASSUME OutcomeInv, Begin, NEW n \in Nat, NEW tr, Trace(n, tr)
  PROVE  Alongside(n, tr)'
<1>1. /\ code' = In("test", test) /\ record' = Initial /\ locals' = <<EmptyScope>>
  BY DEF Begin, OutcomeInv
<1>2. test \in Seq(Statements) /\ "test" \in Modes
  BY StatementsAssumption DEF OutcomeInv, CleanInv, Modes
<1> DEFINE s == In("test", test)
           g == [n1 \in Name |-> IF n1 = Field THEN Initial ELSE Unbound]
<1>3. <<s, <<>>, s, <<>>>> \in Abreast
  <2>1. <<<<>>, <<>>, <<>>, <<>>>> \in Abreast
    BY AbreastClosed DEF Closed
  <2>2. <<s \o <<>>, <<>>, s \o <<>>, <<>>>> \in Abreast
    BY <1>2, <2>1, InAbreast
  <2>3. s \in Seq(Items)
    BY <1>2, NeutralIn DEF Neutral
  <2> HIDE DEF s
  <2> QED BY <2>2, <2>3, ConcatEmptySeq
<1>4. Bottom(g, EmptyScope, Initial)
  <2>1. Initial \in Slot /\ Unbound \in Slot /\ Initial \in Val /\ Field \in Name /\ Local \subseteq Name
        /\ Field \notin Local /\ EmptyScope \in Above
    BY AboveFacts, TestRunsAssumption DEF Slot
  <2> QED BY <2>1 DEF Bottom, Scope, EmptyScope
<1>5. <<g>> \o <<>> = Fresh /\ <<EmptyScope>> \o <<>> = <<EmptyScope>>
  <2>1. ASSUME NEW z \in Scope PROVE <<z>> \o <<>> = <<z>>
    <3>1. <<z>> \in Seq(Scope)
      OBVIOUS
    <3> QED BY <3>1, ConcatEmptySeq
  <2>2. Fresh = <<g>>
    BY DEF Fresh
  <2> HIDE DEF g
  <2> QED BY <1>4, <2>1, <2>2 DEF Bottom
<1>6. tr[0].todo = s /\ tr[0].env = Fresh /\ tr[0].verdict = "running"
  BY DEF Trace
<1> HIDE DEF s, g
<1>7. Level(tr[0], code', locals', record')
  BY <1>1, <1>3, <1>4, <1>5, <1>6 DEF Level, Stacks, s
<1>8. 0 \in 0..n
  OBVIOUS
<1> QED BY <1>7, <1>8 DEF Alongside

\* The evaluator went on from where the compiled test is.
LEMMA StandsReady ==
  ASSUME NEW n \in Nat, NEW tr, Trace(n, tr), verdict # "running", Alongside(n, tr)
  PROVE  \E k \in 0..(n - 1) :
           Ready(tr[k], code, locals, record) \/ Behind(tr[k], code, locals, record)
<1>0. tr[n].verdict # "running"
  BY DEF Trace, Now
<1>1. PICK k \in 0..n : Level(tr[k], code, locals, record) \/ Behind(tr[k], code, locals, record)
  BY DEF Alongside
<1>2. CASE Behind(tr[k], code, locals, record)
  <2>1. tr[k].verdict = "running"
    BY <1>2 DEF Behind, Stacks
  <2>2. k \in 0..(n - 1)
    BY <1>0, <2>1
  <2> QED BY <1>2, <2>2
<1>3. CASE Level(tr[k], code, locals, record)
  <2> SUFFICES ASSUME \A j \in 0..(n - 1) : ~Ready(tr[j], code, locals, record)
               PROVE  FALSE
    OBVIOUS
  <2> DEFINE m == n - k + 1
             S == {i \in 1..m : Level(tr[k + i - 1], code, locals, record)}
  <2>1. m \in Nat /\ m >= 1 /\ k + 1 - 1 = k /\ 1 \in 1..m /\ m \in 1..m /\ k + m - 1 = n
    OBVIOUS
  <2>2. 1 \in S
    BY <1>3, <2>1
  <2>3. ASSUME NEW i \in 1..m, i \in S, i < m PROVE i + 1 \in S
    <3>1. /\ k + i - 1 \in 0..(n - 1) /\ i + 1 \in 1..m
          /\ k + (i + 1) - 1 = (k + i - 1) + 1
      BY <2>3
    <3>2. Runs(tr[k + i - 1], tr[(k + i - 1) + 1])
      BY <3>1 DEF Trace
    <3>3. Level(tr[k + i - 1], code, locals, record) /\ ~Ready(tr[k + i - 1], code, locals, record)
      BY <2>3, <3>1
    <3>4. Level(tr[(k + i - 1) + 1], code, locals, record)
      BY <3>2, <3>3, ArmMoves
    <3> QED BY <3>1, <3>4
  <2> HIDE DEF S, m
  <2>4. 1..m \subseteq S
    BY <2>1, <2>2, <2>3, Upwards
  <2>5. Level(tr[n], code, locals, record)
    BY <2>1, <2>4 DEF S
  <2> QED BY <1>0, <2>5 DEF Level, Stacks
<1> QED BY <1>1, <1>2, <1>3

\* A step of the compiled test: it stays alongside, or ends as the evaluator did.
LEMMA ExecuteOutcome ==
  ASSUME OutcomeInv, Execute
  PROVE  OutcomeInv'
<1>0. CleanInv' /\ record' \in Val
  BY ExecuteKeepsClean, RecordType DEF OutcomeInv
<1>n. PICK n \in Nat : \E tr :
        Trace(n, tr) /\ (result = "running" /\ differences = {} => Alongside(n, tr))
  BY DEF OutcomeInv
<1>1. PICK tr :
        Trace(n, tr) /\ (result = "running" /\ differences = {} => Alongside(n, tr))
  BY <1>n
<1>2. CASE Begin
  <2>1. /\ result' = "running" /\ verdict' = verdict /\ verdict # "running"
        /\ UNCHANGED <<test, todo, env, differences>>
    BY <1>2 DEF Begin, evaluator
  <2>2. differences' = {}
    BY <1>2, <2>1 DEF Begin, OutcomeInv
  <2>3. Trace(n, tr)'
    BY <1>1, <2>1 DEF Trace, Now
  <2>4. Alongside(n, tr)'
    BY <1>1, <1>2, BeginsAlongside
  <2> QED BY <1>0, <2>1, <2>2, <2>3, <2>4 DEF OutcomeInv
<1>3. CASE ~Begin
  <2>1. /\ result = "running" /\ differences \subseteq differences'
        /\ UNCHANGED <<test, todo, env, verdict>>
    BY <1>3, DifferencesStay
  <2>2. verdict' # "running" /\ verdict # "running" /\ "argument" \notin differences
    BY <2>1 DEF OutcomeInv
  <2>3. "argument" \in differences' => result' = "failed"
    BY <1>3, <2>2, ArgumentTraps
  <2>4. Trace(n, tr)'
    BY <1>1, <2>1 DEF Trace, Now
  <2>5. result' # "none"
    BY <1>3, <2>1 DEF Execute, Dispatch, SkipCall, AssertOrTrap, LetLocal, SetRecord, Branch, Loop,
       Arm, ItemLocal, Return, Trap, Advance, Splice
  <2>6. CASE differences' # {}
    BY <1>0, <2>2, <2>3, <2>4, <2>5, <2>6 DEF OutcomeInv
  <2>7. CASE differences' = {}
    <3>1. Alongside(n, tr)
      BY <1>1, <2>1, <2>7
    <3>2. PICK k \in 0..(n - 1) :
            Ready(tr[k], code, locals, record) \/ Behind(tr[k], code, locals, record)
      BY <1>1, <2>2, <3>1, StandsReady
    <3>3. /\ k \in 0..n /\ k + 1 \in 0..n /\ n \in 0..n
          /\ \A j \in 0..n : j # n => j \in 0..(n - 1) /\ j + 1 \in 0..n
      OBVIOUS
    <3>4. Runs(tr[k], tr[k + 1])
      BY <1>1 DEF Trace
    <3>5. \A j \in 0..n : tr[j].verdict = "running" => j # n /\ Runs(tr[j], tr[j + 1])
      <4>1. tr[n].verdict # "running"
        BY <1>1, <2>2 DEF Trace, Now
      <4> QED BY <1>1, <3>3, <4>1 DEF Trace
    <3>6. Keeps(tr[k], tr[k + 1]) \/ Turns(tr[k], tr[k + 1])
      BY <2>1, <2>7, <3>2, <3>4, ExecuteKeeps
    <3>7. CASE Turns(tr[k], tr[k + 1])
      <4>1. result' = "running" /\ tr[k + 1].verdict = "running"
        BY <3>7 DEF Turns
      <4>2. Runs(tr[k + 1], tr[(k + 1) + 1]) /\ (k + 1) + 1 \in 0..n
        BY <3>3, <3>5, <4>1
      <4>3. tr[(k + 1) + 1].verdict = "running"
        BY <3>7, <4>2 DEF Turns
      <4>4. /\ Runs(tr[(k + 1) + 1], tr[((k + 1) + 1) + 1]) /\ ((k + 1) + 1) + 1 \in 0..n
        BY <3>3, <3>5, <4>2, <4>3
      <4>5. Level(tr[((k + 1) + 1) + 1], code', locals', record')
        BY <3>7, <4>2, <4>4 DEF Turns
      <4>6. Alongside(n, tr)'
        BY <4>4, <4>5 DEF Alongside
      <4> QED BY <1>0, <2>2, <2>3, <2>4, <4>1, <4>6 DEF OutcomeInv
    <3>8. CASE result' = "running" /\ Keeps(tr[k], tr[k + 1])
      <4>1. Alongside(n, tr)'
        BY <3>3, <3>8 DEF Keeps, Alongside
      <4> QED BY <1>0, <2>2, <2>3, <2>4, <3>8, <4>1 DEF OutcomeInv
    <3>9. CASE result' # "running" /\ Keeps(tr[k], tr[k + 1])
      <4>1. /\ result' = tr[k + 1].verdict /\ result' \in {"passed", "failed"}
            /\ result' = "passed" => Lookup(tr[k + 1].env, Field) = record'
        BY <3>9 DEF Keeps
      <4>2. ASSUME k + 1 # n PROVE FALSE
        <5>1. Runs(tr[k + 1], tr[(k + 1) + 1])
          BY <1>1, <3>3, <4>2 DEF Trace
        <5> QED BY <4>1, <5>1 DEF Runs
      <4>3. result' = verdict /\ (verdict = "passed" => Lookup(env, Field) = record')
        BY <1>1, <4>1, <4>2 DEF Trace, Now
      <4> QED BY <1>0, <2>1, <2>2, <2>3, <2>4, <4>1, <4>3 DEF OutcomeInv
    <3> QED BY <3>6, <3>7, <3>8, <3>9
  <2> QED BY <2>6, <2>7
<1> QED BY <1>2, <1>3

\* Every step, of either run, keeps the invariant.
LEMMA NextOutcome == OutcomeInv /\ [Next]_vars => OutcomeInv'
<1>1. ASSUME OutcomeInv, UNCHANGED vars PROVE OutcomeInv'
  <2>1. UNCHANGED <<test, mocks, todo, env, verdict, code, locals, record, result, made,
                    skipped, differences>>
    BY <1>1, Zenon DEF vars
  <2>2. CleanInv'
    BY <1>1, <2>1, NextClean DEF OutcomeInv
  <2>n. PICK n \in Nat : \E tr :
          Trace(n, tr) /\ (result = "running" /\ differences = {} => Alongside(n, tr))
    BY <1>1 DEF OutcomeInv
  <2>3. PICK tr :
          Trace(n, tr) /\ (result = "running" /\ differences = {} => Alongside(n, tr))
    BY <2>n
  <2>4. (Trace(n, tr) /\ (result = "running" /\ differences = {} => Alongside(n, tr)))'
    BY <2>1, <2>3 DEF Trace, Alongside, Now
  <2> QED BY <1>1, <2>1, <2>2, <2>4 DEF OutcomeInv
<1> QED BY <1>1, EvaluateOutcome, ExecuteOutcome DEF Next

\* Whatever the tests, the actions and what they do, and whatever ran on the
\* module's instance before: unless one of the named differences came up, the
\* two runs give one verdict and a passed test one field; and with calls with
\* arguments as the only difference, what the compiled test lets pass the
\* evaluator passes.
THEOREM OneVerdict == Spec => []SameOutcome
<1>1. Spec => []OutcomeInv
  BY InitOutcome, NextOutcome, PTL DEF Spec
<1>2. OutcomeInv => SameOutcome
  <2> SUFFICES ASSUME OutcomeInv PROVE SameOutcome
    OBVIOUS
  <2>1. Settled /\ differences = {} =>
          result = verdict /\ (verdict = "passed" => Lookup(env, Field) = record)
    BY DEF OutcomeInv, Settled
  <2>2. Settled /\ differences \subseteq {"argument"} => (result = "passed" => verdict = "passed")
    <3> SUFFICES ASSUME Settled, differences \subseteq {"argument"}, result = "passed"
                 PROVE  verdict = "passed"
      OBVIOUS
    <3>1. "argument" \notin differences
      BY DEF OutcomeInv
    <3>2. differences = {}
      BY <3>1
    <3> QED BY <2>1, <3>2
  <2> QED BY <2>1, <2>2 DEF SameOutcome
<1> QED BY <1>1, <1>2, PTL
=============================================================================
