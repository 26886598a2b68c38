------------------------- MODULE ModuleAssemblyProofs -------------------------
(***************************************************************************)
(* What the numbers in an assembled module name, for programs of any size: *)
(* the addresses of strings, the indices of functions, the slots of the    *)
(* table.  The generator counts in three places and never compares; the    *)
(* invariant says what the counts have in common.                          *)
(***************************************************************************)
EXTENDS ModuleAssembly, SequenceTheorems, FiniteSetTheorems, TLAPS

Stage == {"init", "dispatch_action", "render", "plain", "update",
          "handle_event", "invoke", "lambdas", "tests", "sections", "valid",
          "rejected", "failed"}
Before == {"init", "dispatch_action", "render", "plain", "update",
           "handle_event", "invoke"}
Behind == {"lambdas", "tests", "sections", "valid", "rejected"}

Lambda(body) == [kind |-> "lambda", no |-> body]
TestCase(i) == [kind |-> "test", no |-> i]

Context == [fun : Fun, next : Nat, data : Seq(Byte), cache : SUBSET (Str \X Nat),
            bodies : Seq(Nat), base : Nat]

AssemblyTypes ==
  /\ stage \in Stage
  /\ funcs \in Seq(Fun) /\ nextIdx = Prefix + Len(funcs)
  /\ numSpaceFuncs \in Nat /\ numTestFuncs \in Nat
  /\ lambdaBodies \in Seq(Nat) /\ remaining \in Seq(Nat)
  /\ nextOffset \in Nat /\ userData \in Seq(Byte)
  /\ Emitting => ctx \in Context /\ ctx.fun \in Due
  /\ refs \subseteq Str \X Nat

\* The offset is the length of the data, and a context's cache holds strings
\* that are there.
StringInv ==
  stage # "failed" =>
    /\ nextOffset = Len(Segment)
    /\ Emitting => ctx.next = Len(Segment) + Len(ctx.data) /\ ctx.cache \subseteq refs
    /\ StringsRight

\* Lambdas are numbered in the order in which their bodies are listed.
BodyInv ==
  /\ IsFiniteSet(closures)
  /\ \A c \in closures : c.body \in 0..(Cardinality(closures) - 1)
  /\ stage # "failed" =>
       /\ \A i \in 1..Len(lambdaBodies) : lambdaBodies[i] = i - 1
       /\ Emitting =>
            \A j \in 1..Len(ctx.bodies) : ctx.bodies[j] = Len(lambdaBodies) + j - 1
       /\ Cardinality(closures) =
            Len(lambdaBodies) + IF Emitting THEN Len(ctx.bodies) ELSE 0

\* The functions of the space itself.
SpaceLength ==
  /\ stage = "init" => Len(funcs) = 0
  /\ stage = "dispatch_action" => Len(funcs) = 1
  /\ stage = "render" => Len(funcs) = 2
  /\ stage = "plain" => Len(funcs) = 3
  /\ stage = "update" => Len(funcs) = 5
  /\ stage = "handle_event" => 5 <= Len(funcs) /\ Len(funcs) <= 6
  /\ stage = "invoke" => 5 <= Len(funcs) /\ Len(funcs) <= 7

SpaceKinds == Infra \ {"invoke_lambda", "test_count"}

OfSpace(n) ==
  /\ \A i \in 1..n : funcs[i].kind \in SpaceKinds
  /\ n >= 1 => funcs[1] = F("init")
  /\ n >= 2 => funcs[2] = F("dispatch_action")
  /\ n >= 3 => funcs[3] = F("render")
  /\ n >= 4 => funcs[4] = F("get_state")
  /\ n >= 5 => funcs[5] = F("dealloc")

\* How many lambdas were compiled, and where the tests begin.
Done == Len(funcs) - numSpaceFuncs - 1 - numTestFuncs
FirstTest == numSpaceFuncs + 1 + Done + 1

Layout ==
  /\ stage \in Before =>
       SpaceLength /\ OfSpace(Len(funcs)) /\ numSpaceFuncs = 0 /\ numTestFuncs = 0
  /\ stage \in Behind =>
       /\ numSpaceFuncs \in 5..7 /\ OfSpace(numSpaceFuncs)
       /\ funcs[numSpaceFuncs + 1] = F("invoke_lambda")
       /\ Done \in 0..Len(lambdaBodies)
       /\ \A j \in 1..Done : funcs[numSpaceFuncs + 1 + j] = Lambda(j - 1)
       /\ Done + Len(remaining) <= Len(lambdaBodies)
       /\ \A j \in 1..Len(remaining) : remaining[j] = Done + j - 1
  /\ stage = "lambdas" => numTestFuncs = 0
  /\ stage = "tests" =>
       \A i \in 0..(numTestFuncs - 1) : funcs[FirstTest + i] = TestCase(i)
  /\ stage \in {"sections", "valid", "rejected"} /\ numTestFuncs # 0 =>
       /\ \A i \in 0..(numTestFuncs - 2) : funcs[FirstTest + i] = TestCase(i)
       /\ funcs[FirstTest + numTestFuncs - 1] = F("test_count")
  /\ stage = "rejected" => Done < Len(lambdaBodies)

\* What is recorded is the function, or the one being emitted.
Recorded ==
  /\ stage # "failed" =>
       \A entry \in functionTable :
         /\ entry[2] \in Prefix..nextIdx
         /\ \/ entry[2] < nextIdx /\ FunAt(entry[2]) = F(entry[1])
            \/ Emitting /\ ctx.fun = F(entry[1]) /\ entry[2] = nextIdx
  /\ \A entry \in sourceMap :
       /\ entry.index \in Prefix..(nextIdx - 1)
       /\ FunAt(entry.index) = entry.fun

AssemblyInv ==
  AssemblyTypes /\ StringInv /\ BodyInv /\ Layout /\ Recorded

-----------------------------------------------------------------------------
\* Types

LEMMA PrefixNat == Prefix \in Nat
BY AssemblyConstants DEF Prefix

\* The functions that may be opened.
LEMMA DueFacts ==
  ASSUME AssemblyTypes, NEW fun \in Due
  PROVE  /\ fun \in Fun /\ fun.kind \notin {"invoke_lambda", "test_count"}
         /\ stage \in {"init", "dispatch_action", "render", "update",
                       "handle_event"} => fun = F(stage)
         /\ stage = "lambdas" => remaining # <<>> /\ fun = Lambda(Head(remaining))
         /\ stage = "tests" => fun = TestCase(numTestFuncs)
         /\ stage \in {"init", "dispatch_action", "render", "update",
                       "handle_event", "lambdas", "tests"}
<1>1. CASE stage \in {"init", "dispatch_action", "render", "update", "handle_event"}
  <2>1. fun = F(stage)
    BY <1>1 DEF Due
  <2> QED
    BY <1>1, <2>1 DEF F, Fun, Infra
<1>2. CASE stage = "lambdas" /\ remaining # <<>>
  <2>1. fun = Lambda(Head(remaining))
    BY <1>2 DEF Due, Lambda
  <2>2. Head(remaining) \in Nat
    BY <1>2, HeadTailProperties DEF AssemblyTypes
  <2> QED
    BY <1>2, <2>1, <2>2 DEF Lambda, Fun
<1>3. CASE stage = "tests" /\ numTestFuncs < MaxTests
  <2>1. fun = TestCase(numTestFuncs)
    BY <1>3 DEF Due, TestCase
  <2> QED
    BY <1>3, <2>1 DEF TestCase, Fun, AssemblyTypes
<1> QED
  BY <1>1, <1>2, <1>3 DEF Due

LEMMA ContextTyped ==
  ASSUME AssemblyTypes, NEW fun \in Due
  PROVE  NewContext(fun) \in Context /\ NewContext(fun) # NoCtx
<1>1. Prefix + numSpaceFuncs + 1 + Len(lambdaBodies) \in Nat
  BY PrefixNat, LenProperties DEF AssemblyTypes
<1>2. fun \in Fun /\ fun.kind # "invoke_lambda"
  BY DueFacts
<1>3. NewContext(fun) \in Context
  BY <1>1, <1>2, EmptySeq DEF NewContext, Context, AssemblyTypes
<1>4. NewContext(fun).fun # NoCtx.fun
  BY <1>2 DEF NewContext, NoCtx, F
<1> QED
  BY <1>3, <1>4

LEMMA InitTypes == MInit => AssemblyTypes
<1> SUFFICES ASSUME MInit PROVE AssemblyTypes
  OBVIOUS
<1>1. Len(WellKnown) \in Nat
  BY AssemblyConstants, LenProperties
<1>2. stage \in Stage /\ ~Emitting
  BY DEF MInit, Stage, Emitting
<1>3. funcs = <<>> /\ lambdaBodies = <<>> /\ remaining = <<>> /\ userData = <<>>
        /\ nextIdx = Prefix /\ numSpaceFuncs = 0 /\ numTestFuncs = 0 /\ refs = {}
        /\ nextOffset = Len(WellKnown)
  BY DEF MInit
<1> QED
  BY <1>1, <1>2, <1>3, PrefixNat, EmptySeq DEF AssemblyTypes

LEMMA InternNewTyped ==
  ASSUME AssemblyTypes, NEW s \in Str, InternNew(s)
  PROVE  ctx' \in Context /\ ctx'.fun = ctx.fun /\ refs' \subseteq Str \X Nat
<1>1. ctx \in Context /\ Text[s] \in Seq(Byte) /\ Len(Text[s]) \in Nat
  BY AssemblyConstants, LenProperties DEF AssemblyTypes, InternNew
<1>2. ctx.data \o Text[s] \in Seq(Byte)
  BY <1>1, ConcatProperties DEF Context
<1>3. ctx.cache \cup {<<s, ctx.next>>} \subseteq Str \X Nat
  BY <1>1 DEF Context
<1>4. ctx.next + Len(Text[s]) \in Nat
  BY <1>1 DEF Context
<1>5. ctx' = [ctx EXCEPT !.next = ctx.next + Len(Text[s]),
                         !.data = ctx.data \o Text[s],
                         !.cache = ctx.cache \cup {<<s, ctx.next>>}]
  BY DEF InternNew
<1>6. ctx' \in Context /\ ctx'.fun = ctx.fun
  BY <1>1, <1>2, <1>3, <1>4, <1>5 DEF Context
<1>7. refs' \subseteq Str \X Nat
  BY <1>1 DEF InternNew, AssemblyTypes, Context
<1> QED
  BY <1>6, <1>7

LEMMA RegisterTyped ==
  ASSUME AssemblyTypes, BodyInv, RegisterLambda
  PROVE  ctx' \in Context /\ ctx'.fun = ctx.fun
<1>1. ctx \in Context /\ Cardinality(closures) \in Nat
  BY FS_CardinalityType DEF AssemblyTypes, RegisterLambda, BodyInv
<1>2. Append(ctx.bodies, Cardinality(closures)) \in Seq(Nat)
  BY <1>1, AppendProperties DEF Context
<1>3. ctx' = [ctx EXCEPT !.bodies = Append(ctx.bodies, Cardinality(closures))]
  BY DEF RegisterLambda
<1> QED
  BY <1>1, <1>2, <1>3 DEF Context

LEMMA CloseTyped ==
  ASSUME AssemblyTypes, Close
  PROVE  AssemblyTypes'
<1>1. ctx \in Context /\ ctx.fun \in Due
  BY DEF Close, AssemblyTypes
<1>2. /\ ctx.fun \in Fun
      /\ ctx.fun.kind = "lambda" => stage = "lambdas" /\ remaining # <<>>
  BY <1>1, DueFacts DEF F, TestCase
<1>3. funcs' \in Seq(Fun) /\ nextIdx' = Prefix + Len(funcs') /\ ~Emitting'
  BY <1>2, PrefixNat, AppendProperties, LenProperties
     DEF AssemblyTypes, Close, IndexAfter, Emitting
<1>4. stage' \in Stage
  BY DEF Close, StageAfter, Stage, AssemblyTypes
<1>5. userData' \in Seq(Byte) /\ lambdaBodies' \in Seq(Nat) /\ nextOffset' \in Nat
  BY <1>1, ConcatProperties DEF AssemblyTypes, Close, Merge, Context
<1>6. remaining' \in Seq(Nat)
  BY <1>2, HeadTailProperties DEF AssemblyTypes, Close
<1>7. numTestFuncs' \in Nat /\ numSpaceFuncs' \in Nat /\ refs' \subseteq Str \X Nat
  BY DEF AssemblyTypes, Close
<1> QED
  BY <1>3, <1>4, <1>5, <1>6, <1>7 DEF AssemblyTypes

LEMMA TypesStep ==
  ASSUME AssemblyTypes, BodyInv, MNext
  PROVE  AssemblyTypes'
<1> USE PrefixNat
<1>1. ASSUME NEW fun \in Due, Open(fun) PROVE AssemblyTypes'
  <2>1. Due' = Due /\ ctx' = NewContext(fun)
    BY <1>1 DEF Open, Due
  <2>2. ctx' \in Context /\ ctx'.fun \in Due'
    BY <2>1, ContextTyped DEF NewContext
  <2> QED
    BY <1>1, <2>2 DEF AssemblyTypes, Open
<1>2. ASSUME NEW s \in Str, InternNew(s) PROVE AssemblyTypes'
  <2>1. Due' = Due
    BY <1>2 DEF InternNew, InEmission, Due
  <2>2. ctx' \in Context /\ ctx'.fun \in Due' /\ refs' \subseteq Str \X Nat
    <3>1. ctx.fun \in Due
      BY <1>2 DEF AssemblyTypes, InternNew
    <3> QED
      BY <1>2, <2>1, <3>1, InternNewTyped
  <2> QED
    BY <1>2, <2>2 DEF AssemblyTypes, InternNew, InEmission
<1>3. ASSUME NEW s \in Str, InternCached(s) PROVE AssemblyTypes'
  <2>1. Due' = Due /\ Emitting' = Emitting
    BY <1>3 DEF InternCached, InEmission, Due, Emitting
  <2>2. refs' \subseteq Str \X Nat
    BY <1>3 DEF AssemblyTypes, InternCached, Context
  <2> QED
    BY <1>3, <2>1, <2>2 DEF AssemblyTypes, InternCached, InEmission
<1>4. CASE RegisterLambda
  <2>1. Due' = Due
    BY <1>4 DEF RegisterLambda, InEmission, Due
  <2>2. ctx' \in Context /\ ctx'.fun \in Due'
    BY <1>4, <2>1, RegisterTyped DEF AssemblyTypes, RegisterLambda
  <2> QED
    BY <1>4, <2>2 DEF AssemblyTypes, RegisterLambda, InEmission
<1>5. CASE Close
  BY <1>5, CloseTyped
<1>6. CASE Abort
  BY <1>6 DEF AssemblyTypes, Abort, Stage, Emitting
<1>7. CASE EmitPlain
  <2>1. ~Emitting
    BY <1>7, DueFacts DEF AssemblyTypes, EmitPlain
  <2>2. /\ <<F("get_state"), F("dealloc")>> \in Seq(Fun)
        /\ Len(<<F("get_state"), F("dealloc")>>) = 2
    BY DEF F, Fun, Infra
  <2>3. funcs' \in Seq(Fun) /\ Len(funcs') = Len(funcs) + 2
    BY <1>7, <2>2, ConcatProperties DEF AssemblyTypes, EmitPlain
  <2> QED
    BY <1>7, <2>1, <2>3, LenProperties DEF AssemblyTypes, EmitPlain, Sections, Stage, Emitting
<1>8. CASE SkipOptional
  BY <1>8 DEF AssemblyTypes, SkipOptional, Sections, Stage, Emitting
<1>9. CASE EmitInvoke
  <2>1. ~Emitting
    BY <1>9, DueFacts DEF AssemblyTypes, EmitInvoke
  <2>2. F("invoke_lambda") \in Fun
    BY DEF F, Fun, Infra
  <2>3. funcs' \in Seq(Fun) /\ Len(funcs') = Len(funcs) + 1
    BY <1>9, <2>2, AppendProperties DEF AssemblyTypes, EmitInvoke
  <2>4. numSpaceFuncs' \in Nat
    BY <1>9, LenProperties DEF AssemblyTypes, EmitInvoke, SpaceFuncs
  <2> QED
    BY <1>9, <2>1, <2>3, <2>4, LenProperties DEF AssemblyTypes, EmitInvoke, Stage, Emitting
<1>10. CASE EndLambdas
  BY <1>10 DEF AssemblyTypes, EndLambdas, Sections, Stage, Emitting
<1>11. CASE EndTests
  <2>1. F("test_count") \in Fun
    BY DEF F, Fun, Infra
  <2>2. funcs' \in Seq(Fun) /\ nextIdx' = Prefix + Len(funcs') /\ numTestFuncs' \in Nat
    <3>1. CASE numTestFuncs # 0
      <4>1. /\ funcs' = Append(funcs, F("test_count")) /\ nextIdx' = nextIdx + 1
            /\ numTestFuncs' = numTestFuncs + 1
        BY <1>11, <3>1 DEF EndTests
      <4>2. Len(funcs') = Len(funcs) + 1 /\ funcs' \in Seq(Fun) /\ Len(funcs) \in Nat
        BY <2>1, <4>1, AppendProperties, LenProperties DEF AssemblyTypes
      <4> QED
        BY <4>1, <4>2 DEF AssemblyTypes
    <3>2. CASE numTestFuncs = 0
      <4>1. funcs' = funcs /\ nextIdx' = nextIdx /\ numTestFuncs' = numTestFuncs
        BY <1>11, <3>2 DEF EndTests, F
      <4> QED
        BY <4>1 DEF AssemblyTypes
    <3> QED
      BY <3>1, <3>2
  <2> QED
    BY <1>11, <2>2 DEF AssemblyTypes, EndTests, Stage, Emitting
<1>12. CASE WriteSections
  <2>1. ~Emitting
    BY <1>12, DueFacts DEF AssemblyTypes, WriteSections
  <2> QED
    BY <1>12, <2>1 DEF AssemblyTypes, WriteSections, Sections, Stage, Emitting
<1> QED
  BY <1>1, <1>2, <1>3, <1>4, <1>5, <1>6, <1>7, <1>8, <1>9, <1>10, <1>11, <1>12
     DEF MNext

\* Nothing happens after a failure.
LEMMA NotFailed ==
  ASSUME AssemblyTypes, MNext
  PROVE  stage # "failed"
<1>1. Emitting => stage # "failed"
  BY DueFacts DEF AssemblyTypes
<1>2. \A fun \in Due : stage # "failed"
  BY DueFacts
<1> QED
  BY <1>1, <1>2 DEF MNext, InternNew, InternCached, RegisterLambda, Close, Abort,
     EmitPlain, SkipOptional, EmitInvoke, EndLambdas, EndTests, WriteSections

-----------------------------------------------------------------------------
\* Strings

\* The string t is found at offset off.
Points(bytes, t, off) ==
  /\ off + Len(t) <= Len(bytes)
  /\ SubSeq(bytes, off + 1, off + Len(t)) = t

LEMMA PointsKept ==
  ASSUME NEW a \in Seq(Byte), NEW b \in Seq(Byte), NEW t \in Seq(Byte),
         NEW off \in Nat, Points(a, t, off)
  PROVE  Points(a \o b, t, off)
<1> DEFINE w == a \o b
           n == Len(t)
<1>1. /\ Len(a) \in Nat /\ Len(b) \in Nat /\ n \in Nat
      /\ off + n <= Len(a) /\ SubSeq(a, off + 1, off + n) = t
  BY LenProperties DEF Points
<1>2. /\ Len(w) = Len(a) + Len(b)
      /\ \A i \in 1..Len(a) : w[i] = a[i] /\ a[i] \in Byte
  BY <1>1, ConcatProperties, ElementOfSeq
<1> HIDE DEF w
<1>3. \A i \in (off + 1)..(off + n) : i \in 1..Len(a) /\ w[i] = a[i] /\ a[i] \in Byte
  BY <1>1, <1>2
<1>4. /\ SubSeq(w, off + 1, off + n) \in Seq(Byte)
      /\ Len(SubSeq(w, off + 1, off + n)) =
           IF off + 1 <= off + n THEN off + n - (off + 1) + 1 ELSE 0
      /\ \A i \in 1..(off + n - (off + 1) + 1) :
           SubSeq(w, off + 1, off + n)[i] = w[off + 1 + i - 1]
  BY <1>1, <1>3, SubSeqProperties
<1>5. \A i \in 1..(off + n - (off + 1) + 1) :
           SubSeq(a, off + 1, off + n)[i] = a[off + 1 + i - 1]
  BY <1>1, <1>3, SubSeqProperties
<1>6. off + n - (off + 1) + 1 = n /\ Len(SubSeq(w, off + 1, off + n)) = n
  BY <1>1, <1>4
<1>7. ASSUME NEW i \in 1..n PROVE SubSeq(w, off + 1, off + n)[i] = t[i]
  <2>1. off + 1 + i - 1 \in (off + 1)..(off + n)
    BY <1>1
  <2> QED
    BY <1>1, <1>3, <1>4, <1>5, <1>6, <2>1
<1>8. SubSeq(w, off + 1, off + n) = t
  BY <1>4, <1>6, <1>7, SeqEqual
<1> QED
  BY <1>1, <1>2, <1>8 DEF Points, w

LEMMA PointsAtEnd ==
  ASSUME NEW a \in Seq(Byte), NEW t \in Seq(Byte)
  PROVE  Points(a \o t, t, Len(a))
<1> DEFINE w == a \o t
           n == Len(t)
           off == Len(a)
<1>1. off \in Nat /\ n \in Nat
  BY LenProperties
<1>2. /\ Len(w) = off + n /\ w \in Seq(Byte)
      /\ \A i \in 1..(off + n) : w[i] = IF i <= off THEN a[i] ELSE t[i - off]
  BY ConcatProperties
<1>3. \A i \in 1..(off + n) : w[i] \in Byte
  BY <1>2, ElementOfSeq
<1> HIDE DEF w, n, off
<1>4. \A i \in (off + 1)..(off + n) : w[i] \in Byte
  BY <1>1, <1>3
<1>5. /\ SubSeq(w, off + 1, off + n) \in Seq(Byte)
      /\ Len(SubSeq(w, off + 1, off + n)) =
           IF off + 1 <= off + n THEN off + n - (off + 1) + 1 ELSE 0
      /\ \A i \in 1..(off + n - (off + 1) + 1) :
           SubSeq(w, off + 1, off + n)[i] = w[off + 1 + i - 1]
  BY <1>1, <1>4, SubSeqProperties
<1>6. off + n - (off + 1) + 1 = n /\ Len(SubSeq(w, off + 1, off + n)) = n
  BY <1>1, <1>5
<1>7. ASSUME NEW i \in 1..n PROVE SubSeq(w, off + 1, off + n)[i] = t[i]
  <2>1. /\ off + 1 + i - 1 = off + i /\ off + i \in 1..(off + n)
        /\ ~(off + i <= off) /\ off + i - off = i
    BY <1>1
  <2> DEFINE k == off + i
  <2>2. w[k] = t[i]
    <3>1. k \in 1..(off + n) /\ ~(k <= off) /\ k - off = i
      BY <1>1, <2>1
    <3> HIDE DEF k
    <3> QED
      BY <1>2, <3>1
  <2>3. SubSeq(w, off + 1, off + n)[i] = w[off + 1 + i - 1]
    BY <1>5, <1>6
  <2> QED
    BY <2>1, <2>2, <2>3
<1>8. SubSeq(w, off + 1, off + n) = t
  BY <1>5, <1>6, <1>7, SeqEqual DEF n
<1> QED
  BY <1>1, <1>2, <1>8 DEF Points, w, n, off

LEMMA Associative ==
  ASSUME NEW a \in Seq(Byte), NEW b \in Seq(Byte), NEW c \in Seq(Byte)
  PROVE  (a \o b) \o c = a \o (b \o c)
BY ConcatAssociative

LEMMA StringsPoint ==
  StringsRight <=>
    (stage # "failed" => \A ref \in refs : Points(Bytes, Text[ref[1]], ref[2]))
BY DEF StringsRight, Points

LEMMA BytesTyped ==
  ASSUME AssemblyTypes
  PROVE  /\ Segment \in Seq(Byte) /\ Len(Segment) \in Nat
         /\ Bytes \in Seq(Byte) /\ Len(Bytes) \in Nat
         /\ Emitting => Bytes = Segment \o ctx.data
                        /\ Len(Bytes) = Len(Segment) + Len(ctx.data)
                        /\ ctx.data \in Seq(Byte)
         /\ ~Emitting => Bytes = Segment
<1>1. Segment \in Seq(Byte)
  BY AssemblyConstants, ConcatProperties DEF AssemblyTypes, Segment
<1>2. Emitting => ctx.data \in Seq(Byte)
  BY DEF AssemblyTypes, Context
<1> QED
  BY <1>1, <1>2, ConcatProperties, LenProperties DEF Bytes

LEMMA InternNewKeeps ==
  ASSUME AssemblyTypes, StringInv, NEW s \in Str, InternNew(s), AssemblyTypes', Emitting'
  PROVE  StringInv'
<1>1. Emitting /\ stage # "failed" /\ stage' = stage /\ Segment' = Segment
  BY DueFacts DEF AssemblyTypes, InternNew, InEmission, Segment
<1>2. /\ ctx.next = Len(Segment) + Len(ctx.data) /\ ctx.cache \subseteq refs
      /\ nextOffset = Len(Segment)
  BY <1>1 DEF StringInv
<1>3. /\ ctx'.next = ctx.next + Len(Text[s]) /\ ctx'.data = ctx.data \o Text[s]
      /\ ctx'.cache = ctx.cache \cup {<<s, ctx.next>>}
      /\ refs' = refs \cup {<<s, ctx.next>>}
  BY <1>1 DEF InternNew, AssemblyTypes, Context
<1>4. Text[s] \in Seq(Byte) /\ \A r \in Str : Text[r] \in Seq(Byte)
  BY AssemblyConstants
<1>5. Bytes' = Bytes \o Text[s]
  <2>1. Bytes' = Segment \o (ctx.data \o Text[s])
    BY <1>1, <1>3 DEF Bytes
  <2>2. Segment \in Seq(Byte) /\ ctx.data \in Seq(Byte) /\ Bytes = Segment \o ctx.data
    BY <1>1, BytesTyped
  <2>3. (Segment \o ctx.data) \o Text[s] = Segment \o (ctx.data \o Text[s])
    BY <1>4, <2>2, Associative
  <2> QED
    BY <2>1, <2>2, <2>3
<1>6. ctx'.next = Len(Segment) + Len(ctx'.data)
  <2>1. Len(Text[s]) \in Nat /\ ctx.data \in Seq(Byte) /\ Len(Segment) \in Nat
    BY <1>1, <1>4, BytesTyped, LenProperties
  <2>2. Len(ctx.data) \in Nat
    BY <2>1, LenProperties
  <2>3. Len(ctx.data \o Text[s]) = Len(ctx.data) + Len(Text[s])
    BY <1>4, <2>1, ConcatProperties
  <2>4. Len(ctx'.data) = Len(ctx.data) + Len(Text[s])
    BY <1>3, <2>3
  <2>5. ctx'.next = Len(Segment) + Len(ctx.data) + Len(Text[s])
    BY <1>2, <1>3
  <2>6. Len(Segment) + Len(ctx.data) + Len(Text[s])
          = Len(Segment) + (Len(ctx.data) + Len(Text[s]))
    <3>1. \A i, j, k \in Nat : i + j + k = i + (j + k)
      OBVIOUS
    <3> QED
      BY <2>1, <2>2, <3>1
  <2> QED
    BY <2>4, <2>5, <2>6
<1>7. \A ref \in refs' : Points(Bytes', Text[ref[1]], ref[2])
  <2> TAKE ref \in refs'
  <2>1. CASE ref \in refs
    <3>1. Points(Bytes, Text[ref[1]], ref[2])
      BY <1>1, <2>1, StringsPoint DEF StringInv
    <3>2. ref[1] \in Str /\ ref[2] \in Nat
      BY <2>1 DEF AssemblyTypes
    <3> QED
      BY <1>4, <1>5, <3>1, <3>2, BytesTyped, PointsKept
  <2>2. CASE ref = <<s, ctx.next>>
    <3>1. ref[1] = s /\ ref[2] = Len(Bytes)
      BY <1>1, <1>2, <2>2, BytesTyped
    <3> QED
      BY <1>4, <1>5, <3>1, BytesTyped, PointsAtEnd
  <2> QED
    BY <1>3, <2>1, <2>2
<1>8. StringsRight'
  BY <1>7 DEF StringsRight, Points
<1>9. nextOffset' = nextOffset /\ ctx'.cache \subseteq refs'
  BY <1>2, <1>3 DEF InternNew, InEmission
<1> QED
  BY <1>1, <1>2, <1>6, <1>8, <1>9 DEF StringInv

\* A step that leaves the bytes and the references alone.
LEMMA SameBytes ==
  ASSUME StringInv, stage # "failed", refs' = refs, Bytes' = Bytes
  PROVE  StringsRight'
BY StringsPoint DEF StringInv, StringsRight, Points

LEMMA StringStep ==
  ASSUME AssemblyTypes, StringInv, AssemblyTypes', MNext
  PROVE  StringInv'
<1>0. stage # "failed"
  BY NotFailed
<1>1. ASSUME NEW fun \in Due, Open(fun) PROVE StringInv'
  <2>1. /\ ~Emitting /\ Segment' = Segment /\ refs' = refs /\ nextOffset' = nextOffset
        /\ ctx'.next = nextOffset /\ ctx'.data = <<>> /\ ctx'.cache = {}
    BY <1>1 DEF Open, Segment, NewContext
  <2>2. Emitting'
    BY <1>1, ContextTyped DEF Open, Emitting, NoCtx
  <2>3. Bytes' = Bytes
    <3>1. Bytes' = Segment \o <<>>
      BY <2>1, <2>2 DEF Bytes
    <3> QED
      BY <2>1, <3>1, BytesTyped, ConcatEmptySeq
  <2>4. StringsRight'
    BY <1>0, <2>1, <2>3, SameBytes
  <2>5. nextOffset = Len(Segment) /\ Len(Segment) = Len(Segment) + Len(<<>>)
    BY <1>0, BytesTyped, EmptySeq DEF StringInv
  <2> QED
    BY <2>1, <2>4, <2>5 DEF StringInv
<1>2. ASSUME NEW s \in Str, InternNew(s) PROVE StringInv'
  <2>1. Emitting'
    <3>1. ctx' \in Context /\ ctx'.fun = ctx.fun /\ ctx.fun \in Due
      BY <1>2, InternNewTyped DEF AssemblyTypes, InternNew
    <3>2. ctx'.fun # NoCtx.fun
      BY <3>1, DueFacts DEF NoCtx, F
    <3> QED
      BY <3>2 DEF Emitting
  <2> QED
    BY <1>2, <2>1, InternNewKeeps
<1>3. ASSUME NEW s \in Str, InternCached(s) PROVE StringInv'
  <2>1. PICK entry \in ctx.cache : refs' = refs \cup {entry}
    BY <1>3 DEF InternCached
  <2>2. /\ Emitting /\ ctx' = ctx /\ stage' = stage /\ nextOffset' = nextOffset
        /\ userData' = userData
    BY <1>3 DEF InternCached, InEmission
  <2>3. refs' = refs
    BY <1>0, <2>1, <2>2 DEF StringInv
  <2> QED
    BY <1>0, <2>2, <2>3
       DEF StringInv, StringsRight, Bytes, Segment, Emitting, NoCtx
<1>4. CASE RegisterLambda
  <2>1. /\ Emitting /\ ctx \in Context /\ stage' = stage /\ nextOffset' = nextOffset
        /\ userData' = userData /\ refs' = refs
    BY <1>4 DEF RegisterLambda, InEmission, AssemblyTypes
  <2>2. ctx'.next = ctx.next /\ ctx'.data = ctx.data /\ ctx'.cache = ctx.cache
          /\ ctx'.fun = ctx.fun
    BY <1>4, <2>1 DEF RegisterLambda, Context
  <2>3. Emitting'
    BY <2>1, <2>2, DueFacts DEF AssemblyTypes, Emitting, NoCtx, F
  <2>4. Bytes' = Bytes /\ Segment' = Segment
    BY <2>1, <2>2, <2>3 DEF Bytes, Segment
  <2>5. StringsRight'
    BY <1>0, <2>1, <2>4, SameBytes
  <2> QED
    BY <1>0, <2>1, <2>2, <2>4, <2>5 DEF StringInv
<1>5. CASE Close
  <2>1. /\ Emitting /\ ~Emitting' /\ userData' = userData \o ctx.data
        /\ nextOffset' = ctx.next /\ refs' = refs
    BY <1>5 DEF Close, Merge, Emitting
  <2>2. Segment' = Bytes
    <3>1. Segment' = WellKnown \o (userData \o ctx.data)
      BY <2>1 DEF Segment
    <3>2. WellKnown \in Seq(Byte) /\ userData \in Seq(Byte) /\ ctx.data \in Seq(Byte)
      BY <2>1, AssemblyConstants, BytesTyped DEF AssemblyTypes
    <3>3. (WellKnown \o userData) \o ctx.data = WellKnown \o (userData \o ctx.data)
      BY <3>2, Associative
    <3> QED
      BY <2>1, <3>1, <3>3 DEF Bytes, Segment
  <2>3. Bytes' = Bytes
    BY <2>1, <2>2 DEF Bytes
  <2>4. StringsRight'
    BY <1>0, <2>1, <2>3, SameBytes
  <2>5. ctx.next = Len(Bytes)
    BY <1>0, <2>1, BytesTyped DEF StringInv
  <2> QED
    BY <2>1, <2>2, <2>4, <2>5 DEF StringInv
<1>6. CASE Abort
  BY <1>6 DEF Abort, StringInv
<1>7. CASE EmitPlain \/ SkipOptional \/ EmitInvoke \/ EndLambdas \/ EndTests
             \/ WriteSections
  <2>1. /\ ctx' = ctx /\ refs' = refs /\ nextOffset' = nextOffset
        /\ userData' = userData
    BY <1>7 DEF EmitPlain, SkipOptional, EmitInvoke, EndLambdas, EndTests,
       WriteSections, Sections
  <2>2. Segment' = Segment /\ Bytes' = Bytes /\ Emitting' = Emitting
    BY <2>1 DEF Segment, Bytes, Emitting
  <2>3. StringsRight'
    BY <1>0, <2>1, <2>2, SameBytes
  <2> QED
    BY <1>0, <2>1, <2>2, <2>3 DEF StringInv
<1> QED
  BY <1>1, <1>2, <1>3, <1>4, <1>5, <1>6, <1>7 DEF MNext

-----------------------------------------------------------------------------
\* Lambdas

\* Within a function its context stays, but for what is interned or registered.
LEMMA StaysEmitting ==
  ASSUME AssemblyTypes, BodyInv,
         \/ \E s \in Str : InternNew(s) \/ InternCached(s)
         \/ RegisterLambda
  PROVE  /\ Emitting /\ Emitting' /\ ctx'.fun = ctx.fun
         /\ ~RegisterLambda => ctx'.bodies = ctx.bodies /\ closures' = closures
         /\ InEmission
<1>1. CASE \E s \in Str : InternNew(s)
  <2>1. PICK s \in Str : InternNew(s)
    BY <1>1
  <2>2. ctx' \in Context /\ ctx'.fun = ctx.fun /\ ctx \in Context /\ ctx.fun \in Due
    BY <2>1, InternNewTyped DEF AssemblyTypes, InternNew
  <2>3. ctx'.bodies = ctx.bodies /\ closures' = closures
    BY <2>1, <2>2 DEF InternNew, Context
  <2>4. ctx'.fun # NoCtx.fun
    BY <2>2, DueFacts DEF NoCtx, F
  <2>5. Emitting /\ Emitting' /\ InEmission
    BY <2>1, <2>4 DEF InternNew, Emitting
  <2> QED
    BY <2>2, <2>3, <2>5
<1>2. CASE \E s \in Str : InternCached(s)
  BY <1>2 DEF InternCached, InEmission, Emitting, NoCtx
<1>3. CASE RegisterLambda
  <2>1. ctx' \in Context /\ ctx'.fun = ctx.fun /\ ctx.fun \in Due
    BY <1>3, RegisterTyped DEF AssemblyTypes, RegisterLambda
  <2> QED
    BY <1>3, <2>1, DueFacts DEF RegisterLambda, Emitting, NoCtx, F
<1> QED
  BY <1>1, <1>2, <1>3

LEMMA BodyStep ==
  ASSUME AssemblyTypes, BodyInv, MNext
  PROVE  BodyInv'
<1>0. stage # "failed" /\ IsFiniteSet(closures) /\ Cardinality(closures) \in Nat
  BY NotFailed, FS_CardinalityType DEF BodyInv
<1>a. /\ lambdaBodies \in Seq(Nat) /\ Len(lambdaBodies) \in Nat
      /\ Emitting => ctx.bodies \in Seq(Nat) /\ Len(ctx.bodies) \in Nat
  BY LenProperties DEF AssemblyTypes, Context
<1>1. ASSUME NEW fun \in Due, Open(fun) PROVE BodyInv'
  <2>1. /\ ~Emitting /\ lambdaBodies' = lambdaBodies /\ closures' = closures
        /\ ctx'.bodies = <<>> /\ Len(<<>>) = 0
    BY <1>1 DEF Open, NewContext
  <2> QED
    BY <1>0, <1>a, <2>1 DEF BodyInv
<1>2. CASE \E s \in Str : InternNew(s) \/ InternCached(s)
  <2>1. /\ Emitting /\ Emitting' /\ ctx'.bodies = ctx.bodies
        /\ lambdaBodies' = lambdaBodies /\ closures' = closures
    <3>1. CASE RegisterLambda
      BY <1>2, <3>1, StaysEmitting DEF RegisterLambda, InternNew, InternCached,
         AssemblyTypes, Context, InEmission
    <3>2. CASE ~RegisterLambda
      BY <1>2, <3>2, StaysEmitting DEF InEmission
    <3> QED
      BY <3>1, <3>2
  <2> QED
    BY <1>0, <2>1 DEF BodyInv
<1>3. CASE RegisterLambda
  <2> DEFINE n == Cardinality(closures)
             c == [body |-> n, table |-> ctx.base + Len(ctx.bodies)]
  <2>1. /\ Emitting /\ Emitting' /\ lambdaBodies' = lambdaBodies
        /\ closures' = closures \cup {c} /\ ctx'.bodies = Append(ctx.bodies, n)
    BY <1>3, StaysEmitting DEF RegisterLambda, InEmission, AssemblyTypes, Context
  <2>2. c.body = n
    OBVIOUS
  <2>3. \A d \in closures : d.body \in 0..(n - 1)
    BY DEF BodyInv
  <2>4. n \in Nat /\ n = Len(lambdaBodies) + Len(ctx.bodies)
    BY <1>0, <2>1 DEF BodyInv
  <2> HIDE DEF c
  <2>5. c \notin closures
    BY <2>2, <2>3, <2>4
  <2>6. IsFiniteSet(closures') /\ Cardinality(closures') = n + 1
    BY <1>0, <2>1, <2>5, FS_AddElement
  <2> HIDE DEF n
  <2>7. \A d \in closures' : d.body \in 0..(Cardinality(closures') - 1)
    BY <2>1, <2>2, <2>3, <2>4, <2>6
  <2>8. /\ Len(ctx'.bodies) = Len(ctx.bodies) + 1
        /\ ctx'.bodies[Len(ctx.bodies) + 1] = n
        /\ \A j \in 1..Len(ctx.bodies) : ctx'.bodies[j] = ctx.bodies[j]
    BY <1>a, <2>1, <2>4, AppendProperties
  <2>9. \A j \in 1..Len(ctx.bodies) : ctx.bodies[j] = Len(lambdaBodies) + j - 1
    BY <1>0, <2>1 DEF BodyInv
  <2>10. ASSUME NEW j \in 1..Len(ctx'.bodies)
         PROVE  ctx'.bodies[j] = Len(lambdaBodies) + j - 1
    <3>1. j \in 1..Len(ctx.bodies) \/ j = Len(ctx.bodies) + 1
      BY <1>a, <2>1, <2>8
    <3>2. CASE j \in 1..Len(ctx.bodies)
      BY <2>8, <2>9, <3>2
    <3>3. CASE j = Len(ctx.bodies) + 1
      BY <1>a, <2>1, <2>4, <2>8, <3>3
    <3> QED
      BY <3>1, <3>2, <3>3
  <2>11. Cardinality(closures') = Len(lambdaBodies') + Len(ctx'.bodies)
    BY <1>a, <2>1, <2>4, <2>6, <2>8
  <2>12. \A i \in 1..Len(lambdaBodies') : lambdaBodies'[i] = i - 1
    BY <1>0, <2>1 DEF BodyInv
  <2> QED
    BY <2>1, <2>6, <2>7, <2>10, <2>11, <2>12 DEF BodyInv
<1>4. CASE Close
  <2> DEFINE w == lambdaBodies'
  <2>1. /\ Emitting /\ ~Emitting' /\ w = lambdaBodies \o ctx.bodies
        /\ closures' = closures
    BY <1>4 DEF Close, Merge, Emitting
  <2>2. /\ Len(w) = Len(lambdaBodies) + Len(ctx.bodies)
        /\ \A i \in 1..(Len(lambdaBodies) + Len(ctx.bodies)) :
             w[i] = IF i <= Len(lambdaBodies) THEN lambdaBodies[i]
                    ELSE ctx.bodies[i - Len(lambdaBodies)]
    BY <1>a, <2>1, ConcatProperties
  <2>3. /\ \A i \in 1..Len(lambdaBodies) : lambdaBodies[i] = i - 1
        /\ \A j \in 1..Len(ctx.bodies) : ctx.bodies[j] = Len(lambdaBodies) + j - 1
        /\ Cardinality(closures) = Len(lambdaBodies) + Len(ctx.bodies)
    BY <1>0, <2>1 DEF BodyInv
  <2> HIDE DEF w
  <2>4. ASSUME NEW i \in 1..Len(w) PROVE w[i] = i - 1
    <3>1. CASE i <= Len(lambdaBodies)
      <4>1. i \in 1..Len(lambdaBodies)
        BY <1>a, <2>1, <2>2, <3>1
      <4> QED
        BY <2>2, <2>3, <3>1, <4>1
    <3>2. CASE ~(i <= Len(lambdaBodies))
      <4> DEFINE j == i - Len(lambdaBodies)
      <4>1. j \in 1..Len(ctx.bodies) /\ Len(lambdaBodies) + j - 1 = i - 1
        BY <1>a, <2>1, <2>2, <3>2
      <4>2. w[i] = ctx.bodies[j]
        BY <2>2, <3>2
      <4> HIDE DEF j
      <4> QED
        BY <2>3, <4>1, <4>2
    <3> QED
      BY <3>1, <3>2
  <2>5. Cardinality(closures') = Len(w) + 0
    BY <1>a, <2>1, <2>2, <2>3
  <2> QED
    BY <1>0, <2>1, <2>4, <2>5 DEF BodyInv, w
<1>5. CASE Abort
  BY <1>0, <1>5 DEF Abort, BodyInv
<1>6. CASE EmitPlain \/ SkipOptional \/ EmitInvoke \/ EndLambdas \/ EndTests
             \/ WriteSections
  <2>1. ctx' = ctx /\ lambdaBodies' = lambdaBodies /\ closures' = closures
    BY <1>6 DEF EmitPlain, SkipOptional, EmitInvoke, EndLambdas, EndTests,
       WriteSections, Sections
  <2> QED
    BY <1>0, <2>1 DEF BodyInv, Emitting, NoCtx
<1> QED
  BY <1>1, <1>2, <1>3, <1>4, <1>5, <1>6 DEF MNext

-----------------------------------------------------------------------------
\* The order of functions

\* Functions already emitted stay where they are.
Extends == /\ Len(funcs') >= Len(funcs)
           /\ \A i \in 1..Len(funcs) : funcs'[i] = funcs[i]

LEMMA OfSpaceKept ==
  ASSUME NEW n \in Nat, OfSpace(n), \A i \in 1..n : funcs'[i] = funcs[i]
  PROVE  OfSpace(n)'
BY DEF OfSpace

LEMMA SameLayout ==
  ASSUME Layout, UNCHANGED <<stage, funcs, numSpaceFuncs, numTestFuncs,
                             lambdaBodies, remaining>>
  PROVE  Layout'
BY DEF Layout, SpaceLength, OfSpace, Done, FirstTest

LEMMA OneMore ==
  ASSUME AssemblyTypes, NEW fun \in Fun, funcs' = Append(funcs, fun)
  PROVE  /\ Len(funcs) \in Nat /\ Len(funcs') = Len(funcs) + 1
         /\ funcs'[Len(funcs) + 1] = fun
         /\ \A i \in 1..Len(funcs) : funcs'[i] = funcs[i]
         /\ Extends
BY AppendProperties, LenProperties DEF AssemblyTypes, Extends

\* The functions of the space itself, until invoke_lambda.
LEMMA SpaceGrows ==
  ASSUME AssemblyTypes, Layout, Close, stage \in Before
  PROVE  Layout'
<1>1. ctx.fun = F(stage) /\ ctx.fun \in Fun /\ F(stage).kind = stage
        /\ stage \in {"init", "dispatch_action", "render", "update", "handle_event"}
  BY DueFacts DEF Close, AssemblyTypes, Before, F
<1>2. funcs' = Append(funcs, ctx.fun)
  BY DEF Close
<1>3. /\ Len(funcs) \in Nat /\ Len(funcs') = Len(funcs) + 1
      /\ funcs'[Len(funcs) + 1] = F(stage)
      /\ \A i \in 1..Len(funcs) : funcs'[i] = funcs[i]
  BY <1>1, <1>2, OneMore
<1>4. SpaceLength /\ OfSpace(Len(funcs)) /\ numSpaceFuncs = 0 /\ numTestFuncs = 0
  BY DEF Layout
<1>5. numSpaceFuncs' = 0 /\ numTestFuncs' = 0
  BY <1>1, <1>4 DEF Close
<1>6. /\ stage = "init" => stage' = "dispatch_action"
      /\ stage = "dispatch_action" => stage' = "render"
      /\ stage = "render" => stage' = "plain"
      /\ stage = "update" => stage' = "handle_event"
      /\ stage = "handle_event" => stage' = "invoke"
  BY <1>1 DEF Close, StageAfter
<1>7. stage' \in Before \ {"init", "update"} /\ stage' \notin Behind
  BY <1>1, <1>6 DEF Before, Behind
<1>8. SpaceLength'
  <2>1. CASE stage = "init"
    <3>1. Len(funcs') = 1
      BY <1>3, <1>4, <2>1 DEF SpaceLength
    <3>2. stage' = "dispatch_action"
      BY <1>6, <2>1
    <3> QED
      BY <3>1, <3>2 DEF SpaceLength
  <2>2. CASE stage = "dispatch_action"
    <3>0. Len(funcs) = 1
      BY <1>4, <2>2 DEF SpaceLength
    <3>1. Len(funcs') = 2
      BY <1>3, <3>0
    <3>2. stage' = "render"
      BY <1>6, <2>2
    <3> QED
      BY <3>1, <3>2 DEF SpaceLength
  <2>3. CASE stage = "render"
    <3>0. Len(funcs) = 2
      BY <1>4, <2>3 DEF SpaceLength
    <3>1. Len(funcs') = 3
      BY <1>3, <3>0
    <3>2. stage' = "plain"
      BY <1>6, <2>3
    <3> QED
      BY <3>1, <3>2 DEF SpaceLength
  <2>4. CASE stage = "update"
    <3>0. Len(funcs) = 5
      BY <1>4, <2>4 DEF SpaceLength
    <3>1. Len(funcs') = 6
      BY <1>3, <3>0
    <3>2. stage' = "handle_event"
      BY <1>6, <2>4
    <3> QED
      BY <3>1, <3>2 DEF SpaceLength
  <2>5. CASE stage = "handle_event"
    <3>1. 6 <= Len(funcs') /\ Len(funcs') <= 7
      BY <1>3, <1>4, <2>5 DEF SpaceLength
    <3>2. stage' = "invoke"
      BY <1>6, <2>5
    <3> QED
      BY <3>1, <3>2 DEF SpaceLength
  <2> QED
    BY <1>1, <2>1, <2>2, <2>3, <2>4, <2>5
<1>9. OfSpace(Len(funcs))'
  <2> DEFINE n == Len(funcs)
  <2>1. F(stage).kind \in SpaceKinds
    BY <1>1 DEF SpaceKinds, Infra
  <2>2. \A i \in 1..n : funcs[i].kind \in SpaceKinds
    BY <1>4 DEF OfSpace
  <2>3. ASSUME NEW i \in 1..(n + 1) PROVE funcs'[i].kind \in SpaceKinds
    BY <1>3, <2>1, <2>2, <2>3
  <2>4. CASE stage = "init"
    <3>0. n = 0
      BY <1>4, <2>4 DEF SpaceLength
    <3>1. n = 0 /\ funcs'[1] = F("init")
      BY <1>3, <2>4, <3>0
    <3> QED
      BY <1>3, <2>3, <3>1 DEF OfSpace
  <2>5. CASE stage = "dispatch_action"
    <3>0. n = 1
      BY <1>4, <2>5 DEF SpaceLength
    <3>1. n = 1 /\ funcs'[2] = F("dispatch_action")
      BY <1>3, <2>5, <3>0
    <3>2. funcs'[1] = F("init")
      BY <1>3, <1>4, <3>1 DEF OfSpace
    <3> QED
      BY <1>3, <2>3, <3>1, <3>2 DEF OfSpace
  <2>6. CASE stage = "render"
    <3>0. n = 2
      BY <1>4, <2>6 DEF SpaceLength
    <3>1. n = 2 /\ funcs'[3] = F("render")
      BY <1>3, <2>6, <3>0
    <3>2. funcs'[1] = F("init") /\ funcs'[2] = F("dispatch_action")
      BY <1>3, <1>4, <3>1 DEF OfSpace
    <3> QED
      BY <1>3, <2>3, <3>1, <3>2 DEF OfSpace
  <2>7. CASE stage \in {"update", "handle_event"}
    <3>1. n >= 5
      BY <1>4, <2>7 DEF SpaceLength
    <3> QED
      BY <1>3, <1>4, <2>3, <3>1 DEF OfSpace
  <2> QED
    BY <1>1, <2>4, <2>5, <2>6, <2>7
<1> QED
  BY <1>5, <1>7, <1>8, <1>9, <1>3 DEF Layout, Before, Behind

\* What Layout says behind invoke_lambda, in one piece.
LambdasLaid ==
  /\ numSpaceFuncs \in 5..7 /\ OfSpace(numSpaceFuncs)
  /\ funcs[numSpaceFuncs + 1] = F("invoke_lambda")
  /\ Done \in 0..Len(lambdaBodies)
  /\ \A j \in 1..Done : funcs[numSpaceFuncs + 1 + j] = Lambda(j - 1)
  /\ Done + Len(remaining) <= Len(lambdaBodies)
  /\ \A j \in 1..Len(remaining) : remaining[j] = Done + j - 1

LEMMA LambdaGrows ==
  ASSUME AssemblyTypes, AssemblyTypes', Layout, Close, stage = "lambdas"
  PROVE  Layout'
<1> DEFINE m == numSpaceFuncs
           d == Done
<1>1. /\ ctx.fun \in Fun /\ ctx.fun = Lambda(Head(remaining)) /\ remaining # <<>>
      /\ ctx.fun.kind = "lambda" /\ Emitting
  BY DueFacts DEF Close, AssemblyTypes, Lambda
<1>2. /\ stage' = "lambdas" /\ numSpaceFuncs' = m /\ numTestFuncs' = numTestFuncs
      /\ remaining' = Tail(remaining) /\ lambdaBodies' = lambdaBodies \o ctx.bodies
      /\ funcs' = Append(funcs, ctx.fun)
  BY <1>1 DEF Close, StageAfter, Merge
<1>3. LambdasLaid /\ numTestFuncs = 0
  BY DEF Layout, LambdasLaid, Behind
<1>4. /\ Len(funcs) \in Nat /\ Len(funcs') = Len(funcs) + 1
      /\ funcs'[Len(funcs) + 1] = ctx.fun
      /\ \A i \in 1..Len(funcs) : funcs'[i] = funcs[i]
  BY <1>1, <1>2, OneMore
<1>5. /\ Len(remaining) \in Nat \ {0} /\ Len(remaining') = Len(remaining) - 1
      /\ \A j \in 1..Len(remaining') : remaining'[j] = remaining[j + 1]
      /\ Head(remaining) = remaining[1]
  BY <1>1, <1>2, HeadTailProperties, EmptySeq DEF AssemblyTypes
<1>6. Len(lambdaBodies) \in Nat /\ Len(lambdaBodies') >= Len(lambdaBodies)
  <2>1. ctx.bodies \in Seq(Nat) /\ lambdaBodies \in Seq(Nat)
    BY <1>1 DEF AssemblyTypes, Context
  <2>2. Len(ctx.bodies) \in Nat /\ Len(lambdaBodies) \in Nat
    BY <2>1, LenProperties
  <2>3. Len(lambdaBodies') = Len(lambdaBodies) + Len(ctx.bodies)
    BY <1>2, <2>1, ConcatProperties
  <2> QED
    BY <2>2, <2>3
<1>7. m \in 5..7 /\ d \in Nat /\ Len(funcs) = m + 1 + d /\ Len(lambdaBodies') \in Nat
  <2>1. d = Len(funcs) - m - 1 - 0 /\ d \in 0..Len(lambdaBodies) /\ m \in 5..7
    BY <1>3 DEF LambdasLaid, Done
  <2>2. lambdaBodies' \in Seq(Nat)
    BY DEF AssemblyTypes
  <2>3. Len(lambdaBodies') \in Nat
    BY <2>2, LenProperties
  <2> HIDE DEF d, m
  <2> QED
    BY <1>4, <1>6, <2>1, <2>3
<1>8. Done' = d + 1
  <2>1. Done' = Len(funcs') - m - 1 - 0
    BY <1>2, <1>3 DEF Done
  <2> HIDE DEF d, m
  <2> QED
    BY <1>4, <1>7, <2>1
<1>9. ctx.fun = Lambda(d)
  <2>1. remaining[1] = d + 1 - 1
    BY <1>3, <1>5 DEF LambdasLaid
  <2> QED
    BY <1>1, <1>5, <1>7, <2>1
<1>10. ASSUME NEW j \in 1..(d + 1) PROVE funcs'[m + 1 + j] = Lambda(j - 1)
  <2>1. CASE j \in 1..d
    <3>1. funcs[m + 1 + j] = Lambda(j - 1)
      BY <1>3, <2>1 DEF LambdasLaid
    <3>2. m + 1 + j \in 1..Len(funcs)
      BY <1>7, <2>1
    <3> QED
      BY <1>4, <3>1, <3>2
  <2>2. CASE j = d + 1
    <3>1. m + 1 + j = Len(funcs) + 1 /\ j - 1 = d
      BY <1>7, <2>2
    <3> QED
      BY <1>4, <1>9, <3>1
  <2> QED
    BY <1>7, <2>1, <2>2
<1>11. OfSpace(m)' /\ funcs'[m + 1] = F("invoke_lambda")
  <2>1. m \in Nat /\ OfSpace(m) /\ funcs[m + 1] = F("invoke_lambda")
    BY <1>3, <1>7 DEF LambdasLaid
  <2>2. m + 1 \in 1..Len(funcs) /\ \A i \in 1..m : i \in 1..Len(funcs)
    BY <1>7
  <2>3. \A i \in 1..m : funcs'[i] = funcs[i]
    BY <1>4, <2>2
  <2>4. m' = m
    BY <1>2
  <2> HIDE DEF m
  <2>5. OfSpace(m)'
    BY <2>1, <2>3, <2>4 DEF OfSpace
  <2> QED
    BY <1>4, <2>1, <2>2, <2>5
<1>12. /\ Done' \in 0..Len(lambdaBodies') /\ Done' + Len(remaining') <= Len(lambdaBodies')
       /\ \A j \in 1..Len(remaining') : remaining'[j] = Done' + j - 1
  <2>1. d + Len(remaining) <= Len(lambdaBodies)
    BY <1>3 DEF LambdasLaid
  <2>2. \A j \in 1..Len(remaining) : remaining[j] = d + j - 1
    BY <1>3 DEF LambdasLaid
  <2> HIDE DEF d
  <2>3. d + 1 + (Len(remaining) - 1) <= Len(lambdaBodies') /\ d + 1 \in 0..Len(lambdaBodies')
    BY <1>5, <1>6, <1>7, <2>1
  <2>4. ASSUME NEW j \in 1..Len(remaining') PROVE remaining'[j] = d + 1 + j - 1
    <3>1. j + 1 \in 1..Len(remaining) /\ d + (j + 1) - 1 = d + 1 + j - 1
      BY <1>5, <1>7
    <3> QED
      BY <1>5, <2>2, <3>1
  <2> QED
    BY <1>5, <1>8, <2>3, <2>4
<1> HIDE DEF d
<1>13. LambdasLaid'
  BY <1>2, <1>7, <1>8, <1>10, <1>11, <1>12 DEF LambdasLaid
<1> QED
  BY <1>2, <1>3, <1>13 DEF Layout, LambdasLaid, Before

LEMMA BodiesGrow ==
  ASSUME AssemblyTypes, Close
  PROVE  Len(lambdaBodies) \in Nat /\ Len(lambdaBodies') \in Nat
           /\ Len(lambdaBodies') >= Len(lambdaBodies)
<1>1. ctx.bodies \in Seq(Nat) /\ lambdaBodies \in Seq(Nat)
        /\ lambdaBodies' = lambdaBodies \o ctx.bodies
  BY DEF AssemblyTypes, Context, Close, Merge
<1>2. Len(ctx.bodies) \in Nat /\ Len(lambdaBodies) \in Nat
  BY <1>1, LenProperties
<1>3. Len(lambdaBodies') = Len(lambdaBodies) + Len(ctx.bodies)
  BY <1>1, ConcatProperties
<1> QED
  BY <1>2, <1>3

\* Where the lambdas' functions end and the tests begin.
LEMMA Counted ==
  ASSUME AssemblyTypes, LambdasLaid
  PROVE  /\ numSpaceFuncs \in 5..7 /\ Done \in Nat /\ numTestFuncs \in Nat
         /\ Len(funcs) \in Nat
         /\ Len(funcs) = numSpaceFuncs + 1 + Done + numTestFuncs
         /\ FirstTest = numSpaceFuncs + Done + 2
<1>1. Len(lambdaBodies) \in Nat /\ Len(funcs) \in Nat /\ numTestFuncs \in Nat
  BY LenProperties DEF AssemblyTypes
<1>2. numSpaceFuncs \in 5..7 /\ Done \in 0..Len(lambdaBodies)
  BY DEF LambdasLaid
<1>3. Done = Len(funcs) - numSpaceFuncs - 1 - numTestFuncs
  BY DEF Done
<1>4. FirstTest = numSpaceFuncs + 1 + Done + 1
  BY DEF FirstTest
<1> QED
  BY <1>1, <1>2, <1>3, <1>4

\* Behind the lambda loop the functions laid so far stay.
LEMMA LaidKept ==
  ASSUME AssemblyTypes, LambdasLaid, Extends,
         numSpaceFuncs' = numSpaceFuncs, Done' = Done, remaining' = remaining,
         Len(lambdaBodies') \in Nat, Len(lambdaBodies') >= Len(lambdaBodies)
  PROVE  LambdasLaid'
<1> DEFINE m == numSpaceFuncs
           d == Done
<1>1. m \in 5..7 /\ d \in Nat /\ Len(funcs) \in Nat /\ m + 1 + d <= Len(funcs)
  BY Counted
<1>2. /\ OfSpace(m) /\ funcs[m + 1] = F("invoke_lambda")
      /\ d \in 0..Len(lambdaBodies) /\ d + Len(remaining) <= Len(lambdaBodies)
      /\ \A j \in 1..d : funcs[m + 1 + j] = Lambda(j - 1)
      /\ \A j \in 1..Len(remaining) : remaining[j] = d + j - 1
  BY DEF LambdasLaid
<1>3. \A i \in 1..Len(funcs) : funcs'[i] = funcs[i]
  BY DEF Extends
<1>4. Len(lambdaBodies) \in Nat /\ Len(remaining) \in Nat
  BY LenProperties DEF AssemblyTypes
<1>5. OfSpace(m)'
  <2>1. m \in Nat /\ \A i \in 1..m : funcs'[i] = funcs[i]
    BY <1>1, <1>3
  <2>2. m' = m
    OBVIOUS
  <2> HIDE DEF m
  <2> QED
    BY <1>2, <2>1, <2>2 DEF OfSpace
<1> HIDE DEF d, m
<1>6. funcs'[m + 1] = F("invoke_lambda")
  BY <1>1, <1>2, <1>3
<1>7. ASSUME NEW j \in 1..d PROVE funcs'[m + 1 + j] = Lambda(j - 1)
  <2>1. m + 1 + j \in 1..Len(funcs)
    BY <1>1
  <2> QED
    BY <1>2, <1>3, <2>1
<1>8. d \in 0..Len(lambdaBodies') /\ d + Len(remaining) <= Len(lambdaBodies')
  BY <1>1, <1>2, <1>4
<1> QED
  BY <1>1, <1>2, <1>5, <1>6, <1>7, <1>8 DEF LambdasLaid, d, m

LEMMA TestGrows ==
  ASSUME AssemblyTypes, Layout, Close, stage = "tests"
  PROVE  Layout'
<1> DEFINE t == numTestFuncs
<1>1. /\ ctx.fun \in Fun /\ ctx.fun = TestCase(t) /\ ctx.fun.kind = "test"
  BY DueFacts DEF Close, AssemblyTypes, TestCase
<1>2. /\ stage' = "tests" /\ numSpaceFuncs' = numSpaceFuncs
      /\ numTestFuncs' = t + 1 /\ remaining' = remaining
      /\ funcs' = Append(funcs, ctx.fun)
  BY <1>1 DEF Close, StageAfter
<1>3. LambdasLaid
  BY DEF Layout, LambdasLaid, Behind
<1>4. /\ Len(funcs') = Len(funcs) + 1 /\ funcs'[Len(funcs) + 1] = TestCase(t)
      /\ \A i \in 1..Len(funcs) : funcs'[i] = funcs[i]
      /\ Extends
  BY <1>1, <1>2, OneMore
<1>5. /\ numSpaceFuncs \in 5..7 /\ Done \in Nat /\ t \in Nat /\ Len(funcs) \in Nat
      /\ Len(funcs) = numSpaceFuncs + 1 + Done + t
      /\ FirstTest = numSpaceFuncs + Done + 2
  BY <1>3, Counted
<1>6. Done' = Len(funcs') - numSpaceFuncs - 1 - (t + 1)
  BY <1>2 DEF Done
<1>7. \A i \in 0..(t - 1) : funcs[FirstTest + i] = TestCase(i)
  BY DEF Layout
<1> DEFINE d == Done
           b == FirstTest
<1> HIDE DEF d, b, t
<1>8. Done' = d
  BY <1>4, <1>5, <1>6 DEF d
<1>9. FirstTest' = b
  <2>1. FirstTest' = numSpaceFuncs + 1 + d + 1
    BY <1>2, <1>8 DEF FirstTest
  <2>2. b = numSpaceFuncs + 1 + d + 1
    BY DEF b, d, FirstTest
  <2> QED
    BY <2>1, <2>2
<1>10. LambdasLaid'
  BY <1>2, <1>3, <1>4, <1>8, BodiesGrow, LaidKept DEF d
<1>11. ASSUME NEW i \in 0..t PROVE funcs'[b + i] = TestCase(i)
  <2>0. /\ Len(funcs) \in Nat /\ t \in Nat /\ b \in Nat \ {0} /\ b + t = Len(funcs) + 1
    BY <1>5 DEF b
  <2>1. CASE i = t
    BY <1>4, <2>0, <2>1
  <2>2. CASE i # t
    <3>1. i \in 0..(t - 1) /\ b + i \in 1..Len(funcs)
      BY <2>0, <2>2
    <3>2. funcs[b + i] = TestCase(i)
      BY <1>7, <3>1 DEF b, t
    <3> QED
      BY <1>4, <3>1, <3>2
  <2> QED
    BY <2>1, <2>2
<1>12. \A i \in 0..(numTestFuncs' - 1) : funcs'[FirstTest' + i] = TestCase(i)
  <2>1. numTestFuncs' - 1 = t
    BY <1>2, <1>5 DEF t
  <2> QED
    BY <1>9, <1>11, <2>1
<1> QED
  BY <1>2, <1>10, <1>12 DEF Layout, LambdasLaid, Before

-----------------------------------------------------------------------------
\* The exports

LEMMA ExportKinds ==
  ASSUME NEW e \in Exports
  PROVE  \/ e = Export(F("init"), Prefix)
         \/ e = Export(F("dispatch_action"), Prefix + 1)
         \/ e = Export(F("render"), Prefix + 2)
         \/ e = Export(F("get_state"), Prefix + 3)
         \/ e = Export(F("dealloc"), Prefix + 4)
         \/ \E entry \in functionTable : e = Export(F(entry[1]), entry[2])
         \/ /\ numTestFuncs # 0
            /\ \/ \E i \in 0..(numTestFuncs - 2) : e = Export(TestCase(i), TestBase + i)
               \/ e = Export(F("test_count"), TestBase + numTestFuncs - 1)
<1>1. CASE numTestFuncs = 0
  BY <1>1 DEF Exports
<1>2. CASE numTestFuncs # 0
  BY <1>2 DEF Exports, TestCase
<1> QED
  BY <1>1, <1>2

\* Once every body listed was compiled, every number written names a function.
LEMMA AllCompiledValidates ==
  ASSUME AssemblyTypes, LambdasLaid, Recorded, ~Emitting, stage # "failed",
         Done = Len(lambdaBodies)
  PROVE  Validates
<1> DEFINE bound == Prefix + Len(funcs)
<1>1. /\ numSpaceFuncs \in 5..7 /\ Done \in Nat /\ numTestFuncs \in Nat
      /\ Len(funcs) \in Nat
      /\ Len(funcs) = numSpaceFuncs + 1 + Done + numTestFuncs
  BY Counted
<1>2. TestBase = Prefix + numSpaceFuncs + 1 + Done
  BY DEF TestBase
<1>3. nextIdx = bound /\ Prefix \in Nat
  BY PrefixNat DEF AssemblyTypes
<1>4. \A entry \in functionTable : entry[2] < bound
  BY <1>3 DEF Recorded
<1>5. ASSUME NEW e \in Exports PROVE e.index < bound
  <2>1. CASE \E entry \in functionTable : e = Export(F(entry[1]), entry[2])
    BY <1>4, <2>1 DEF Export
  <2>2. CASE numTestFuncs # 0 /\ \E i \in 0..(numTestFuncs - 2) :
               e = Export(TestCase(i), TestBase + i)
    <3>1. PICK i \in 0..(numTestFuncs - 2) : e.index = TestBase + i
      BY <2>2 DEF Export
    <3> QED
      BY <1>1, <1>2, <1>3, <3>1
  <2>3. CASE numTestFuncs # 0 /\ e = Export(F("test_count"), TestBase + numTestFuncs - 1)
    <3>1. e.index = TestBase + numTestFuncs - 1 /\ numTestFuncs # 0
      BY <2>3 DEF Export
    <3> QED
      BY <1>1, <1>2, <1>3, <3>1
  <2>4. CASE \/ e = Export(F("init"), Prefix)
             \/ e = Export(F("dispatch_action"), Prefix + 1)
             \/ e = Export(F("render"), Prefix + 2)
             \/ e = Export(F("get_state"), Prefix + 3)
             \/ e = Export(F("dealloc"), Prefix + 4)
    <3>1. \/ e.index = Prefix \/ e.index = Prefix + 1 \/ e.index = Prefix + 2
          \/ e.index = Prefix + 3 \/ e.index = Prefix + 4
      BY <2>4 DEF Export
    <3> QED
      BY <1>1, <1>3, <3>1
  <2> QED
    BY ExportKinds, <2>1, <2>2, <2>3, <2>4
<1>6. ASSUME NEW i \in DOMAIN Element PROVE Element[i] < bound
  <2>1. i \in 0..(Len(lambdaBodies) - 1) /\ Element[i] = Prefix + numSpaceFuncs + 1 + i
    BY DEF Element
  <2> QED
    BY <1>1, <1>3, <2>1
<1> QED
  BY <1>5, <1>6 DEF Validates

LEMMA PlainLaid ==
  ASSUME AssemblyTypes, Layout, EmitPlain
  PROVE  Layout' /\ Extends
<1> DEFINE two == <<F("get_state"), F("dealloc")>>
<1>1. /\ stage = "plain" /\ stage' = "update" /\ funcs' = funcs \o two
      /\ numSpaceFuncs' = numSpaceFuncs /\ numTestFuncs' = numTestFuncs
  BY DEF EmitPlain, Sections
<1>2. SpaceLength /\ OfSpace(Len(funcs)) /\ numSpaceFuncs = 0 /\ numTestFuncs = 0
  BY <1>1 DEF Layout, Before
<1>3. Len(funcs) = 3
  BY <1>1, <1>2 DEF SpaceLength
<1>4. /\ two \in Seq(Fun) /\ Len(two) = 2 /\ funcs \in Seq(Fun)
      /\ two[1] = F("get_state") /\ two[2] = F("dealloc")
  BY DEF F, Fun, Infra, AssemblyTypes
<1> HIDE DEF two
<1>5. /\ Len(funcs') = Len(funcs) + Len(two)
      /\ \A i \in 1..(Len(funcs) + Len(two)) :
           funcs'[i] = IF i <= Len(funcs) THEN funcs[i] ELSE two[i - Len(funcs)]
  BY <1>1, <1>4, ConcatProperties
<1>6. /\ Len(funcs') = 5
      /\ funcs'[4] = F("get_state") /\ funcs'[5] = F("dealloc")
      /\ \A i \in 1..3 : funcs'[i] = funcs[i]
  BY <1>3, <1>4, <1>5
<1>7. /\ \A i \in 1..3 : funcs[i].kind \in SpaceKinds
      /\ funcs[1] = F("init") /\ funcs[2] = F("dispatch_action") /\ funcs[3] = F("render")
  BY <1>2, <1>3 DEF OfSpace
<1>8. F("get_state").kind \in SpaceKinds /\ F("dealloc").kind \in SpaceKinds
  BY DEF F, SpaceKinds, Infra
<1>9. \A i \in 1..5 : i \in 1..3 \/ i = 4 \/ i = 5
  OBVIOUS
<1>10. \A i \in 1..5 : funcs'[i].kind \in SpaceKinds
  BY <1>6, <1>7, <1>8, <1>9
<1>11. funcs'[1] = F("init") /\ funcs'[2] = F("dispatch_action") /\ funcs'[3] = F("render")
  BY <1>6, <1>7
<1>12. OfSpace(Len(funcs))'
  BY <1>6, <1>10, <1>11 DEF OfSpace
<1>13. SpaceLength'
  BY <1>1, <1>6 DEF SpaceLength
<1>14. Extends
  BY <1>3, <1>6 DEF Extends
<1> QED
  BY <1>1, <1>2, <1>12, <1>13, <1>14 DEF Layout, Before, Behind

LEMMA SkipLaid ==
  ASSUME AssemblyTypes, Layout, SkipOptional
  PROVE  Layout'
<1>1. /\ funcs' = funcs /\ numSpaceFuncs' = numSpaceFuncs /\ numTestFuncs' = numTestFuncs
  BY DEF SkipOptional, Sections
<1>2. \/ stage = "update" /\ stage' = "handle_event"
      \/ stage = "handle_event" /\ stage' = "invoke"
  BY DEF SkipOptional
<1>3. stage \in Before /\ stage' \in Before
  BY <1>2 DEF Before
<1>4. SpaceLength /\ OfSpace(Len(funcs)) /\ numSpaceFuncs = 0 /\ numTestFuncs = 0
  BY <1>3 DEF Layout
<1>5. SpaceLength'
  <2>1. CASE stage = "update" /\ stage' = "handle_event"
    <3>1. Len(funcs') = 5
      BY <1>1, <1>4, <2>1 DEF SpaceLength
    <3> QED
      BY <2>1, <3>1 DEF SpaceLength
  <2>2. CASE stage = "handle_event" /\ stage' = "invoke"
    <3>1. 5 <= Len(funcs') /\ Len(funcs') <= 6
      BY <1>1, <1>4, <2>2 DEF SpaceLength
    <3>2. Len(funcs) \in Nat /\ funcs' = funcs
      BY <1>1, LenProperties DEF AssemblyTypes
    <3>3. Len(funcs') <= 7
      BY <3>1, <3>2
    <3> QED
      BY <2>2, <3>1, <3>3 DEF SpaceLength
  <2> QED
    BY <1>2, <2>1, <2>2
<1>6. OfSpace(Len(funcs))'
  BY <1>1, <1>4 DEF OfSpace
<1> QED
  BY <1>1, <1>2, <1>4, <1>5, <1>6 DEF Layout, Before, Behind

LEMMA InvokeLaid ==
  ASSUME AssemblyTypes, BodyInv, Layout, EmitInvoke
  PROVE  Layout'
<1> DEFINE n == Len(funcs)
<1>1. /\ stage = "invoke" /\ stage' = "lambdas" /\ stage # "failed"
      /\ numSpaceFuncs' = nextIdx - Prefix /\ numTestFuncs' = numTestFuncs
      /\ funcs' = Append(funcs, F("invoke_lambda"))
      /\ remaining' = lambdaBodies /\ lambdaBodies' = lambdaBodies
  BY DEF EmitInvoke, SpaceFuncs
<1>2. SpaceLength /\ OfSpace(n) /\ numTestFuncs = 0
  BY <1>1 DEF Layout, Before
<1>3. F("invoke_lambda") \in Fun
  BY DEF F, Fun, Infra
<1>4. /\ n \in Nat /\ Len(funcs') = n + 1 /\ funcs'[n + 1] = F("invoke_lambda")
      /\ \A i \in 1..n : funcs'[i] = funcs[i]
  BY <1>1, <1>3, OneMore
<1>5. 5 <= n /\ n <= 7
  BY <1>1, <1>2 DEF SpaceLength
<1>6. nextIdx - Prefix = n
  BY <1>4, PrefixNat DEF AssemblyTypes
<1> HIDE DEF n
<1>7. numSpaceFuncs' = n /\ n \in 5..7
  BY <1>1, <1>4, <1>5, <1>6
<1>8. OfSpace(numSpaceFuncs)'
  BY <1>2, <1>4, <1>7 DEF OfSpace
<1>9. Done' = 0
  <2>1. Done' = Len(funcs') - n - 1 - 0
    BY <1>1, <1>2, <1>7 DEF Done
  <2> QED
    BY <1>4, <2>1
<1>10. Len(lambdaBodies) \in Nat /\ \A i \in 1..Len(lambdaBodies) : lambdaBodies[i] = i - 1
  BY <1>1, LenProperties DEF AssemblyTypes, BodyInv
<1>11. /\ Done' \in 0..Len(lambdaBodies') /\ Done' + Len(remaining') <= Len(lambdaBodies')
       /\ \A j \in 1..Len(remaining') : remaining'[j] = Done' + j - 1
       /\ \A j \in 1..Done' : funcs'[numSpaceFuncs' + 1 + j] = Lambda(j - 1)
  BY <1>1, <1>9, <1>10
<1>12. funcs'[numSpaceFuncs' + 1] = F("invoke_lambda")
  BY <1>4, <1>7
<1>13. LambdasLaid'
  BY <1>7, <1>8, <1>11, <1>12 DEF LambdasLaid
<1> QED
  BY <1>1, <1>2, <1>13 DEF Layout, LambdasLaid, Before

LEMMA LoopEnds ==
  ASSUME AssemblyTypes, Layout, EndLambdas
  PROVE  Layout'
<1>1. /\ stage = "lambdas" /\ stage' = "tests"
      /\ UNCHANGED <<funcs, numSpaceFuncs, numTestFuncs, lambdaBodies, remaining>>
  BY DEF EndLambdas, Sections
<1>2. LambdasLaid /\ numTestFuncs = 0
  BY <1>1 DEF Layout, LambdasLaid, Behind
<1>3. LambdasLaid'
  BY <1>1, <1>2 DEF LambdasLaid, OfSpace, Done
<1>4. \A i \in 0..(numTestFuncs' - 1) : funcs'[FirstTest' + i] = TestCase(i)
  <2>1. numTestFuncs' = 0
    BY <1>1, <1>2
  <2> QED
    BY <2>1
<1> QED
  BY <1>1, <1>3, <1>4 DEF Layout, LambdasLaid, Before

LEMMA TestsEnd ==
  ASSUME AssemblyTypes, Layout, EndTests
  PROVE  Layout'
<1>1. /\ stage = "tests" /\ stage' = "sections"
      /\ UNCHANGED <<numSpaceFuncs, lambdaBodies, remaining>>
  BY DEF EndTests
<1>2. LambdasLaid
  BY <1>1 DEF Layout, LambdasLaid, Behind
<1>3. CASE numTestFuncs = 0
  <2>1. funcs' = funcs /\ numTestFuncs' = numTestFuncs
    BY <1>3 DEF EndTests
  <2>2. LambdasLaid'
    BY <1>1, <1>2, <2>1 DEF LambdasLaid, OfSpace, Done
  <2> QED
    BY <1>1, <1>3, <2>1, <2>2 DEF Layout, LambdasLaid, Before
<1>4. CASE numTestFuncs # 0
  <2> DEFINE t == numTestFuncs
             b == FirstTest
  <2>1. funcs' = Append(funcs, F("test_count")) /\ numTestFuncs' = t + 1
    BY <1>4 DEF EndTests
  <2>2. F("test_count") \in Fun
    BY DEF F, Fun, Infra
  <2>3. /\ Len(funcs') = Len(funcs) + 1 /\ funcs'[Len(funcs) + 1] = F("test_count")
        /\ \A i \in 1..Len(funcs) : funcs'[i] = funcs[i]
        /\ Extends
    BY <2>1, <2>2, OneMore
  <2>4. /\ numSpaceFuncs \in 5..7 /\ Done \in Nat /\ t \in Nat /\ Len(funcs) \in Nat
        /\ Len(funcs) = numSpaceFuncs + 1 + Done + t
        /\ b = numSpaceFuncs + Done + 2
    BY <1>2, Counted
  <2>5. \A i \in 0..(t - 1) : funcs[b + i] = TestCase(i)
    BY <1>1 DEF Layout
  <2>6. Done' = Len(funcs') - numSpaceFuncs - 1 - (t + 1)
    BY <1>1, <2>1 DEF Done
  <2> HIDE DEF b, t
  <2>7. Done' = Done
    BY <2>3, <2>4, <2>6
  <2>8. FirstTest' = b
    <3>1. FirstTest' = numSpaceFuncs + 1 + Done + 1
      BY <1>1, <2>7 DEF FirstTest
    <3>2. b = numSpaceFuncs + 1 + Done + 1
      BY DEF b, FirstTest
    <3> QED
      BY <3>1, <3>2
  <2>9. LambdasLaid'
    <3>1. Len(lambdaBodies) \in Nat /\ lambdaBodies' = lambdaBodies
      BY <1>1, LenProperties DEF AssemblyTypes
    <3> QED
      BY <1>1, <1>2, <2>3, <2>7, <3>1, LaidKept
  <2>10. b \in Nat \ {0} /\ b + t = Len(funcs) + 1
    BY <2>4
  <2>11. ASSUME NEW i \in 0..(t - 1) PROVE funcs'[b + i] = TestCase(i)
    <3>1. b + i \in 1..Len(funcs)
      BY <2>4, <2>10
    <3> QED
      BY <2>3, <2>5, <3>1
  <2>12. funcs'[b + t] = F("test_count")
    BY <2>3, <2>10
  <2>13. /\ \A i \in 0..(numTestFuncs' - 2) : funcs'[FirstTest' + i] = TestCase(i)
         /\ funcs'[FirstTest' + numTestFuncs' - 1] = F("test_count")
    <3>1. numTestFuncs' - 2 = t - 1 /\ b + numTestFuncs' - 1 = b + t
      BY <2>1, <2>4, <2>10 DEF t
    <3> QED
      BY <2>8, <2>11, <2>12, <3>1
  <2> QED
    BY <1>1, <2>9, <2>13 DEF Layout, LambdasLaid, Before
<1> QED
  BY <1>3, <1>4

LEMMA SectionsLaid ==
  ASSUME AssemblyTypes, Layout, Recorded, WriteSections
  PROVE  Layout'
<1>1. /\ stage = "sections"
      /\ UNCHANGED <<funcs, numSpaceFuncs, numTestFuncs, lambdaBodies, remaining>>
      /\ stage' = IF Validates THEN "valid" ELSE "rejected"
  BY DEF WriteSections, Sections
<1>2. LambdasLaid
  BY <1>1 DEF Layout, LambdasLaid, Behind
<1>3. LambdasLaid'
  BY <1>1, <1>2 DEF LambdasLaid, OfSpace, Done
<1>4. ~Emitting
  BY <1>1, DueFacts DEF AssemblyTypes
<1>5. stage' = "rejected" => Done # Len(lambdaBodies)
  BY <1>1, <1>2, <1>4, AllCompiledValidates
<1>6. Done \in 0..Len(lambdaBodies) /\ Len(lambdaBodies) \in Nat
  BY <1>2, LenProperties DEF LambdasLaid, AssemblyTypes
<1>7. stage' = "rejected" => Done' < Len(lambdaBodies')
  <2>1. Done' = Done /\ lambdaBodies' = lambdaBodies
    BY <1>1 DEF Done
  <2> QED
    BY <1>5, <1>6, <2>1
<1>8. stage' = "valid" \/ stage' = "rejected"
  BY <1>1
<1>9. numTestFuncs' # 0 =>
         /\ \A i \in 0..(numTestFuncs' - 2) : funcs'[FirstTest' + i] = TestCase(i)
         /\ funcs'[FirstTest' + numTestFuncs' - 1] = F("test_count")
  BY <1>1 DEF Layout, FirstTest, Done
<1> QED
  BY <1>3, <1>7, <1>8, <1>9 DEF Layout, LambdasLaid, Before

LEMMA LayoutStep ==
  ASSUME AssemblyTypes, AssemblyTypes', BodyInv, Layout, Recorded, MNext
  PROVE  Layout'
<1>1. CASE \/ \E fun \in Due : Open(fun)
           \/ \E s \in Str : InternNew(s) \/ InternCached(s)
           \/ RegisterLambda
  BY <1>1, SameLayout DEF Open, InternNew, InternCached, RegisterLambda, InEmission
<1>2. CASE Close
  <2>1. ctx.fun \in Due
    BY <1>2 DEF Close, AssemblyTypes
  <2>2. stage \in Before \/ stage = "lambdas" \/ stage = "tests"
    BY <2>1, DueFacts DEF Before
  <2> QED
    BY <1>2, <2>2, SpaceGrows, LambdaGrows, TestGrows
<1>3. CASE Abort
  BY <1>3 DEF Abort, Layout, Before, Behind
<1>4. CASE EmitPlain
  BY <1>4, PlainLaid
<1>5. CASE SkipOptional
  BY <1>5, SkipLaid
<1>6. CASE EmitInvoke
  BY <1>6, InvokeLaid
<1>7. CASE EndLambdas
  BY <1>7, LoopEnds
<1>8. CASE EndTests
  BY <1>8, TestsEnd
<1>9. CASE WriteSections
  BY <1>9, SectionsLaid
<1> QED
  BY <1>1, <1>2, <1>3, <1>4, <1>5, <1>6, <1>7, <1>8, <1>9 DEF MNext

-----------------------------------------------------------------------------
\* The function table and the source map

LEMMA FunStays ==
  ASSUME AssemblyTypes, AssemblyTypes', Extends, NEW i \in Prefix..(nextIdx - 1)
  PROVE  i \in Prefix..(nextIdx' - 1) /\ funcs'[i - Prefix + 1] = FunAt(i)
<1>1. /\ Len(funcs) \in Nat /\ Len(funcs') \in Nat /\ Len(funcs') >= Len(funcs)
      /\ nextIdx = Prefix + Len(funcs) /\ nextIdx' = Prefix + Len(funcs')
      /\ Prefix \in Nat
  BY PrefixNat, LenProperties DEF AssemblyTypes, Extends
<1>2. i \in Prefix..(nextIdx' - 1) /\ i - Prefix + 1 \in 1..Len(funcs)
  BY <1>1
<1> QED
  BY <1>2 DEF Extends, FunAt

\* A step outside an emission that leaves the records alone.
LEMMA RecordsStay ==
  ASSUME AssemblyTypes, AssemblyTypes', Extends, ~Emitting, stage # "failed",
         Recorded, functionTable' = functionTable, sourceMap' = sourceMap
  PROVE  Recorded'
<1>1. ASSUME NEW entry \in functionTable'
      PROVE  /\ entry[2] \in Prefix..nextIdx'
             /\ entry[2] < nextIdx' /\ funcs'[entry[2] - Prefix + 1] = F(entry[1])
  <2>1. /\ entry[2] \in Prefix..nextIdx /\ entry[2] < nextIdx
        /\ FunAt(entry[2]) = F(entry[1])
    BY DEF Recorded
  <2>2. nextIdx \in Nat /\ nextIdx' \in Nat /\ Prefix \in Nat
    BY PrefixNat, LenProperties DEF AssemblyTypes
  <2>3. entry[2] \in Prefix..(nextIdx - 1)
    BY <2>1, <2>2
  <2>4. entry[2] \in Prefix..(nextIdx' - 1) /\ funcs'[entry[2] - Prefix + 1] = FunAt(entry[2])
    BY <2>3, FunStays
  <2> QED
    BY <2>1, <2>2, <2>4
<1>2. ASSUME NEW entry \in sourceMap'
      PROVE  /\ entry.index \in Prefix..(nextIdx' - 1)
             /\ funcs'[entry.index - Prefix + 1] = entry.fun
  <2>1. entry.index \in Prefix..(nextIdx - 1) /\ FunAt(entry.index) = entry.fun
    BY DEF Recorded
  <2> QED
    BY <2>1, FunStays
<1> QED
  BY <1>1, <1>2 DEF Recorded, FunAt

\* A step that appends a function, which is the one in emission if there is one.
LEMMA RecordsGrow ==
  ASSUME AssemblyTypes, AssemblyTypes', stage # "failed", Recorded,
         NEW fun \in Fun, funcs' = Append(funcs, fun),
         Emitting => ctx.fun = fun,
         \A entry \in functionTable' : 
            entry \in functionTable \/ (entry[2] = nextIdx /\ F(entry[1]) = fun),
         \A entry \in sourceMap' : entry \in sourceMap \/ entry = Entry(fun)
  PROVE  Recorded'
<1>1. /\ Len(funcs') = Len(funcs) + 1 /\ funcs'[Len(funcs) + 1] = fun /\ Extends
      /\ Len(funcs) \in Nat
  BY OneMore
<1>2. /\ Prefix \in Nat /\ nextIdx = Prefix + Len(funcs) /\ nextIdx' = Prefix + Len(funcs')
  BY PrefixNat DEF AssemblyTypes
<1>3. /\ nextIdx \in Nat /\ nextIdx' = nextIdx + 1 /\ nextIdx \in Prefix..(nextIdx' - 1)
      /\ nextIdx - Prefix + 1 = Len(funcs) + 1
  BY <1>1, <1>2
<1>4. funcs'[nextIdx - Prefix + 1] = fun
  BY <1>1, <1>3
<1>5. ASSUME NEW entry \in functionTable'
      PROVE  /\ entry[2] \in Prefix..nextIdx'
             /\ entry[2] < nextIdx' /\ funcs'[entry[2] - Prefix + 1] = F(entry[1])
  <2>1. CASE entry[2] = nextIdx /\ F(entry[1]) = fun
    BY <1>2, <1>3, <1>4, <2>1
  <2>2. CASE entry \in functionTable
    <3>1. /\ entry[2] \in Prefix..nextIdx
          /\ \/ entry[2] < nextIdx /\ FunAt(entry[2]) = F(entry[1])
             \/ Emitting /\ ctx.fun = F(entry[1]) /\ entry[2] = nextIdx
      BY <2>2 DEF Recorded
    <3>2. CASE entry[2] < nextIdx /\ FunAt(entry[2]) = F(entry[1])
      <4>1. entry[2] \in Prefix..(nextIdx - 1)
        BY <1>2, <1>3, <3>1, <3>2
      <4>2. funcs'[entry[2] - Prefix + 1] = FunAt(entry[2])
        BY <1>1, <4>1, FunStays
      <4> QED
        BY <1>2, <1>3, <3>2, <4>1, <4>2
    <3>3. CASE Emitting /\ ctx.fun = F(entry[1]) /\ entry[2] = nextIdx
      BY <2>1, <3>3
    <3> QED
      BY <3>1, <3>2, <3>3
  <2> QED
    BY <2>1, <2>2
<1>6. ASSUME NEW entry \in sourceMap'
      PROVE  /\ entry.index \in Prefix..(nextIdx' - 1)
             /\ funcs'[entry.index - Prefix + 1] = entry.fun
  <2>1. CASE entry = Entry(fun)
    <3>1. entry.index = nextIdx /\ entry.fun = fun
      BY <2>1 DEF Entry
    <3> QED
      BY <1>3, <1>4, <3>1
  <2>2. CASE entry \in sourceMap
    <3>1. entry.index \in Prefix..(nextIdx - 1) /\ FunAt(entry.index) = entry.fun
      BY <2>2 DEF Recorded
    <3> QED
      BY <1>1, <3>1, FunStays
  <2> QED
    BY <2>1, <2>2
<1> QED
  BY <1>5, <1>6 DEF Recorded, FunAt

LEMMA RecordedStep ==
  ASSUME AssemblyTypes, AssemblyTypes', BodyInv, Layout, Recorded, MNext
  PROVE  Recorded'
<1>0. stage # "failed" /\ nextIdx \in Nat /\ Prefix \in Nat /\ Prefix <= nextIdx
  BY NotFailed, PrefixNat, LenProperties DEF AssemblyTypes
<1>a. ASSUME UNCHANGED <<funcs, nextIdx>> PROVE Extends
  BY <1>a, LenProperties DEF Extends, AssemblyTypes
<1>1. ASSUME NEW fun \in Due, Open(fun) PROVE Recorded'
  <2>1. /\ ~Emitting /\ UNCHANGED <<funcs, nextIdx, sourceMap>> /\ ctx' = NewContext(fun)
        /\ ctx'.fun = fun /\ Emitting'
    BY <1>1, ContextTyped DEF Open, NewContext, Emitting, NoCtx
  <2>2. \A entry \in functionTable' :
          entry \in functionTable \/ (entry[2] = nextIdx /\ F(entry[1]) = fun)
    <3>1. CASE stage \in {"update", "handle_event"}
      <4>1. fun = F(stage) /\ functionTable' = functionTable \cup {<<stage, nextIdx>>}
        BY <1>1, <3>1, DueFacts DEF Open
      <4> QED
        BY <4>1
    <3>2. CASE stage \notin {"update", "handle_event"}
      BY <1>1, <3>2 DEF Open
    <3> QED
      BY <3>1, <3>2
  <2>3. ASSUME NEW entry \in functionTable'
        PROVE  /\ entry[2] \in Prefix..nextIdx
               /\ \/ entry[2] < nextIdx /\ FunAt(entry[2]) = F(entry[1])
                  \/ ctx'.fun = F(entry[1]) /\ entry[2] = nextIdx
    BY <1>0, <2>1, <2>2 DEF Recorded
  <2> QED
    BY <2>1, <2>3 DEF Recorded, FunAt
<1>2. CASE (\E s \in Str : InternNew(s) \/ InternCached(s)) \/ RegisterLambda
  <2>1. /\ Emitting /\ Emitting' /\ ctx'.fun = ctx.fun
        /\ UNCHANGED <<stage, funcs, nextIdx, functionTable, sourceMap>>
    BY <1>2, StaysEmitting DEF InEmission
  <2> QED
    BY <1>0, <2>1 DEF Recorded, FunAt
<1>3. CASE Close
  <2>1. /\ funcs' = Append(funcs, ctx.fun) /\ functionTable' = functionTable
        /\ \A entry \in sourceMap' : entry \in sourceMap \/ entry = Entry(ctx.fun)
        /\ ctx.fun \in Fun
    BY <1>3, DueFacts DEF Close, AssemblyTypes
  <2> QED
    BY <1>0, <2>1, RecordsGrow
<1>4. CASE Abort
  BY <1>4 DEF Abort, Recorded, FunAt
<1>5. CASE EmitPlain
  <2>1. ~Emitting
    BY <1>5, DueFacts DEF AssemblyTypes, EmitPlain
  <2>2. UNCHANGED <<functionTable, sourceMap>>
    BY <1>5 DEF EmitPlain, Sections
  <2> QED
    BY <1>0, <1>5, <2>1, <2>2, PlainLaid, RecordsStay
<1>6. CASE SkipOptional \/ EndLambdas \/ WriteSections
  <2>1. ~Emitting
    BY <1>6, DueFacts DEF AssemblyTypes, WriteSections, SkipOptional, EndLambdas
  <2>2. UNCHANGED <<funcs, nextIdx, functionTable, sourceMap>>
    BY <1>6 DEF SkipOptional, EndLambdas, WriteSections, Sections
  <2> QED
    BY <1>0, <1>a, <2>1, <2>2, RecordsStay
<1>7. CASE EmitInvoke
  <2> DEFINE fun == F("invoke_lambda")
  <2>1. ~Emitting
    BY <1>7, DueFacts DEF AssemblyTypes, EmitInvoke
  <2>2. fun \in Fun
    BY DEF F, Fun, Infra
  <2>3. /\ funcs' = Append(funcs, fun)
        /\ functionTable' = functionTable \cup {<<"invoke_lambda", nextIdx>>}
        /\ sourceMap' = sourceMap \cup {Entry(fun)}
    BY <1>7 DEF EmitInvoke
  <2>4. \A entry \in functionTable' :
          entry \in functionTable \/ (entry[2] = nextIdx /\ F(entry[1]) = fun)
    BY <2>3
  <2>5. \A entry \in sourceMap' : entry \in sourceMap \/ entry = Entry(fun)
    BY <2>3
  <2> HIDE DEF fun
  <2> QED
    BY <1>0, <2>1, <2>2, <2>3, <2>4, <2>5, RecordsGrow
<1>8. CASE EndTests
  <2>1. ~Emitting /\ functionTable' = functionTable
    BY <1>8 DEF EndTests
  <2>2. CASE numTestFuncs = 0
    <3>1. UNCHANGED <<funcs, nextIdx, sourceMap>>
      BY <1>8, <2>2 DEF EndTests
    <3> QED
      BY <1>0, <1>a, <2>1, <3>1, RecordsStay
  <2>3. CASE numTestFuncs # 0
    <3> DEFINE fun == F("test_count")
    <3>1. fun \in Fun
      BY DEF F, Fun, Infra
    <3>2. funcs' = Append(funcs, fun) /\ sourceMap' = sourceMap \cup {Entry(fun)}
      BY <1>8, <2>3 DEF EndTests
    <3>3. \A entry \in sourceMap' : entry \in sourceMap \/ entry = Entry(fun)
      BY <3>2
    <3> HIDE DEF fun
    <3> QED
      BY <1>0, <2>1, <3>1, <3>2, <3>3, RecordsGrow
  <2> QED
    BY <2>2, <2>3
<1> QED
  BY <1>1, <1>2, <1>3, <1>4, <1>5, <1>6, <1>7, <1>8 DEF MNext

-----------------------------------------------------------------------------
\* The invariant

LEMMA InitInv == MInit => AssemblyInv
<1> SUFFICES ASSUME MInit PROVE AssemblyInv
  OBVIOUS
<1>1. /\ stage = "init" /\ funcs = <<>> /\ Len(<<>>) = 0 /\ ~Emitting
      /\ numSpaceFuncs = 0 /\ numTestFuncs = 0 /\ lambdaBodies = <<>>
      /\ nextOffset = Len(WellKnown) /\ userData = <<>>
      /\ functionTable = {} /\ sourceMap = {} /\ refs = {} /\ closures = {}
  BY DEF MInit, Emitting
<1>2. AssemblyTypes
  BY InitTypes
<1>3. WellKnown \o <<>> = WellKnown
  BY AssemblyConstants, ConcatEmptySeq
<1>4. StringInv
  BY <1>1, <1>3 DEF StringInv, StringsRight, Segment
<1>5. BodyInv
  BY <1>1, FS_EmptySet DEF BodyInv
<1>6. Layout
  <2>1. SpaceLength
    BY <1>1 DEF SpaceLength
  <2>2. OfSpace(Len(funcs))
    BY <1>1 DEF OfSpace
  <2> QED
    BY <1>1, <2>1, <2>2 DEF Layout, Behind
<1>7. Recorded
  BY <1>1 DEF Recorded
<1> QED
  BY <1>2, <1>4, <1>5, <1>6, <1>7 DEF AssemblyInv

LEMMA StutterInv == AssemblyInv /\ UNCHANGED mvars => AssemblyInv'
<1> SUFFICES ASSUME AssemblyInv, UNCHANGED mvars PROVE AssemblyInv'
  OBVIOUS
<1> USE DEF mvars
<1>1. AssemblyTypes'
  BY DEF AssemblyInv, AssemblyTypes, Due, Emitting
<1>2. StringInv'
  BY DEF AssemblyInv, StringInv, StringsRight, Bytes, Segment, Emitting
<1>3. BodyInv'
  BY DEF AssemblyInv, BodyInv, Emitting
<1>4. Layout'
  BY SameLayout DEF AssemblyInv
<1>5. Recorded'
  BY DEF AssemblyInv, Recorded, Emitting, FunAt
<1> QED
  BY <1>1, <1>2, <1>3, <1>4, <1>5 DEF AssemblyInv

LEMMA StepInv == AssemblyInv /\ MNext => AssemblyInv'
<1> SUFFICES ASSUME AssemblyInv, MNext PROVE AssemblyInv'
  OBVIOUS
<1>1. AssemblyTypes'
  BY TypesStep DEF AssemblyInv
<1>2. StringInv'
  BY <1>1, StringStep DEF AssemblyInv
<1>3. BodyInv'
  BY BodyStep DEF AssemblyInv
<1>4. Layout'
  BY <1>1, LayoutStep DEF AssemblyInv
<1>5. Recorded'
  BY <1>1, RecordedStep DEF AssemblyInv
<1> QED
  BY <1>1, <1>2, <1>3, <1>4, <1>5 DEF AssemblyInv

LEMMA AlwaysAssemblyInv == MSpec => []AssemblyInv
<1>1. AssemblyInv /\ [MNext]_mvars => AssemblyInv'
  BY StutterInv, StepInv
<1> QED
  BY <1>1, InitInv, PTL DEF MSpec

-----------------------------------------------------------------------------
\* A finished module

LEMMA Finished ==
  ASSUME AssemblyInv, stage \in {"valid", "rejected"}
  PROVE  LambdasLaid /\ ~Emitting
<1>1. stage \in Behind
  BY DEF Behind
<1> QED
  BY <1>1, DueFacts DEF AssemblyInv, Layout, LambdasLaid, AssemblyTypes

\* A body that the loop did not reach was never compiled.
LEMMA NotReached ==
  ASSUME AssemblyInv, stage \in {"valid", "rejected"},
         NEW b \in Nat, Done <= b
  PROVE  NeverCompiled(b)
<1> DEFINE m == numSpaceFuncs
           t == numTestFuncs
           d == Done
<1>1. LambdasLaid /\ AssemblyTypes
  BY Finished DEF AssemblyInv
<1>2. /\ m \in 5..7 /\ d \in Nat /\ t \in Nat /\ Len(funcs) \in Nat
      /\ Len(funcs) = m + 1 + d + t /\ FirstTest = m + d + 2
  BY <1>1, Counted
<1>3. /\ \A i \in 1..m : funcs[i].kind \in SpaceKinds
      /\ funcs[m + 1] = F("invoke_lambda")
      /\ \A j \in 1..d : funcs[m + 1 + j] = Lambda(j - 1)
  BY <1>1 DEF LambdasLaid, OfSpace
<1>4. t # 0 => /\ \A i \in 0..(t - 2) : funcs[FirstTest + i] = TestCase(i)
               /\ funcs[FirstTest + t - 1] = F("test_count")
  BY DEF AssemblyInv, Layout
<1>d. d <= b
  OBVIOUS
<1> HIDE DEF d, m, t
<1>5. ASSUME NEW i \in 1..Len(funcs) PROVE funcs[i] # Lambda(b)
  <2>1. CASE i <= m
    <3>1. i \in 1..m
      BY <1>2, <2>1
    <3>2. funcs[i].kind \in SpaceKinds
      BY <1>3, <3>1
    <3> QED
      BY <3>2 DEF SpaceKinds, Infra, Lambda
  <2>2. CASE i = m + 1
    BY <1>3, <2>2 DEF F, Lambda
  <2>3. CASE m + 1 < i /\ i <= m + 1 + d
    <3> DEFINE j == i - m - 1
    <3>1. j \in 1..d /\ m + 1 + j = i /\ j - 1 < b
      BY <1>2, <1>d, <2>3
    <3>2. funcs[i] = Lambda(j - 1)
      BY <1>3, <3>1
    <3>3. Lambda(j - 1).no # Lambda(b).no
      BY <3>1 DEF Lambda
    <3> QED
      BY <3>2, <3>3
  <2>4. CASE m + 1 + d < i
    <3> DEFINE k == i - m - d - 2
    <3>1. k \in 0..(t - 1) /\ FirstTest + k = i /\ t # 0
      BY <1>2, <2>4
    <3>2. k \in 0..(t - 2) \/ FirstTest + k = FirstTest + t - 1
      BY <1>2, <3>1
    <3>3. funcs[i] = TestCase(k) \/ funcs[i] = F("test_count")
      BY <1>4, <3>1, <3>2
    <3> QED
      BY <3>3 DEF TestCase, F, Lambda
  <2> QED
    BY <1>2, <2>1, <2>2, <2>3, <2>4
<1>6. ASSUME NEW i \in DOMAIN funcs PROVE FunAt(Prefix + i - 1) # Lambda(b)
  <2>1. i \in 1..Len(funcs) /\ Prefix + i - 1 - Prefix + 1 = i
    BY <1>1, <1>2, PrefixNat, LenProperties DEF AssemblyTypes
  <2>2. FunAt(Prefix + i - 1) = funcs[i]
    BY <1>2, <2>1, PrefixNat DEF FunAt
  <2> QED
    BY <1>5, <2>1, <2>2
<1> QED
  BY <1>6 DEF NeverCompiled, Compiled, Lambda

LEMMA BodyNumbers ==
  ASSUME AssemblyInv, stage # "failed"
  PROVE  /\ Len(lambdaBodies) \in Nat /\ DOMAIN lambdaBodies = 1..Len(lambdaBodies)
         /\ \A i \in 1..Len(lambdaBodies) : lambdaBodies[i] = i - 1
BY LenProperties DEF AssemblyInv, AssemblyTypes, BodyInv

\* If the loop stopped early, the last body listed was not compiled.
LEMMA StoppedEarly ==
  ASSUME AssemblyInv, stage \in {"valid", "rejected"}, Done < Len(lambdaBodies)
  PROVE  Late
<1> DEFINE n == Len(lambdaBodies)
<1>1. Done \in Nat /\ n \in Nat /\ n \in DOMAIN lambdaBodies /\ lambdaBodies[n] = n - 1
  <2>1. Done \in Nat
    BY Finished, Counted DEF AssemblyInv
  <2>2. n \in Nat /\ DOMAIN lambdaBodies = 1..n /\ \A i \in 1..n : lambdaBodies[i] = i - 1
    BY BodyNumbers
  <2>3. n \in 1..n
    BY <2>1, <2>2
  <2> QED
    BY <2>1, <2>2, <2>3
<1>2. n - 1 \in Nat /\ Done <= n - 1
  BY <1>1
<1> QED
  BY <1>1, <1>2, NotReached DEF Late

-----------------------------------------------------------------------------
\* Theorems

\* However the functions of a program intern their strings, every address in
\* the code finds its string, in every state of the assembly and in the
\* module handed out.
THEOREM StringsFound == MSpec => []StringsRight
<1>1. AssemblyInv => StringsRight
  BY DEF AssemblyInv, StringInv, StringsRight
<1> QED
  BY <1>1, AlwaysAssemblyInv, PTL

\* Whatever a program nests where, a table slot of a valid module holds its
\* lambda, or the lambda was never compiled at all.
THEOREM SlotsHoldTheirLambda == MSpec => []ElementsRight
<1>1. AssemblyInv => ElementsRight
  <2> SUFFICES ASSUME AssemblyInv, stage = "valid", NEW i \in DOMAIN Element
               PROVE  \/ FunAt(Element[i]) = Lambda(lambdaBodies[i + 1])
                      \/ NeverCompiled(lambdaBodies[i + 1])
    BY DEF ElementsRight, Lambda
  <2>1. LambdasLaid /\ numSpaceFuncs \in 5..7 /\ Done \in Nat
    BY Finished, Counted DEF AssemblyInv
  <2>2. i \in 0..(Len(lambdaBodies) - 1) /\ Element[i] = Prefix + numSpaceFuncs + 1 + i
    BY DEF Element
  <2>3. i \in Nat /\ lambdaBodies[i + 1] = i
    <3>1. Len(lambdaBodies) \in Nat /\ \A k \in 1..Len(lambdaBodies) : lambdaBodies[k] = k - 1
      BY BodyNumbers
    <3>2. i \in Nat /\ i + 1 \in 1..Len(lambdaBodies) /\ i + 1 - 1 = i
      BY <2>2, <3>1
    <3> QED
      BY <3>1, <3>2
  <2>4. CASE i < Done
    <3>1. i + 1 \in 1..Done /\ i + 1 - 1 = i
      BY <2>1, <2>3, <2>4
    <3>2. funcs[numSpaceFuncs + 1 + (i + 1)] = Lambda(i)
      <4>1. \A j \in 1..Done : funcs[numSpaceFuncs + 1 + j] = Lambda(j - 1)
        BY <2>1 DEF LambdasLaid
      <4> QED
        BY <2>1, <2>3, <3>1, <4>1
    <3>3. Element[i] - Prefix + 1 = numSpaceFuncs + 1 + (i + 1)
      BY <2>1, <2>2, <2>3, PrefixNat
    <3> QED
      BY <2>3, <3>2, <3>3 DEF FunAt
  <2>5. CASE Done <= i
    BY <2>3, <2>5, NotReached
  <2> QED
    BY <2>1, <2>3, <2>4, <2>5
<1> QED
  BY <1>1, AlwaysAssemblyInv, PTL

\* The indices written into the exports of a valid module and into its source
\* map are those of the functions they name, for a program of any size with
\* or without update and handleEvent.
THEOREM ExportsNameTheirFunction == MSpec => []IndicesRight
<1>1. ASSUME AssemblyInv, stage = "valid", NEW e \in Exports
      PROVE  FunAt(e.index) = e.fun \/ (Late /\ e.fun.kind \in {"test", "test_count"})
  <2> DEFINE m == numSpaceFuncs
             t == numTestFuncs
  <2>1. LambdasLaid /\ ~Emitting
    BY <1>1, Finished
  <2>2. /\ m \in 5..7 /\ Done \in Nat /\ t \in Nat /\ FirstTest = m + Done + 2
        /\ Prefix \in Nat
    BY <1>1, <2>1, Counted, PrefixNat DEF AssemblyInv
  <2>3. /\ funcs[1] = F("init") /\ funcs[2] = F("dispatch_action")
        /\ funcs[3] = F("render") /\ funcs[4] = F("get_state") /\ funcs[5] = F("dealloc")
    <3>1. OfSpace(m)
      BY <2>1 DEF LambdasLaid
    <3>2. m >= 1 /\ m >= 2 /\ m >= 3 /\ m >= 4 /\ m >= 5
      BY <2>2
    <3> HIDE DEF m
    <3> QED
      BY <3>1, <3>2 DEF OfSpace
  <2>4. /\ FunAt(Prefix) = funcs[1] /\ FunAt(Prefix + 1) = funcs[2]
        /\ FunAt(Prefix + 2) = funcs[3] /\ FunAt(Prefix + 3) = funcs[4]
        /\ FunAt(Prefix + 4) = funcs[5]
    <3>1. /\ Prefix - Prefix + 1 = 1 /\ Prefix + 1 - Prefix + 1 = 2
          /\ Prefix + 2 - Prefix + 1 = 3 /\ Prefix + 3 - Prefix + 1 = 4
          /\ Prefix + 4 - Prefix + 1 = 5
      BY <2>2
    <3> QED
      BY <2>2, <3>1 DEF FunAt
  <2>5. \A entry \in functionTable : FunAt(entry[2]) = F(entry[1])
    BY <1>1, <2>1 DEF AssemblyInv, Recorded
  <2>6. CASE \E entry \in functionTable : e = Export(F(entry[1]), entry[2])
    BY <2>5, <2>6 DEF Export
  <2>7. CASE \/ e = Export(F("init"), Prefix)
             \/ e = Export(F("dispatch_action"), Prefix + 1)
             \/ e = Export(F("render"), Prefix + 2)
             \/ e = Export(F("get_state"), Prefix + 3)
             \/ e = Export(F("dealloc"), Prefix + 4)
    BY <2>3, <2>4, <2>7 DEF Export
  <2>8. CASE t # 0 /\ \/ \E i \in 0..(t - 2) : e = Export(TestCase(i), TestBase + i)
                      \/ e = Export(F("test_count"), TestBase + t - 1)
    <3>1. e.fun.kind \in {"test", "test_count"}
      BY <2>8 DEF Export, TestCase, F
    <3>2. CASE Done < Len(lambdaBodies)
      BY <1>1, <3>1, <3>2, StoppedEarly
    <3>3. CASE Done = Len(lambdaBodies)
      <4>1. TestBase = Prefix + m + 1 + Done
        BY <3>3 DEF TestBase
      <4>2. /\ \A i \in 0..(t - 2) : funcs[FirstTest + i] = TestCase(i)
            /\ funcs[FirstTest + t - 1] = F("test_count")
        BY <1>1, <2>8 DEF AssemblyInv, Layout
      <4> HIDE DEF m, t
      <4>3. CASE \E i \in 0..(t - 2) : e = Export(TestCase(i), TestBase + i)
        <5>1. PICK i \in 0..(t - 2) : e = Export(TestCase(i), TestBase + i)
          BY <4>3
        <5>2. TestBase + i - Prefix + 1 = FirstTest + i
          BY <2>2, <4>1
        <5>3. FunAt(TestBase + i) = funcs[FirstTest + i]
          BY <2>2, <4>1, <5>2 DEF FunAt
        <5> QED
          BY <4>2, <5>1, <5>3 DEF Export
      <4>4. CASE e = Export(F("test_count"), TestBase + t - 1)
        <5>1. TestBase + t - 1 - Prefix + 1 = FirstTest + t - 1
          BY <2>2, <4>1
        <5>2. FunAt(TestBase + t - 1) = funcs[FirstTest + t - 1]
          BY <2>2, <4>1, <5>1 DEF FunAt
        <5> QED
          BY <4>2, <4>4, <5>2 DEF Export
      <4> QED
        BY <2>8, <4>3, <4>4
    <3>4. Done < Len(lambdaBodies) \/ Done = Len(lambdaBodies)
      <4>1. Done \in 0..Len(lambdaBodies) /\ Len(lambdaBodies) \in Nat
        BY <1>1, <2>1, BodyNumbers DEF LambdasLaid
      <4> QED
        BY <4>1
    <3> QED
      BY <3>2, <3>3, <3>4
  <2> QED
    BY <2>6, <2>7, <2>8, ExportKinds
<1>2. ASSUME AssemblyInv, NEW entry \in sourceMap
      PROVE  entry.index < Prefix + Len(funcs) /\ FunAt(entry.index) = entry.fun
  BY <1>2, PrefixNat, LenProperties DEF AssemblyInv, AssemblyTypes, Recorded
<1>3. AssemblyInv => IndicesRight
  BY <1>1, <1>2 DEF IndicesRight
<1> QED
  BY <1>3, AlwaysAssemblyInv, PTL

\* A program the emitter gets through is rejected only if one of its lambdas
\* was never compiled.
THEOREM OnlyLateRejects == MSpec => []RejectedOnlyForLate
<1>1. AssemblyInv => RejectedOnlyForLate
  BY StoppedEarly DEF AssemblyInv, Layout, RejectedOnlyForLate
<1> QED
  BY <1>1, AlwaysAssemblyInv, PTL
=============================================================================
