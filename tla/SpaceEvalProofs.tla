--------------------------- MODULE SpaceEvalProofs ---------------------------
(***************************************************************************)
(* The evaluator for every program: any fields, locals, credentials and    *)
(* derived fields, any values, any invariants, any budget.  First, what    *)
(* the operations on the scope stack do to what a program reads; then the  *)
(* types and the discipline of the stack; then how a call ends, and from   *)
(* these the refinement of TransactionalSpace.                             *)
(***************************************************************************)
EXTENDS SpaceEval, SequenceTheorems, FiniteSetTheorems, TLAPS

\* A nonempty set of positions has a last one.
LEMMA LastExists ==
  ASSUME NEW n \in Nat, NEW S \in SUBSET (1..n), S # {}
  PROVE  \E m \in S : \A k \in S : k <= m
<1> DEFINE U == 1..n
<1> DEFINE T == {W \in SUBSET U : \E k \in S : W = {j \in S : k <= j}}
<1>1. IsFiniteSet(U)
  BY FS_Interval
<1>2. IsWellFoundedOn(StrictSubsetOrdering(U), SUBSET U)
  <2> HIDE DEF U
  <2> QED BY <1>1, FS_StrictSubsetOrderingWellFounded, FS_FiniteSubsetsOfFinite
<1>3. \A k \in S : {j \in S : k <= j} \in T
  OBVIOUS
<1>4. T \subseteq SUBSET U /\ T # {}
  BY <1>3
<1>5. \E W \in T : \A V \in T : <<V, W>> \notin StrictSubsetOrdering(U)
  <2> HIDE DEF U, T
  <2> QED BY <1>2, <1>4, WFMin
<1>6. PICK W \in T : \A V \in T : <<V, W>> \notin StrictSubsetOrdering(U)
  BY <1>5
<1>7. PICK m \in S : W = {j \in S : m <= j}
  OBVIOUS
<1>8. ASSUME NEW k \in S, ~(k <= m) PROVE FALSE
  <2> DEFINE V == {j \in S : k <= j}
  <2>0. m \in Nat /\ k \in Nat /\ S \subseteq Nat
    OBVIOUS
  <2>1. m \in Nat /\ k \in Nat /\ S \subseteq Nat /\ m < k
    BY <1>8, <2>0
  <2>2. V \subseteq W /\ m \in W /\ m \notin V
    <3>1. \A j \in S : k <= j => m <= j
      BY <2>1, SMT
    <3>2. m <= m /\ ~(k <= m)
      BY <1>8, <2>1
    <3> QED
      BY <1>7, <3>1, <3>2, Zenon
  <2>3. V \in T /\ V \in SUBSET U /\ W \in SUBSET U
    BY <1>3
  <2>4. <<V, W>> \in StrictSubsetOrdering(U)
    <3> HIDE DEF V, U, T
    <3> QED BY <2>2, <2>3 DEF StrictSubsetOrdering
  <2> HIDE DEF V, U, T
  <2> QED
    BY <1>6, <2>3, <2>4
<1> QED
  BY <1>8

\* The innermost scope that binds a bound name exists.
LEMMA BinderIsLast ==
  ASSUME NEW e \in Seq(Scope), NEW n \in Name, IsBound(e, n)
  PROVE  /\ Binder(e, n) \in 1..Len(e)
         /\ Binder(e, n) \in Binders(e, n)
         /\ \A j \in Binders(e, n) : j <= Binder(e, n)
<1>1. Len(e) \in Nat /\ Binders(e, n) \in SUBSET (1..Len(e)) /\ Binders(e, n) # {}
  BY LenProperties DEF Binders, IsBound
<1>2. \E i \in Binders(e, n) : \A j \in Binders(e, n) : j <= i
  BY <1>1, LastExists
<1> QED
  BY <1>1, <1>2 DEF Binder

\* What is looked up is a value or nothing.
LEMMA LookupType ==
  ASSUME NEW e \in Seq(Scope), NEW n \in Name
  PROVE  Lookup(e, n) \in Slot
<1>1. CASE IsBound(e, n)
  <2>1. e[Binder(e, n)] \in Scope
    BY <1>1, BinderIsLast, ElementOfSeq
  <2> QED
    BY <1>1, <2>1 DEF Lookup, Scope
<1>2. CASE ~IsBound(e, n)
  BY <1>2 DEF Lookup, Slot
<1> QED
  BY <1>1, <1>2

LEMMA ViewType ==
  ASSUME NEW e \in Seq(Scope)
  PROVE  View(e) \in Scope
BY LookupType DEF View, Scope

\* Writing one slot of one scope.
Write(e, i, d, v) == [e EXCEPT ![i][d] = v]

LEMMA WriteSlot ==
  ASSUME NEW e \in Seq(Scope), NEW i \in 1..Len(e), NEW d \in Name, NEW v \in Slot
  PROVE  /\ Write(e, i, d, v) \in Seq(Scope)
         /\ Len(Write(e, i, d, v)) = Len(e)
         /\ DOMAIN Write(e, i, d, v) = DOMAIN e
         /\ \A j \in 1..Len(e), n \in Name :
              Write(e, i, d, v)[j][n] = IF j = i /\ n = d THEN v ELSE e[j][n]
<1> DEFINE s == [e[i] EXCEPT ![d] = v]
<1>1. e[i] \in Scope
  BY ElementOfSeq
<1>2. s \in Scope /\ \A n \in Name : s[n] = IF n = d THEN v ELSE e[i][n]
  BY <1>1 DEF Scope
<1>3. Write(e, i, d, v) = [e EXCEPT ![i] = s]
  BY DEF Write
<1> HIDE DEF s
<1>4. /\ [e EXCEPT ![i] = s] \in Seq(Scope)
      /\ Len([e EXCEPT ![i] = s]) = Len(e)
      /\ \A j \in 1..Len(e) : [e EXCEPT ![i] = s][j] = IF j = i THEN s ELSE e[j]
  BY <1>2, ExceptSeq
<1>5. DOMAIN Write(e, i, d, v) = DOMAIN e
  BY <1>3
<1> QED
  BY <1>2, <1>3, <1>4, <1>5

\* ... is not seen under any other name ...
LEMMA WriteOther ==
  ASSUME NEW e \in Seq(Scope), NEW i \in 1..Len(e), NEW d \in Name, NEW v \in Slot,
         NEW n \in Name, n # d
  PROVE  Lookup(Write(e, i, d, v), n) = Lookup(e, n)
<1> DEFINE w == Write(e, i, d, v)
<1>1. w \in Seq(Scope) /\ DOMAIN w = DOMAIN e /\ DOMAIN e = 1..Len(e)
  BY WriteSlot, LenProperties
<1>2. \A j \in 1..Len(e) : w[j][n] = e[j][n]
  BY WriteSlot
<1> HIDE DEF w
<1>3. Binders(w, n) = Binders(e, n)
  BY <1>1, <1>2 DEF Binders
<1>4. Binder(w, n) = Binder(e, n) /\ (IsBound(w, n) <=> IsBound(e, n))
  BY <1>3 DEF Binder, IsBound
<1>5. CASE IsBound(e, n)
  <2>1. w[Binder(e, n)][n] = e[Binder(e, n)][n]
    BY <1>2, <1>5, BinderIsLast
  <2> QED
    BY <1>4, <1>5, <2>1 DEF Lookup, IsBound, w
<1>6. CASE ~IsBound(e, n)
  BY <1>4, <1>6 DEF Lookup, IsBound, w
<1> QED
  BY <1>5, <1>6 DEF w

\* ... and is what its own name reads as, when no scope further in binds it.
LEMMA WriteOwn ==
  ASSUME NEW e \in Seq(Scope), NEW i \in 1..Len(e), NEW d \in Name, NEW v \in Val,
         \A j \in Binders(e, d) : j <= i
  PROVE  Lookup(Write(e, i, d, v), d) = v
<1> DEFINE w == Write(e, i, d, v)
<1>0. v \in Slot /\ v # Unbound
  BY ValueAssumption DEF Slot
<1>1. w \in Seq(Scope) /\ DOMAIN w = 1..Len(e) /\ DOMAIN e = 1..Len(e)
  BY <1>0, WriteSlot, LenProperties
<1>2. \A j \in 1..Len(e) : w[j][d] = IF j = i THEN v ELSE e[j][d]
  BY <1>0, WriteSlot
<1> HIDE DEF w
<1>3. i \in Binders(w, d) /\ \A j \in Binders(w, d) : j <= i
  <2>1. i \in Binders(w, d)
    BY <1>0, <1>1, <1>2 DEF Binders
  <2>2. \A j \in Binders(w, d) : j = i \/ j \in Binders(e, d)
    BY <1>1, <1>2 DEF Binders
  <2>3. i <= i
    BY LenProperties
  <2> QED
    BY <2>1, <2>2, <2>3
<1>4. IsBound(w, d)
  BY <1>3 DEF IsBound
<1>5. Binder(w, d) \in Binders(w, d) /\ i <= Binder(w, d)
  BY <1>1, <1>3, <1>4, BinderIsLast
<1>6. Binder(w, d) = i
  <2>1. Binder(w, d) <= i /\ Binder(w, d) \in Int /\ i \in Int
    BY <1>1, <1>3, <1>5 DEF Binders
  <2> QED
    BY <1>5, <2>1
<1> QED
  BY <1>2, <1>4, <1>6 DEF Lookup, w

-----------------------------------------------------------------------------
\* The operations of Environment.

LEMMA EmptyScopeType ==
  /\ EmptyScope \in Scope
  /\ \A n \in Name, v \in Slot : [EmptyScope EXCEPT ![n] = v] \in Scope
BY DEF EmptyScope, Scope, Slot

LEMMA PushIsLonger ==
  ASSUME NEW e \in Seq(Scope), NEW s \in Scope
  PROVE  /\ PushScope(e, s) \in Seq(Scope)
         /\ Len(PushScope(e, s)) = Len(e) + 1
         /\ \A i \in 1..Len(e) : PushScope(e, s)[i] = e[i]
         /\ PushScope(e, s)[Len(e) + 1] = s
BY AppendProperties DEF PushScope

\* A stack cut down keeps its outer scopes.
LEMMA CutStack ==
  ASSUME NEW e \in Seq(Scope), NEW k \in 1..Len(e)
  PROVE  /\ SubSeq(e, 1, k) \in Seq(Scope)
         /\ Len(SubSeq(e, 1, k)) = k
         /\ \A i \in 1..k : SubSeq(e, 1, k)[i] = e[i]
<1>1. k \in Int /\ k <= Len(e) /\ 1 <= k /\ Len(e) \in Nat
  BY LenProperties
<1>2. \A i \in 1..k : e[i] \in Scope
  BY <1>1, ElementOfSeq
<1>3. /\ SubSeq(e, 1, k) \in Seq(Scope)
      /\ Len(SubSeq(e, 1, k)) = IF 1 <= k THEN k - 1 + 1 ELSE 0
      /\ \A i \in 1..(k - 1 + 1) : SubSeq(e, 1, k)[i] = e[1 + i - 1]
  BY <1>1, <1>2, SubSeqProperties
<1>4. k - 1 + 1 = k /\ \A i \in 1..k : 1 + i - 1 = i
  BY <1>1
<1> QED
  BY <1>1, <1>3, <1>4

LEMMA PopIsShorter ==
  ASSUME NEW e \in Seq(Scope), Len(e) >= 2
  PROVE  /\ PopScope(e) \in Seq(Scope)
         /\ Len(PopScope(e)) = Len(e) - 1
         /\ \A i \in 1..(Len(e) - 1) : PopScope(e)[i] = e[i]
<1>1. Len(e) \in Nat /\ Len(e) > 1 /\ Len(e) - 1 \in 1..Len(e)
  BY LenProperties
<1>2. PopScope(e) = SubSeq(e, 1, Len(e) - 1)
  BY <1>1 DEF PopScope
<1> QED
  BY <1>1, <1>2, CutStack

LEMMA DefineIsWrite ==
  ASSUME NEW e \in Seq(Scope), Len(e) >= 1, NEW d \in Name, NEW v \in Slot
  PROVE  /\ Define(e, d, v) = Write(e, Len(e), d, v)
         /\ Len(e) \in 1..Len(e)
         /\ Define(e, d, v) \in Seq(Scope)
         /\ Len(Define(e, d, v)) = Len(e)
<1>1. Len(e) \in 1..Len(e)
  BY LenProperties
<1>2. Define(e, d, v) = Write(e, Len(e), d, v)
  BY DEF Define, Write
<1> QED
  BY <1>1, <1>2, WriteSlot

LEMMA AssignIsWrite ==
  ASSUME NEW e \in Seq(Scope), NEW d \in Name, NEW v \in Slot
  PROVE  /\ Assign(e, d, v) \in Seq(Scope)
         /\ Len(Assign(e, d, v)) = Len(e)
         /\ IsBound(e, d) => Assign(e, d, v) = Write(e, Binder(e, d), d, v)
<1>1. CASE IsBound(e, d)
  <2>1. Assign(e, d, v) = Write(e, Binder(e, d), d, v)
    BY <1>1 DEF Assign, Write
  <2> QED
    BY <1>1, <2>1, BinderIsLast, WriteSlot
<1>2. CASE ~IsBound(e, d)
  BY <1>2 DEF Assign
<1> QED
  BY <1>1, <1>2

\* set_or_define: whatever the stack holds, the name reads as the new value
\* and every other name reads as before.
LEMMA SetOrDefineView ==
  ASSUME NEW e \in Seq(Scope), Len(e) >= 1, NEW d \in Name, NEW v \in Val
  PROVE  /\ SetOrDefine(e, d, v) \in Seq(Scope)
         /\ Len(SetOrDefine(e, d, v)) = Len(e)
         /\ Lookup(SetOrDefine(e, d, v), d) = v
         /\ \A n \in Name \ {d} : Lookup(SetOrDefine(e, d, v), n) = Lookup(e, n)
<1>0. v \in Slot
  BY DEF Slot
<1>1. CASE IsBound(e, d)
  <2>1. SetOrDefine(e, d, v) = Write(e, Binder(e, d), d, v)
    BY <1>0, <1>1, AssignIsWrite DEF SetOrDefine
  <2>2. Binder(e, d) \in 1..Len(e) /\ \A j \in Binders(e, d) : j <= Binder(e, d)
    BY <1>1, BinderIsLast
  <2> QED
    BY <1>0, <2>1, <2>2, WriteSlot, WriteOwn, WriteOther
<1>2. CASE ~IsBound(e, d)
  <2>1. SetOrDefine(e, d, v) = Write(e, Len(e), d, v) /\ Len(e) \in 1..Len(e)
    BY <1>0, <1>2, DefineIsWrite DEF SetOrDefine
  <2>2. \A j \in Binders(e, d) : j <= Len(e)
    BY <1>2 DEF IsBound
  <2> QED
    BY <1>0, <2>1, <2>2, WriteSlot, WriteOwn, WriteOther
<1> QED
  BY <1>1, <1>2

\* ... in one equation.
LEMMA SetOrDefineExcept ==
  ASSUME NEW e \in Seq(Scope), Len(e) >= 1, NEW d \in Name, NEW v \in Val
  PROVE  View(SetOrDefine(e, d, v)) = [View(e) EXCEPT ![d] = v]
<1> DEFINE w == SetOrDefine(e, d, v)
<1>1. \A n \in Name : Lookup(w, n) = IF n = d THEN v ELSE Lookup(e, n)
  BY SetOrDefineView
<1> HIDE DEF w
<1>2. View(w) = [View(e) EXCEPT ![d] = v]
  BY <1>1, Zenon DEF View
<1> QED
  BY <1>2 DEF w

LEMMA RestoreIsWritten ==
  ASSUME NEW e \in Seq(Scope), Len(e) >= 1, NEW s \in Scope
  PROVE  /\ RestoreGlobal(e, s) \in Seq(Scope)
         /\ Len(RestoreGlobal(e, s)) = Len(e)
         /\ RestoreGlobal(e, s)[1] = s
         /\ \A i \in 2..Len(e) : RestoreGlobal(e, s)[i] = e[i]
<1>1. 1 \in 1..Len(e) /\ \A i \in 2..Len(e) : i \in 1..Len(e) /\ i # 1
  BY LenProperties
<1> QED
  BY <1>1, ExceptSeq DEF RestoreGlobal

-----------------------------------------------------------------------------
\* The scope discipline

\* The part of the state the scope discipline is about.
StackInv ==
  /\ env \in Seq(Scope) /\ frames \in Seq(Frame)
  /\ phase \in Phase /\ abandoned \in BOOLEAN
  /\ ScopesSuffice /\ ScopesBalanced

Depth == IF phase = "body" THEN 1 ELSE 0

LEMMA StackFacts ==
  ASSUME StackInv
  PROVE  /\ Len(env) \in Nat /\ Len(frames) \in Nat /\ Depth \in 0..1
         /\ Len(env) >= 1 + Depth + Len(frames) /\ Len(env) >= 1
         /\ ~abandoned => Len(env) = 1 + Depth + Len(frames)
<1>1. Len(env) \in Nat /\ Len(frames) \in Nat /\ Depth \in 0..1
  BY LenProperties DEF StackInv, Depth
<1>2. Len(env) >= 1 + Depth + Len(frames)
  BY DEF StackInv, ScopesSuffice, Depth
<1>3. ~abandoned => Len(env) = 1 + Depth + Len(frames)
  BY DEF StackInv, ScopesBalanced, Depth
<1> QED
  BY <1>1, <1>2, <1>3

\* The arms among the open frames are at most all of them.
LEMMA MatchesAreFrames ==
  ASSUME frames \in Seq(Frame)
  PROVE  OpenMatches \in Nat /\ OpenMatches <= Len(frames)
<1> DEFINE M == {i \in DOMAIN frames : frames[i].kind = "match"}
<1>1. DOMAIN frames = 1..Len(frames) /\ Len(frames) \in Nat
  BY LenProperties
<1>2. IsFiniteSet(1..Len(frames)) /\ Cardinality(1..Len(frames)) = Len(frames)
  BY <1>1, FS_Interval
<1>3. M \in SUBSET (1..Len(frames))
  BY <1>1
<1>4. IsFiniteSet(M) /\ Cardinality(M) <= Len(frames)
  <2> HIDE DEF M
  <2> QED BY <1>2, <1>3, FS_Subset
<1>5. Cardinality(M) \in Nat
  BY <1>4, FS_CardinalityType
<1> QED
  BY <1>4, <1>5 DEF OpenMatches

\* Leaving a body early pops what it opened or less, and never the global
\* scope.
LEMMA UnwoundStack ==
  ASSUME StackInv
  PROVE  /\ Unwound \in Seq(Scope)
         /\ Len(Unwound) = Len(env) - OpenMatches - Depth
         /\ Len(Unwound) >= 1
         /\ \A i \in 1..Len(Unwound) : i \in 1..Len(env) /\ Unwound[i] = env[i]
<1> DEFINE k == Len(env) - OpenMatches - Depth
<1>1. OpenMatches \in Nat /\ OpenMatches <= Len(frames)
  BY MatchesAreFrames DEF StackInv
<1>2. k \in 1..Len(env)
  BY <1>1, StackFacts
<1>3. Unwound = SubSeq(env, 1, k)
  BY DEF Unwound, Depth
<1>4. env \in Seq(Scope) /\ Len(env) \in Nat
  BY StackFacts DEF StackInv
<1> HIDE DEF k
<1>5. Len(Unwound) = k /\ Unwound \in Seq(Scope)
      /\ \A i \in 1..k : Unwound[i] = env[i]
  BY <1>2, <1>3, <1>4, CutStack
<1> QED
  BY <1>2, <1>4, <1>5 DEF k

\* What Frame the loop and the match push.
LEMMA FrameType ==
  /\ \A n \in Local, len \in 1..MaxItems :
       [kind |-> "for", item |-> n, left |-> len - 1] \in Frame
  /\ \A n \in Local : [kind |-> "match", item |-> n, left |-> 0] \in Frame
BY BoundsAssumption DEF Frame

LEMMA NamesAndValues ==
  /\ Local \subseteq Name /\ Field \subseteq Name /\ Cred \subseteq Name
  /\ DerivedName \subseteq Name
  /\ LocalVal \subseteq Val /\ Val \subseteq Slot /\ Unbound \in Slot
  /\ Unbound \notin Val /\ Nil \in Val /\ InitialVal \subseteq Val
  /\ \A i \in DOMAIN Derived : Derived[i] \in Name
BY ValueAssumption DEF Name, DerivedName, Slot

\* Opening, closing and unwinding a scope, in terms of lengths.
LEMMA PushFrame ==
  ASSUME StackInv, NEW fr \in Frame, NEW s \in Scope,
         env' = PushScope(env, s), frames' = Append(frames, fr),
         UNCHANGED <<phase, abandoned>>
  PROVE  StackInv'
<1>1. env' \in Seq(Scope) /\ Len(env') = Len(env) + 1
  BY PushIsLonger DEF StackInv
<1>2. frames' \in Seq(Frame) /\ Len(frames') = Len(frames) + 1
  BY AppendProperties DEF StackInv
<1> QED
  BY <1>1, <1>2, StackFacts DEF StackInv, ScopesSuffice, ScopesBalanced, Depth

LEMMA FramesPopped ==
  ASSUME frames \in Seq(Frame), frames # <<>>
  PROVE  /\ OuterFrames \in Seq(Frame) /\ Len(OuterFrames) = Len(frames) - 1
         /\ Len(frames) \in Nat \ {0}
<1> DEFINE n == Len(frames) - 1
<1>0. Len(frames) \in Nat \ {0}
  BY EmptySeq
<1>1. \A i \in 1..n : frames[i] \in Frame
  BY <1>0, ElementOfSeq
<1>2. 1 \in Int /\ n \in Nat /\ n - 1 + 1 = n
  BY <1>0
<1>3. OuterFrames = SubSeq(frames, 1, n)
  BY DEF OuterFrames
<1> HIDE DEF n
<1>4. OuterFrames \in Seq(Frame)
      /\ Len(OuterFrames) = IF 1 <= n THEN n - 1 + 1 ELSE 0
  BY <1>1, <1>2, <1>3, SubSeqProperties
<1>5. Len(OuterFrames) = n
  BY <1>2, <1>4
<1> QED
  BY <1>0, <1>4, <1>5 DEF n

LEMMA PopFrame ==
  ASSUME StackInv, frames # <<>>, env' = PopScope(env), frames' = OuterFrames,
         UNCHANGED <<phase, abandoned>>
  PROVE  StackInv'
<1>1. /\ Len(frames) \in Nat \ {0}
      /\ frames' \in Seq(Frame) /\ Len(frames') = Len(frames) - 1
  BY FramesPopped DEF StackInv
<1>2. Len(env) >= 2
  BY <1>1, StackFacts
<1>3. env' \in Seq(Scope) /\ Len(env') = Len(env) - 1
  BY <1>2, PopIsShorter DEF StackInv
<1> QED
  BY <1>1, <1>3, StackFacts
     DEF StackInv, ScopesSuffice, ScopesBalanced, Depth

\* A step that keeps the depth of the stack.
LEMMA SameDepth ==
  ASSUME StackInv, env' \in Seq(Scope), Len(env') = Len(env),
         frames' \in Seq(Frame), Len(frames') = Len(frames),
         phase' \in Phase, phase' = "body" <=> phase = "body",
         abandoned' = abandoned
  PROVE  StackInv'
BY DEF StackInv, ScopesSuffice, ScopesBalanced

\* The end of a body that failed or returned.
LEMMA UnwindStack ==
  ASSUME StackInv, Unwind, phase' \in Phase, phase' # "body"
  PROVE  StackInv'
<1>1. OpenMatches \in Nat /\ Len(frames) \in Nat
  BY MatchesAreFrames, StackFacts DEF StackInv
<1>2. env' \in Seq(Scope) /\ Len(env') = Len(env) - OpenMatches - Depth
      /\ Len(env') >= 1
  BY UnwoundStack DEF Unwind
<1>3. frames' = <<>> /\ frames' \in Seq(Frame) /\ Len(frames') = 0
  BY EmptySeq DEF Unwind
<1>4. abandoned' = (abandoned \/ OpenMatches # Len(frames)) /\ abandoned' \in BOOLEAN
  BY DEF Unwind, StackInv
<1>5. ASSUME ~abandoned' PROVE Len(env') = 1
  <2>1. ~abandoned /\ OpenMatches = Len(frames)
    BY <1>4, <1>5
  <2>2. Len(env) = 1 + Depth + Len(frames) /\ Depth \in 0..1
    BY <2>1, StackFacts
  <2> QED
    BY <1>1, <1>2, <2>1, <2>2
<1> QED
  BY <1>2, <1>3, <1>4, <1>5 DEF StackInv, ScopesSuffice, ScopesBalanced

-----------------------------------------------------------------------------
\* Every step keeps the scope discipline.

LEMMA HostKeepsStack ==
  ASSUME StackInv, Host PROVE StackInv'
<1> USE NamesAndValues
<1>1. ASSUME NEW params \in Scope, Begin(params) PROVE StackInv'
  <2>1. env' \in Seq(Scope) /\ Len(env') = Len(env) + 1
    BY <1>1, PushIsLonger DEF Begin, StackInv
  <2>2. phase = "idle" /\ phase' = "body" /\ UNCHANGED <<frames, abandoned>>
    BY <1>1 DEF Begin
  <2> QED
    BY <2>1, <2>2, StackFacts
       DEF StackInv, ScopesSuffice, ScopesBalanced, Depth, Phase
<1>2. CASE Dispatch
  BY <1>1, <1>2 DEF Dispatch, Bindings
<1>3. CASE CallUpdate \/ CallHandleEvent
  BY <1>1, <1>3, EmptyScopeType DEF CallUpdate, CallHandleEvent
<1>4. ASSUME NEW c \in Cred, NEW v \in Val, SetCredential(c, v) PROVE StackInv'
  <2>1. env' \in Seq(Scope) /\ Len(env') = Len(env)
    BY <1>4, StackFacts, DefineIsWrite DEF SetCredential, StackInv
  <2>2. UNCHANGED <<frames, phase, abandoned>>
    BY <1>4 DEF SetCredential
  <2> QED
    BY <2>1, <2>2, SameDepth DEF StackInv
<1>5. CASE Refuse \/ BeginRender
  BY <1>5, SameDepth DEF Refuse, BeginRender, StackInv, Phase
<1> QED
  BY <1>2, <1>3, <1>4, <1>5 DEF Host

LEMMA StmtKeepsStack ==
  ASSUME StackInv, Stmt PROVE StackInv'
<1> USE NamesAndValues
<1>1. ASSUME NEW f \in Field, NEW v \in Val, SetStmt(f, v) PROVE StackInv'
  BY <1>1, AssignIsWrite, SameDepth DEF SetStmt, Continue, StackInv
<1>2. CASE PlainStmt
  BY <1>2, SameDepth DEF PlainStmt, Continue, StackInv
<1>3. ASSUME NEW n \in Local, NEW v \in LocalVal, LetStmt(n, v) PROVE StackInv'
  <2>1. env' \in Seq(Scope) /\ Len(env') = Len(env)
    BY <1>3, StackFacts, DefineIsWrite DEF LetStmt, StackInv
  <2> QED
    BY <1>3, <2>1, SameDepth DEF LetStmt, Continue, StackInv
<1>4. ASSUME NEW n \in Local, NEW v \in LocalVal, NEW len \in 1..MaxItems,
             EnterFor(n, v, len)
      PROVE  StackInv'
  BY <1>4, FrameType, EmptyScopeType, PushFrame DEF EnterFor, Continue
<1>5. ASSUME NEW n \in Local, NEW v \in LocalVal \cup {Unbound}, EnterMatch(n, v)
      PROVE  StackInv'
  BY <1>5, FrameType, EmptyScopeType, PushFrame DEF EnterMatch, Continue
<1>6. CASE ExitFor \/ ExitMatch
  BY <1>6, PopFrame DEF ExitFor, ExitMatch, Continue
<1>7. ASSUME NEW v \in LocalVal, NextItem(v) PROVE StackInv'
  <2> DEFINE k == Len(frames)
  <2> DEFINE fr == [frames[k] EXCEPT !.left = @ - 1]
  <2>1. frames \in Seq(Frame) /\ k \in 1..k
    BY <1>7, EmptySeq DEF StackInv, NextItem
  <2>2. frames[k] \in Frame /\ frames[k].left \in 1..MaxItems
    <3>1. frames[k] \in Frame
      BY <2>1, ElementOfSeq
    <3>2. frames[k].left \in 0..MaxItems /\ frames[k].left > 0
      BY <1>7, <3>1 DEF NextItem, InnermostFrame, Frame
    <3> QED
      BY <3>1, <3>2, BoundsAssumption
  <2>3. frames[k].item \in Name /\ frames[k].item = InnermostFrame.item
    BY <2>2 DEF Frame, InnermostFrame
  <2>4. frames[k].left - 1 \in 0..MaxItems
    BY <2>2, BoundsAssumption
  <2>5. fr \in Frame
    BY <2>2, <2>4 DEF Frame
  <2>6. frames' = [frames EXCEPT ![k] = fr]
    BY <1>7 DEF NextItem
  <2> HIDE DEF k, fr
  <2>7. frames' \in Seq(Frame) /\ Len(frames') = Len(frames)
    BY <2>1, <2>5, <2>6, ExceptSeq DEF k
  <2>8. env' \in Seq(Scope) /\ Len(env') = Len(env)
    BY <1>7, <2>3, StackFacts, DefineIsWrite DEF NextItem, StackInv
  <2> QED
    BY <1>7, <2>7, <2>8, SameDepth DEF NextItem, Continue, StackInv
<1>8. CASE EndBody
  <2>1. phase = "body" /\ frames = <<>> /\ Len(frames) = 0
    BY <1>8, EmptySeq DEF EndBody
  <2>2. Len(env) >= 2
    BY <2>1, StackFacts DEF Depth
  <2>3. env' \in Seq(Scope) /\ Len(env') = Len(env) - 1
    BY <1>8, <2>2, PopIsShorter DEF EndBody, StackInv
  <2> QED
    BY <1>8, <2>1, <2>3, StackFacts
       DEF EndBody, StackInv, ScopesSuffice, ScopesBalanced, Depth, Phase
<1>9. CASE ReturnStmt \/ Fail
  BY <1>9, UnwindStack DEF ReturnStmt, Fail, Phase
<1>10. CASE EndRender
  BY <1>10, SameDepth DEF EndRender, StackInv, Phase
<1> QED
  BY <1>1, <1>2, <1>3, <1>4, <1>5, <1>6, <1>7, <1>8, <1>9, <1>10 DEF Stmt

LEMMA FinishKeepsStack ==
  ASSUME StackInv, snapshot \in Scope, idx \in Nat \ {0}, Finish
  PROVE  StackInv'
<1> USE NamesAndValues
<1>1. CASE DeriveStep
  <2>1. idx \in DOMAIN Derived
    BY <1>1, LenProperties, DerivedAssumption DEF DeriveStep
  <2>2. View(env) \in Scope
    BY ViewType DEF StackInv
  <2>3. Value \in Val
    BY <1>1, <2>1, <2>2, ValueAssumption DEF DeriveStep, Value
  <2>4. env' \in Seq(Scope) /\ Len(env') = Len(env)
    BY <1>1, <2>1, <2>3, StackFacts, SetOrDefineView DEF DeriveStep, StackInv
  <2> QED
    BY <1>1, <2>4, SameDepth DEF DeriveStep, StackInv
<1>2. CASE CheckFail
  <2>1. env' \in Seq(Scope) /\ Len(env') = Len(env)
    BY <1>2, StackFacts, RestoreIsWritten DEF CheckFail, StackInv
  <2> QED
    BY <1>2, <2>1, SameDepth DEF CheckFail, StackInv, Phase
<1>3. CASE DeriveFail \/ StartChecks \/ CheckPass \/ Commit \/ RolledBack
  BY <1>3, SameDepth
     DEF DeriveFail, StartChecks, CheckPass, Commit, RolledBack, StackInv, Phase
<1> QED
  BY <1>1, <1>2, <1>3 DEF Finish

-----------------------------------------------------------------------------
\* Types

\* What is left of TypeOK beside the stack.
RestOK ==
  /\ credentials \in [Cred -> Val] /\ gas \in 0..(GasLimit + 1)
  /\ idx \in Nat \ {0} /\ snapshot \in Scope
  /\ outcome \in Outcome /\ before \in [Field -> Slot]

LEMMA FieldsType ==
  ASSUME NEW e \in Seq(Scope)
  PROVE  Fields(e) \in [Field -> Slot]
BY NamesAndValues, LookupType DEF Fields

LEMMA TickType ==
  ASSUME gas \in 0..(GasLimit + 1), Tick
  PROVE  gas' \in 0..(GasLimit + 1)
BY BoundsAssumption DEF Tick, Affordable

LEMMA HostKeepsTypes ==
  ASSUME StackInv, RestOK, Host PROVE RestOK'
<1>1. ASSUME NEW params \in Scope, Begin(params) PROVE RestOK'
  <2>1. env[1] \in Scope
    BY StackFacts, ElementOfSeq DEF StackInv
  <2>2. Fields(env) \in [Field -> Slot]
    BY FieldsType DEF StackInv
  <2> QED
    BY <1>1, <2>1, <2>2 DEF Begin, RestOK, Outcome
<1>2. CASE Dispatch \/ CallUpdate \/ CallHandleEvent
  BY <1>1, <1>2, EmptyScopeType, NamesAndValues
     DEF Dispatch, Bindings, CallUpdate, CallHandleEvent
<1>3. ASSUME NEW c \in Cred, NEW v \in Val, SetCredential(c, v) PROVE RestOK'
  BY <1>3 DEF SetCredential, RestOK, Outcome
<1>4. CASE Refuse
  BY <1>4 DEF Refuse, RestOK, Outcome
<1>5. CASE BeginRender
  BY <1>5, FieldsType DEF BeginRender, RestOK, Outcome, StackInv
<1> QED
  BY <1>2, <1>3, <1>4, <1>5 DEF Host

LEMMA StmtKeepsTypes ==
  ASSUME StackInv, RestOK, Stmt PROVE RestOK'
<1>1. ASSUME UNCHANGED <<credentials, idx, snapshot, outcome, before>>,
             UNCHANGED gas \/ Tick
      PROVE  RestOK'
  BY <1>1, TickType DEF RestOK
<1>2. ASSUME NEW f \in Field, NEW v \in Val, SetStmt(f, v) PROVE RestOK'
  BY <1>1, <1>2 DEF SetStmt, Statement, Continue
<1>3. ASSUME NEW n \in Local, NEW v \in LocalVal, LetStmt(n, v) PROVE RestOK'
  BY <1>1, <1>3 DEF LetStmt, Statement, Continue
<1>4. ASSUME NEW n \in Local, NEW v \in LocalVal, NEW len \in 1..MaxItems,
             EnterFor(n, v, len)
      PROVE  RestOK'
  BY <1>1, <1>4 DEF EnterFor, Statement, Continue
<1>5. ASSUME NEW n \in Local, NEW v \in LocalVal \cup {Unbound}, EnterMatch(n, v)
      PROVE  RestOK'
  BY <1>1, <1>5 DEF EnterMatch, Statement, Continue
<1>6. ASSUME NEW v \in LocalVal, NextItem(v) PROVE RestOK'
  BY <1>1, <1>6 DEF NextItem, Continue
<1>7. CASE PlainStmt \/ ExitFor \/ ExitMatch
  BY <1>1, <1>7 DEF PlainStmt, ExitFor, ExitMatch, Statement, Continue
<1>8. CASE EndBody
  BY <1>8 DEF EndBody, RestOK
<1>9. CASE ReturnStmt
  BY <1>9, TickType DEF ReturnStmt, RestOK
<1>10. CASE Fail
  BY <1>10, TickType, EmptyScopeType DEF Fail, RestOK, Outcome
<1>11. CASE EndRender
  BY <1>11 DEF EndRender, RestOK, Outcome
<1> QED
  BY <1>2, <1>3, <1>4, <1>5, <1>6, <1>7, <1>8, <1>9, <1>10, <1>11 DEF Stmt

LEMMA FinishKeepsTypes ==
  ASSUME StackInv, RestOK, Finish PROVE RestOK'
<1>1. CASE DeriveStep \/ CheckPass
  BY <1>1, TickType DEF DeriveStep, CheckPass, RestOK
<1>2. CASE CheckFail
  BY <1>2, TickType DEF CheckFail, RestOK
<1>3. CASE DeriveFail
  BY <1>3, TickType, EmptyScopeType DEF DeriveFail, RestOK, Outcome
<1>4. CASE StartChecks
  BY <1>4 DEF StartChecks, RestOK
<1>5. CASE Commit \/ RolledBack
  BY <1>5, EmptyScopeType DEF Commit, RolledBack, RestOK, Outcome
<1> QED
  BY <1>1, <1>2, <1>3, <1>4, <1>5 DEF Finish

EvalInv == StackInv /\ RestOK

LEMMA EvalInvTypes == EvalInv => TypeOK
BY StackFacts DEF EvalInv, StackInv, RestOK, TypeOK

LEMMA InitEvalInv == Init => EvalInv
<1> SUFFICES ASSUME Init PROVE EvalInv
  OBVIOUS
<1>1. PICK g \in Scope : env = <<g>> /\ before = [f \in Field |-> g[f]]
  BY DEF Init
<1>2. env \in Seq(Scope) /\ Len(env) = 1
  BY <1>1
<1>3. frames = <<>> /\ frames \in Seq(Frame) /\ Len(frames) = 0
  BY EmptySeq DEF Init
<1>4. StackInv
  <2>1. phase = "idle" /\ phase \in Phase /\ abandoned = FALSE
    BY DEF Init, Phase
  <2>2. ScopesSuffice /\ ScopesBalanced
    BY <1>2, <1>3, <2>1 DEF ScopesSuffice, ScopesBalanced
  <2> QED
    BY <1>2, <1>3, <2>1, <2>2 DEF StackInv
<1>5. before \in [Field -> Slot]
  BY <1>1, NamesAndValues DEF Scope
<1>6. RestOK
  BY <1>5, NamesAndValues, EmptyScopeType, BoundsAssumption DEF Init, RestOK, Outcome
<1> QED
  BY <1>4, <1>6 DEF EvalInv

LEMMA NextEvalInv == EvalInv /\ [Next]_vars => EvalInv'
<1> SUFFICES ASSUME EvalInv, [Next]_vars PROVE EvalInv'
  OBVIOUS
<1>1. CASE Host
  BY <1>1, HostKeepsStack, HostKeepsTypes DEF EvalInv
<1>2. CASE Stmt
  BY <1>2, StmtKeepsStack, StmtKeepsTypes DEF EvalInv
<1>3. CASE Finish
  BY <1>3, FinishKeepsStack, FinishKeepsTypes DEF EvalInv, RestOK
<1>4. CASE UNCHANGED vars
  <2>1. StackInv'
    BY <1>4, SameDepth DEF vars, EvalInv, StackInv
  <2>2. RestOK'
    BY <1>4 DEF vars, EvalInv, RestOK
  <2> QED
    BY <2>1, <2>2 DEF EvalInv
<1> QED
  BY <1>1, <1>2, <1>3, <1>4 DEF Next

LEMMA AlwaysEvalInv == Spec => []EvalInv
BY InitEvalInv, NextEvalInv, PTL DEF Spec

\* The evaluator keeps its types for every program and every budget.
THEOREM EvalTypes == Spec => []TypeOK
BY AlwaysEvalInv, EvalInvTypes, PTL

\* No call and no view ever pops a scope it did not push, however it ends.
THEOREM StackSuffices == Spec => []ScopesSuffice
<1>1. EvalInv => ScopesSuffice
  BY DEF EvalInv, StackInv
<1> QED
  BY <1>1, AlwaysEvalInv, PTL

\* Scopes only ever stay behind when a `for` is left by return or error.
THEOREM StackBalanced == Spec => []ScopesBalanced
<1>1. EvalInv => ScopesBalanced
  BY DEF EvalInv, StackInv
<1> QED
  BY <1>1, AlwaysEvalInv, PTL

-----------------------------------------------------------------------------
(* How a call ends.  A committed call leaves a sound state, in every       *)
(* program: whatever the body did to the environment and whatever scopes   *)
(* it left behind; a call that ran out of gas does not commit.  Rollback   *)
(* restores and rendering is pure in every program whose locals have other *)
(* names than its state fields.  (The checker does not demand it: a view's *)
(* let that has the name of a field overwrites the field.)                 *)

AllFresh == \A i \in DOMAIN Derived : Fresh(i)

\* How far the running call has got after its body.
CommitInv ==
  /\ phase # "idle" => outcome = "running"
  /\ phase \in {"derive", "rederive"} =>
       \A i \in DOMAIN Derived : i < idx => Fresh(i)
  /\ phase = "check" =>
       /\ AllFresh
       /\ \A i \in 1..NumInvariants : i < idx => Holds(i, View(env))
  /\ outcome = "committed" => InvariantsHold /\ AllFresh
  /\ outcome = "rolledback" => AllFresh

LEMMA DerivedIndex ==
  /\ DOMAIN Derived = 1..Len(Derived) /\ Len(Derived) \in Nat
  /\ NumInvariants \in Nat
BY DerivedAssumption, BoundsAssumption, LenProperties

\* Storing a derived field makes it fresh and leaves the earlier ones so:
\* their expressions do not read it.
LEMMA StoreDerived ==
  ASSUME EvalInv, DeriveStep, \A i \in DOMAIN Derived : i < idx => Fresh(i)
  PROVE  \A i \in DOMAIN Derived : i < idx' => Fresh(i)'
<1> DEFINE d == Derived[idx]
<1>1. idx \in DOMAIN Derived /\ idx \in Nat /\ idx' = idx + 1
  BY DerivedIndex DEF EvalInv, RestOK, DeriveStep
<1>2. env \in Seq(Scope) /\ Len(env) >= 1 /\ View(env) \in Scope
  BY StackFacts, ViewType DEF EvalInv, StackInv
<1>3. d \in Name /\ Value \in Val /\ Value = Derive(idx, View(env))
  BY <1>1, <1>2, NamesAndValues, ValueAssumption DEF DeriveStep, Value
<1>4. env' = SetOrDefine(env, d, Value)
  BY DEF DeriveStep
<1> HIDE DEF d
<1>5. /\ Lookup(env', d) = Value
      /\ \A n \in Name \ {d} : Lookup(env', n) = Lookup(env, n)
      /\ View(env') = [View(env) EXCEPT ![d] = Value]
  BY <1>2, <1>3, <1>4, SetOrDefineView, SetOrDefineExcept
<1> SUFFICES ASSUME NEW i \in DOMAIN Derived, i < idx'
             PROVE  Lookup(env', Derived[i]) = Derive(i, View(env'))
  BY DEF Fresh
<1>6. i \in Nat /\ i <= idx /\ (i < idx \/ i = idx)
  BY <1>1, DerivedIndex
<1>7. Derive(i, View(env')) = Derive(i, View(env))
  <2>1. Value \in Slot
    BY <1>3, NamesAndValues
  <2>2. \A view \in Scope, v \in Slot :
          Derive(i, [view EXCEPT ![Derived[idx]] = v]) = Derive(i, view)
    BY <1>1, <1>6, DeclarationOrder, Zenon
  <2>3. Derive(i, [View(env) EXCEPT ![Derived[idx]] = Value]) = Derive(i, View(env))
    BY <1>2, <2>1, <2>2, Zenon
  <2> QED
    BY <1>5, <2>3, Zenon DEF d
<1>8. CASE i = idx
  BY <1>3, <1>5, <1>7, <1>8 DEF d
<1>9. CASE i < idx
  <2>1. Derived[i] \in Name \ {d}
    BY <1>1, <1>6, <1>9, NamesAndValues, DerivedAssumption DEF d
  <2>2. Lookup(env, Derived[i]) = Derive(i, View(env))
    BY <1>9 DEF Fresh
  <2> QED
    BY <1>5, <1>7, <2>1, <2>2
<1> QED
  BY <1>6, <1>8, <1>9

LEMMA HostKeepsCommit ==
  ASSUME EvalInv, CommitInv, Host PROVE CommitInv'
<1>1. ASSUME NEW params, Begin(params) PROVE CommitInv'
  BY <1>1 DEF Begin, CommitInv
<1>2. CASE Dispatch \/ CallUpdate \/ CallHandleEvent
  BY <1>1, <1>2 DEF Dispatch, CallUpdate, CallHandleEvent
<1>3. ASSUME NEW c \in Cred, NEW v \in Val, SetCredential(c, v) PROVE CommitInv'
  BY <1>3 DEF SetCredential, CommitInv
<1>4. CASE Refuse \/ BeginRender
  BY <1>4 DEF Refuse, BeginRender, CommitInv
<1> QED
  BY <1>2, <1>3, <1>4 DEF Host

LEMMA StmtKeepsCommit ==
  ASSUME EvalInv, CommitInv, Stmt PROVE CommitInv'
<1>1. ASSUME phase \in {"body", "render"}, phase' \in {"body", "render"},
             outcome' = outcome
      PROVE  CommitInv'
  BY <1>1 DEF CommitInv
<1>2. ASSUME NEW f \in Field, NEW v \in Val, SetStmt(f, v) PROVE CommitInv'
  BY <1>1, <1>2 DEF SetStmt, Continue
<1>3. ASSUME NEW n \in Local, NEW v \in LocalVal, LetStmt(n, v) PROVE CommitInv'
  BY <1>1, <1>3 DEF LetStmt, Statement, Running, Continue
<1>4. ASSUME NEW n \in Local, NEW v \in LocalVal, NEW len \in 1..MaxItems,
             EnterFor(n, v, len)
      PROVE  CommitInv'
  BY <1>1, <1>4 DEF EnterFor, Statement, Running, Continue
<1>5. ASSUME NEW n \in Local, NEW v \in LocalVal \cup {Unbound}, EnterMatch(n, v)
      PROVE  CommitInv'
  BY <1>1, <1>5 DEF EnterMatch, Statement, Running, Continue
<1>6. ASSUME NEW v \in LocalVal, NextItem(v) PROVE CommitInv'
  BY <1>1, <1>6 DEF NextItem, Running, Continue
<1>7. CASE PlainStmt \/ ExitFor \/ ExitMatch
  BY <1>1, <1>7 DEF PlainStmt, ExitFor, ExitMatch, Statement, Running, Continue
<1>8. CASE EndBody \/ ReturnStmt
  <2>1. phase' = "derive" /\ idx' = 1 /\ outcome' = "running"
    BY <1>8 DEF EndBody, ReturnStmt, CommitInv
  <2>2. \A i \in DOMAIN Derived : ~(i < 1)
    BY DerivedIndex
  <2> QED
    BY <2>1, <2>2 DEF CommitInv
<1>9. CASE Fail \/ EndRender
  BY <1>9 DEF Fail, EndRender, CommitInv
<1> QED
  BY <1>2, <1>3, <1>4, <1>5, <1>6, <1>7, <1>8, <1>9 DEF Stmt

LEMMA FinishKeepsCommit ==
  ASSUME EvalInv, CommitInv, Finish PROVE CommitInv'
<1>0. idx \in Nat
  BY DEF EvalInv, RestOK
<1>1. CASE DeriveStep
  <2>1. phase \in {"derive", "rederive"} /\ phase' = phase /\ outcome' = "running"
    BY <1>1 DEF DeriveStep, CommitInv
  <2>2. \A i \in DOMAIN Derived : i < idx' => Fresh(i)'
    BY <1>1, <2>1, StoreDerived DEF CommitInv
  <2> QED
    BY <2>1, <2>2 DEF CommitInv
<1>2. CASE DeriveFail
  BY <1>2 DEF DeriveFail, CommitInv
<1>3. CASE StartChecks
  <2>1. \A i \in DOMAIN Derived : i < idx
    BY <1>0, <1>3, DerivedIndex DEF StartChecks
  <2>2. AllFresh
    BY <1>3, <2>1 DEF StartChecks, CommitInv, AllFresh
  <2>3. AllFresh'
    BY <1>3, <2>2 DEF StartChecks, AllFresh, Fresh
  <2>4. \A i \in 1..NumInvariants : ~(i < 1)
    BY DerivedIndex
  <2> QED
    BY <1>3, <2>3, <2>4 DEF StartChecks, CommitInv
<1>4. CASE CheckPass
  <2>1. AllFresh'
    BY <1>4 DEF CheckPass, CommitInv, AllFresh, Fresh
  <2>2. \A i \in 1..NumInvariants : i < idx' => Holds(i, View(env))'
    <3> TAKE i \in 1..NumInvariants
    <3>1. i < idx' => (i < idx \/ i = idx)
      BY <1>0, <1>4, DerivedIndex DEF CheckPass
    <3> QED
      BY <1>4, <3>1 DEF CheckPass, CommitInv
  <2> QED
    BY <1>4, <2>1, <2>2 DEF CheckPass, CommitInv
<1>5. CASE CheckFail
  <2>1. \A i \in DOMAIN Derived : ~(i < 1)
    BY DerivedIndex
  <2> QED
    BY <1>5, <2>1 DEF CheckFail, CommitInv
<1>6. CASE Commit
  <2>1. \A i \in 1..NumInvariants : i < idx
    BY <1>0, <1>6, DerivedIndex DEF Commit
  <2>2. InvariantsHold /\ AllFresh
    BY <1>6, <2>1 DEF Commit, CommitInv, InvariantsHold
  <2>3. InvariantsHold' /\ AllFresh'
    BY <1>6, <2>2 DEF Commit, InvariantsHold, AllFresh, Fresh
  <2> QED
    BY <1>6, <2>3 DEF Commit, CommitInv
<1>7. CASE RolledBack
  <2>1. \A i \in DOMAIN Derived : i < idx
    BY <1>0, <1>7, DerivedIndex DEF RolledBack
  <2>2. AllFresh
    BY <1>7, <2>1 DEF RolledBack, CommitInv, AllFresh
  <2>3. AllFresh'
    BY <1>7, <2>2 DEF RolledBack, AllFresh, Fresh
  <2> QED
    BY <1>7, <2>3 DEF RolledBack, CommitInv
<1> QED
  BY <1>1, <1>2, <1>3, <1>4, <1>5, <1>6, <1>7 DEF Finish

LEMMA InitCommitInv == Init => CommitInv
BY DEF Init, CommitInv

LEMMA NextCommitInv == EvalInv /\ CommitInv /\ [Next]_vars => CommitInv'
<1> SUFFICES ASSUME EvalInv, CommitInv, [Next]_vars PROVE CommitInv'
  OBVIOUS
<1>1. CASE UNCHANGED vars
  BY <1>1 DEF vars, CommitInv, AllFresh, InvariantsHold, Fresh
<1> QED
  BY <1>1, HostKeepsCommit, StmtKeepsCommit, FinishKeepsCommit DEF Next

LEMMA AlwaysCommitInv == Spec => []CommitInv
BY InitCommitInv, NextCommitInv, AlwaysEvalInv, PTL DEF Spec

\* Every call reported as committed satisfies all invariants on exactly the
\* state the host then reads, with fresh derived fields.
THEOREM CommitIsSound == Spec => []CommitSound
<1>1. CommitInv => CommitSound
  BY DEF CommitInv, CommitSound, AllFresh
<1> QED
  BY <1>1, AlwaysCommitInv, PTL

-----------------------------------------------------------------------------
\* Gas

\* The spaces in which something is evaluated after the body.
Evaluates == Len(Derived) + NumInvariants > 0

\* Whatever was evaluated after the body was paid for.
GasInv ==
  /\ (phase = "derive" /\ idx > 1) => gas <= GasLimit
  /\ (phase = "check" /\ (idx > 1 \/ Len(Derived) > 0)) => gas <= GasLimit
  /\ outcome = "committed" => gas <= GasLimit

\* A tick that could be afforded stays within the budget.
LEMMA PaidFor ==
  ASSUME gas \in 0..(GasLimit + 1), Affordable, Tick
  PROVE  gas' <= GasLimit
BY BoundsAssumption DEF Affordable, Tick

LEMMA NextGasInv ==
  ASSUME Evaluates
  PROVE  EvalInv /\ CommitInv /\ GasInv /\ [Next]_vars => GasInv'
<1> SUFFICES ASSUME EvalInv, CommitInv, GasInv, [Next]_vars PROVE GasInv'
  OBVIOUS
<1>0. /\ gas \in 0..(GasLimit + 1) /\ idx \in Nat \ {0}
      /\ Len(Derived) \in Nat /\ NumInvariants \in Nat
  BY DerivedIndex DEF EvalInv, RestOK
<1>1. CASE UNCHANGED vars
  BY <1>1 DEF vars, GasInv
<1>2. CASE Host
  <2>1. phase' \in {"idle", "body", "render"} /\ outcome' # "committed"
    BY <1>2 DEF Host, Dispatch, CallUpdate, CallHandleEvent, Begin, Refuse,
       SetCredential, BeginRender
  <2> QED
    BY <2>1 DEF GasInv
<1>3. CASE Stmt
  <2>1. phase \in {"body", "render"} /\ outcome = "running"
    BY <1>3 DEF Stmt, SetStmt, PlainStmt, LetStmt, EnterFor, NextItem, ExitFor,
       EnterMatch, ExitMatch, EndBody, ReturnStmt, Fail, EndRender, Statement,
       Running, CommitInv
  <2>2. /\ outcome' \in {outcome, "fault", "rendered"}
        /\ phase' \in {phase, "idle", "derive"}
        /\ phase' = "derive" => idx' = 1
    BY <1>3, <2>1 DEF Stmt, SetStmt, PlainStmt, LetStmt, EnterFor, NextItem,
       ExitFor, EnterMatch, ExitMatch, EndBody, ReturnStmt, Fail, EndRender,
       Continue
  <2> QED
    BY <2>1, <2>2 DEF GasInv
<1>4. CASE DeriveStep \/ CheckPass
  <2>1. gas' <= GasLimit
    BY <1>0, <1>4, PaidFor DEF DeriveStep, CheckPass
  <2> QED
    BY <2>1 DEF GasInv
<1>5. CASE DeriveFail \/ CheckFail \/ RolledBack
  BY <1>5 DEF DeriveFail, CheckFail, RolledBack, GasInv, CommitInv
<1>6. CASE StartChecks
  <2>1. Len(Derived) > 0 => gas <= GasLimit
    BY <1>0, <1>6 DEF StartChecks, GasInv
  <2>2. phase' = "check" /\ idx' = 1 /\ gas' = gas /\ outcome' = "running"
    BY <1>6 DEF StartChecks, CommitInv
  <2> QED
    BY <2>1, <2>2 DEF GasInv
<1>7. CASE Commit
  <2>1. idx > 1 \/ Len(Derived) > 0
    BY <1>0, <1>7 DEF Commit, Evaluates
  <2> QED
    BY <1>7, <2>1 DEF Commit, GasInv
<1> QED
  BY <1>1, <1>2, <1>3, <1>4, <1>5, <1>6, <1>7 DEF Next, Finish

\* gas_used is never reset: in a space with a derived field or an invariant no
\* call commits once the budget is spent, whatever its body costs.
THEOREM SpentIsFinal == Evaluates => (Spec => []SpentNeverCommits)
<1> SUFFICES ASSUME Evaluates PROVE Spec => []SpentNeverCommits
  OBVIOUS
<1>1. Init => GasInv
  BY DEF Init, GasInv
<1>2. EvalInv /\ CommitInv /\ GasInv /\ [Next]_vars => GasInv'
  BY NextGasInv
<1>3. GasInv => SpentNeverCommits
  BY DEF GasInv, SpentNeverCommits
<1> QED
  BY <1>1, <1>2, <1>3, AlwaysEvalInv, AlwaysCommitInv, PTL DEF Spec

-----------------------------------------------------------------------------
\* Rollback and rendering

\* No local has the name of a state field.
NoShadow == Local \cap Field = {}

\* State fields are bound in the global scope only.
GlobalOnly(e) == \A i \in 2..Len(e), f \in Field : e[i][f] = Unbound

RollbackInv ==
  /\ GlobalOnly(env)
  /\ phase \in {"body", "derive", "check"} =>
       \A f \in Field : snapshot[f] = before[f]
  /\ phase = "rederive" => Fields(env) = before
  /\ outcome = "rolledback" => Fields(env) = before

\* Then the fields the host reads are those of the global scope.
LEMMA FieldsAreGlobal ==
  ASSUME NEW e \in Seq(Scope), Len(e) >= 1, GlobalOnly(e), NEW f \in Field
  PROVE  Fields(e)[f] = e[1][f] /\ Lookup(e, f) = e[1][f]
<1>1. Fields(e)[f] = Lookup(e, f)
  BY DEF Fields
<1>2. f \in Name /\ Len(e) \in Nat /\ DOMAIN e = 1..Len(e)
  BY NamesAndValues, LenProperties
<1>3. \A i \in 1..Len(e) : e[i][f] # Unbound => i = 1
  <2>1. \A i \in 1..Len(e) : i = 1 \/ i \in 2..Len(e)
    BY <1>2
  <2> QED
    BY <2>1 DEF GlobalOnly
<1>4. CASE IsBound(e, f)
  <2>1. Binder(e, f) = 1
    BY <1>2, <1>3, <1>4, BinderIsLast DEF Binders
  <2> QED
    BY <1>1, <1>4, <2>1 DEF Lookup
<1>5. CASE ~IsBound(e, f)
  <2>1. e[1][f] = Unbound
    BY <1>2, <1>5 DEF IsBound, Binders
  <2> QED
    BY <1>1, <1>5, <2>1 DEF Lookup
<1> QED
  BY <1>4, <1>5

\* A write to another name, or to the global scope, keeps it so ...
LEMMA WriteKeepsGlobal ==
  ASSUME NEW e \in Seq(Scope), GlobalOnly(e), NEW i \in 1..Len(e),
         NEW d \in Name, NEW v \in Slot, d \notin Field \/ i = 1
  PROVE  GlobalOnly(Write(e, i, d, v))
<1>1. \A j \in 2..Len(e) : j \in 1..Len(e) /\ j # 1
  BY LenProperties
<1>2. Len(Write(e, i, d, v)) = Len(e)
  BY WriteSlot
<1>3. ASSUME NEW j \in 2..Len(e), NEW f \in Field
      PROVE  Write(e, i, d, v)[j][f] = Unbound
  <2>1. f \in Name /\ j \in 1..Len(e) /\ ~(j = i /\ f = d)
    BY <1>1, NamesAndValues
  <2>2. Write(e, i, d, v)[j][f] = e[j][f]
    BY <2>1, WriteSlot
  <2> QED
    BY <2>2 DEF GlobalOnly
<1> QED
  BY <1>2, <1>3 DEF GlobalOnly

\* ... and a write to another name leaves the fields alone.
LEMMA WriteKeepsFields ==
  ASSUME NEW e \in Seq(Scope), NEW i \in 1..Len(e),
         NEW d \in Name \ Field, NEW v \in Slot
  PROVE  Fields(Write(e, i, d, v)) = Fields(e)
<1>1. \A f \in Field : Lookup(Write(e, i, d, v), f) = Lookup(e, f)
  BY WriteOther, NamesAndValues
<1> QED
  BY <1>1 DEF Fields

LEMMA DefineKeeps ==
  ASSUME NEW e \in Seq(Scope), Len(e) >= 1, GlobalOnly(e),
         NEW d \in Name \ Field, NEW v \in Slot
  PROVE  GlobalOnly(Define(e, d, v)) /\ Fields(Define(e, d, v)) = Fields(e)
BY DefineIsWrite, WriteKeepsGlobal, WriteKeepsFields

LEMMA SetOrDefineKeeps ==
  ASSUME NEW e \in Seq(Scope), Len(e) >= 1, GlobalOnly(e),
         NEW d \in Name \ Field, NEW v \in Val
  PROVE  GlobalOnly(SetOrDefine(e, d, v)) /\ Fields(SetOrDefine(e, d, v)) = Fields(e)
<1>0. v \in Slot
  BY DEF Slot
<1>1. CASE IsBound(e, d)
  <2>1. /\ SetOrDefine(e, d, v) = Write(e, Binder(e, d), d, v)
        /\ Binder(e, d) \in 1..Len(e)
    BY <1>0, <1>1, AssignIsWrite, BinderIsLast DEF SetOrDefine
  <2> QED
    BY <1>0, <2>1, WriteKeepsGlobal, WriteKeepsFields
<1>2. CASE ~IsBound(e, d)
  BY <1>0, <1>2, DefineKeeps DEF SetOrDefine
<1> QED
  BY <1>1, <1>2

\* `set` finds the field in the global scope.
LEMMA AssignKeepsGlobal ==
  ASSUME NEW e \in Seq(Scope), GlobalOnly(e), NEW f \in Field, NEW v \in Val
  PROVE  GlobalOnly(Assign(e, f, v))
<1>0. f \in Name /\ v \in Slot
  BY NamesAndValues
<1>1. CASE IsBound(e, f)
  <2>1. /\ Assign(e, f, v) = Write(e, Binder(e, f), f, v)
        /\ Binder(e, f) \in 1..Len(e) /\ Binder(e, f) \in Binders(e, f)
    BY <1>0, <1>1, AssignIsWrite, BinderIsLast
  <2>2. Binder(e, f) = 1
    <3>1. Binder(e, f) = 1 \/ Binder(e, f) \in 2..Len(e)
      BY <2>1, LenProperties
    <3> QED
      BY <2>1, <3>1 DEF GlobalOnly, Binders
  <2> QED
    BY <1>0, <2>1, <2>2, WriteKeepsGlobal
<1>2. CASE ~IsBound(e, f)
  BY <1>2 DEF Assign
<1> QED
  BY <1>1, <1>2

\* A scope without fields on top, or the top scopes gone.
LEMMA PushKeeps ==
  ASSUME NEW e \in Seq(Scope), Len(e) >= 1, GlobalOnly(e), NEW s \in Scope,
         \A f \in Field : s[f] = Unbound
  PROVE  GlobalOnly(PushScope(e, s)) /\ Fields(PushScope(e, s)) = Fields(e)
<1> DEFINE w == PushScope(e, s)
<1>1. /\ w \in Seq(Scope) /\ Len(w) = Len(e) + 1 /\ Len(e) \in Nat
      /\ \A i \in 1..Len(e) : w[i] = e[i]
      /\ w[Len(e) + 1] = s
  BY PushIsLonger, LenProperties
<1> HIDE DEF w
<1>2. GlobalOnly(w)
  <2>1. \A i \in 2..Len(w) : \/ i \in 2..Len(e) /\ i \in 1..Len(e)
                             \/ i = Len(e) + 1
    BY <1>1
  <2> QED
    BY <1>1, <2>1 DEF GlobalOnly
<1>3. w[1] = e[1] /\ Len(w) >= 1
  BY <1>1
<1>4. \A f \in Field : Lookup(w, f) = Lookup(e, f)
  BY <1>1, <1>2, <1>3, FieldsAreGlobal
<1>5. Fields(w) = Fields(e)
  BY <1>4 DEF Fields
<1> QED
  BY <1>2, <1>5 DEF w

LEMMA PrefixKeeps ==
  ASSUME NEW e \in Seq(Scope), Len(e) >= 1, GlobalOnly(e),
         NEW w \in Seq(Scope), Len(w) >= 1,
         \A i \in 1..Len(w) : i \in 1..Len(e) /\ w[i] = e[i]
  PROVE  GlobalOnly(w) /\ Fields(w) = Fields(e)
<1>1. Len(w) \in Nat /\ Len(e) \in Nat /\ w[1] = e[1]
  BY LenProperties
<1>2. GlobalOnly(w)
  <2>1. \A i \in 2..Len(w) : i \in 1..Len(w) /\ i \in 2..Len(e)
    BY <1>1
  <2> QED
    BY <2>1 DEF GlobalOnly
<1>3. \A f \in Field : Lookup(w, f) = Lookup(e, f)
  BY <1>1, <1>2, FieldsAreGlobal
<1> QED
  BY <1>2, <1>3 DEF Fields

-----------------------------------------------------------------------------
\* The steps.

LEMMA StackHere ==
  ASSUME EvalInv
  PROVE  env \in Seq(Scope) /\ Len(env) >= 1
BY StackFacts DEF EvalInv, StackInv

\* Under NoShadow no local, credential or derived name is a field.
LEMMA OtherNames ==
  ASSUME NoShadow
  PROVE  /\ Local \subseteq Name \ Field /\ Cred \subseteq Name \ Field
         /\ \A i \in DOMAIN Derived : Derived[i] \in Name \ Field
BY NamesAndValues, DerivedAssumption DEF NoShadow, DerivedName

LEMMA LocalScope ==
  ASSUME NoShadow, NEW n \in Local, NEW v \in Slot
  PROVE  /\ [EmptyScope EXCEPT ![n] = v] \in Scope
         /\ \A f \in Field : [EmptyScope EXCEPT ![n] = v][f] = Unbound
<1>1. n \in Name /\ n \notin Field /\ Field \subseteq Name
  BY OtherNames, NamesAndValues
<1> QED
  BY <1>1, EmptyScopeType DEF EmptyScope

LEMMA HostKeepsRollback ==
  ASSUME NoShadow, EvalInv, RollbackInv, Host PROVE RollbackInv'
<1>0. GlobalOnly(env)
  BY DEF RollbackInv
<1>1. ASSUME NEW params \in Scope, Begin(params),
             \A f \in Field : params[f] = Unbound
      PROVE  RollbackInv'
  <2>1. GlobalOnly(env')
    BY <1>0, <1>1, StackHere, PushKeeps DEF Begin
  <2>2. \A f \in Field : snapshot'[f] = before'[f]
    BY <1>0, <1>1, StackHere, FieldsAreGlobal DEF Begin
  <2> QED
    BY <1>1, <2>1, <2>2 DEF Begin, RollbackInv
<1>2. CASE Dispatch
  <2>1. PICK params \in Bindings : Begin(params)
    BY <1>2 DEF Dispatch
  <2>2. params \in Scope /\ \A f \in Field : params[f] = Unbound
    BY NamesAndValues DEF Bindings, NoShadow
  <2> QED
    BY <1>1, <2>1, <2>2
<1>3. CASE CallUpdate \/ CallHandleEvent
  <2>1. PICK p \in Local, v \in LocalVal : Begin([EmptyScope EXCEPT ![p] = v])
    BY <1>3 DEF CallUpdate, CallHandleEvent
  <2> QED
    BY <1>1, <2>1, LocalScope, NamesAndValues
<1>4. ASSUME NEW c \in Cred, NEW v \in Val, SetCredential(c, v) PROVE RollbackInv'
  <2>1. GlobalOnly(env')
    BY <1>0, <1>4, StackHere, OtherNames, NamesAndValues, DefineKeeps
       DEF SetCredential
  <2> QED
    BY <1>4, <2>1 DEF SetCredential, RollbackInv
<1>5. CASE Refuse \/ BeginRender
  BY <1>5 DEF Refuse, BeginRender, RollbackInv
<1> QED
  BY <1>2, <1>3, <1>4, <1>5 DEF Host

\* What a step inside a body or a view does to the fields: a `set` may write
\* one, in a body; nothing else does.
LEMMA StmtOnFields ==
  ASSUME NoShadow, EvalInv, GlobalOnly(env), Stmt
  PROVE  /\ GlobalOnly(env')
         /\ phase = "render" => Fields(env') = Fields(env)
<1> USE StackHere, OtherNames, NamesAndValues
<1>0. UNCHANGED env => GlobalOnly(env') /\ Fields(env') = Fields(env)
  OBVIOUS
<1>1. ASSUME NEW f \in Field, NEW v \in Val, SetStmt(f, v)
      PROVE  GlobalOnly(env') /\ phase # "render"
  BY <1>1, AssignKeepsGlobal DEF SetStmt
<1>2. ASSUME NEW n \in Local, NEW v \in LocalVal, LetStmt(n, v)
      PROVE  GlobalOnly(env') /\ Fields(env') = Fields(env)
  BY <1>2, DefineKeeps DEF LetStmt
<1>3. ASSUME NEW n \in Local, NEW v \in Slot,
             env' = PushScope(env, [EmptyScope EXCEPT ![n] = v])
      PROVE  GlobalOnly(env') /\ Fields(env') = Fields(env)
  BY <1>3, LocalScope, PushKeeps
<1>4. ASSUME NEW n \in Local, NEW v \in LocalVal, NEW len \in 1..MaxItems,
             EnterFor(n, v, len)
      PROVE  GlobalOnly(env') /\ Fields(env') = Fields(env)
  BY <1>3, <1>4 DEF EnterFor
<1>5. ASSUME NEW n \in Local, NEW v \in LocalVal \cup {Unbound}, EnterMatch(n, v)
      PROVE  GlobalOnly(env') /\ Fields(env') = Fields(env)
  BY <1>3, <1>5 DEF EnterMatch
<1>6. ASSUME NEW v \in LocalVal, NextItem(v)
      PROVE  GlobalOnly(env') /\ Fields(env') = Fields(env)
  <2>1. frames # <<>> /\ frames \in Seq(Frame) /\ Len(frames) \in 1..Len(frames)
    BY <1>6, EmptySeq DEF NextItem, EvalInv, StackInv
  <2>2. InnermostFrame \in Frame
    BY <2>1, ElementOfSeq DEF InnermostFrame
  <2>3. InnermostFrame.item \in Local
    BY <2>2 DEF Frame
  <2> QED
    BY <1>6, <2>3, DefineKeeps DEF NextItem
<1>7. CASE ExitFor \/ ExitMatch \/ EndBody
  <2>1. env' = PopScope(env)
    BY <1>7 DEF ExitFor, ExitMatch, EndBody
  <2>2. /\ Len(frames) \in Nat /\ Depth \in 0..1 /\ Len(env) \in Nat
        /\ Len(env) >= 1 + Depth + Len(frames)
    BY StackFacts DEF EvalInv
  <2>3. frames # <<>> \/ phase = "body"
    BY <1>7 DEF ExitFor, ExitMatch, EndBody
  <2>4. Len(frames) > 0 \/ Depth = 1
    BY <2>2, <2>3, EmptySeq DEF EvalInv, StackInv, Depth
  <2>5. Len(env) >= 2
    BY <2>2, <2>4
  <2>6. /\ env' \in Seq(Scope) /\ Len(env') = Len(env) - 1
        /\ \A i \in 1..(Len(env) - 1) : env'[i] = env[i]
    BY <2>1, <2>5, PopIsShorter
  <2>7. Len(env') >= 1 /\ \A i \in 1..Len(env') : i \in 1..Len(env) /\ env'[i] = env[i]
    BY <2>2, <2>5, <2>6
  <2> QED
    BY <2>6, <2>7, PrefixKeeps
<1>8. CASE ReturnStmt \/ Fail
  BY <1>8, UnwoundStack, PrefixKeeps DEF ReturnStmt, Fail, Unwind, EvalInv
<1>9. CASE PlainStmt \/ EndRender
  BY <1>0, <1>9 DEF PlainStmt, EndRender
<1> QED
  BY <1>1, <1>2, <1>4, <1>5, <1>6, <1>7, <1>8, <1>9 DEF Stmt

LEMMA StmtKeepsRollback ==
  ASSUME NoShadow, EvalInv, CommitInv, RollbackInv, Stmt PROVE RollbackInv'
<1>1. GlobalOnly(env')
  BY StmtOnFields DEF RollbackInv
<1>2. /\ phase \in {"body", "render"} /\ outcome = "running"
      /\ UNCHANGED before
      /\ phase' # "rederive" /\ outcome' # "rolledback"
      /\ phase' \in {"body", "derive", "check"} =>
           phase = "body" /\ UNCHANGED snapshot
  BY DEF Stmt, SetStmt, PlainStmt, LetStmt, EnterFor, NextItem, ExitFor,
         EnterMatch, ExitMatch, EndBody, ReturnStmt, Fail, EndRender,
         Statement, Running, Continue, Unwind, CommitInv
<1> QED
  BY <1>1, <1>2 DEF RollbackInv

LEMMA FinishKeepsRollback ==
  ASSUME NoShadow, EvalInv, CommitInv, RollbackInv, Finish PROVE RollbackInv'
<1> USE StackHere, OtherNames, NamesAndValues
<1>0. GlobalOnly(env)
  BY DEF RollbackInv
<1>1. CASE DeriveStep
  <2>1. idx \in DOMAIN Derived
    BY <1>1, DerivedIndex DEF DeriveStep, EvalInv, RestOK
  <2>2. Value \in Val
    BY <1>1, <2>1, ViewType, ValueAssumption DEF DeriveStep, Value
  <2>3. GlobalOnly(env') /\ Fields(env') = Fields(env)
    BY <1>0, <1>1, <2>1, <2>2, SetOrDefineKeeps DEF DeriveStep
  <2> QED
    BY <1>1, <2>3 DEF DeriveStep, RollbackInv, CommitInv
<1>2. CASE DeriveFail
  BY <1>2 DEF DeriveFail, RollbackInv
<1>3. CASE StartChecks \/ CheckPass
  BY <1>3 DEF StartChecks, CheckPass, RollbackInv, CommitInv
<1>4. CASE CheckFail
  <2>1. snapshot \in Scope /\ \A f \in Field : snapshot[f] = before[f]
    BY <1>4 DEF CheckFail, RollbackInv, EvalInv, RestOK
  <2>2. /\ env' \in Seq(Scope) /\ Len(env') = Len(env) /\ env'[1] = snapshot
        /\ \A i \in 2..Len(env) : env'[i] = env[i]
    <3>1. env' = RestoreGlobal(env, snapshot)
      BY <1>4 DEF CheckFail
    <3>2. env \in Seq(Scope) /\ Len(env) >= 1
      BY StackHere
    <3> HIDE StackHere, OtherNames, NamesAndValues
    <3> QED
      BY <2>1, <3>1, <3>2, RestoreIsWritten
  <2>3. GlobalOnly(env')
    BY <1>0, <2>2 DEF GlobalOnly
  <2>4. \A f \in Field : Lookup(env', f) = before[f]
    BY <2>1, <2>2, <2>3, FieldsAreGlobal
  <2>5. before \in [Field -> Slot] /\ before' = before
    BY <1>4 DEF CheckFail, EvalInv, RestOK
  <2>6. Fields(env') = before'
    BY <2>4, <2>5 DEF Fields
  <2> QED
    BY <1>4, <2>3, <2>6 DEF CheckFail, RollbackInv, CommitInv
<1>5. CASE Commit \/ RolledBack
  BY <1>5 DEF Commit, RolledBack, RollbackInv
<1> QED
  BY <1>1, <1>2, <1>3, <1>4, <1>5 DEF Finish

LEMMA InitRollbackInv == Init => RollbackInv
<1> SUFFICES ASSUME Init PROVE RollbackInv
  OBVIOUS
<1>1. PICK g \in Scope : env = <<g>>
  BY DEF Init
<1>2. Len(env) = 1 /\ 2..1 = {}
  BY <1>1
<1>3. GlobalOnly(env)
  BY <1>2 DEF GlobalOnly
<1>4. phase = "idle" /\ outcome = "none"
  BY DEF Init
<1> QED
  BY <1>3, <1>4 DEF RollbackInv

LEMMA NextRollbackInv ==
  ASSUME NoShadow
  PROVE  EvalInv /\ CommitInv /\ RollbackInv /\ [Next]_vars => RollbackInv'
<1> SUFFICES ASSUME EvalInv, CommitInv, RollbackInv, [Next]_vars
             PROVE  RollbackInv'
  OBVIOUS
<1>1. CASE UNCHANGED vars
  BY <1>1 DEF vars, RollbackInv
<1> QED
  BY <1>1, HostKeepsRollback, StmtKeepsRollback, FinishKeepsRollback DEF Next

LEMMA AlwaysRollbackInv == NoShadow => (Spec => []RollbackInv)
<1> SUFFICES ASSUME NoShadow PROVE Spec => []RollbackInv
  OBVIOUS
<1>1. EvalInv /\ CommitInv /\ RollbackInv /\ [Next]_vars => RollbackInv'
  BY NextRollbackInv
<1> QED
  BY <1>1, InitRollbackInv, AlwaysEvalInv, AlwaysCommitInv, PTL DEF Spec

\* Unless a local shadows a field, a call reported as rolled back leaves the
\* host with the fields it had, and with derived fields that fit them.
THEOREM RollbackIsExact == NoShadow => (Spec => []RollbackRestores)
<1> SUFFICES ASSUME NoShadow PROVE Spec => []RollbackRestores
  OBVIOUS
<1>1. CommitInv /\ RollbackInv => RollbackRestores
  BY DEF CommitInv, RollbackInv, RollbackRestores, AllFresh
<1>2. Spec => []RollbackInv
  BY AlwaysRollbackInv
<1> QED
  BY <1>1, <1>2, AlwaysCommitInv, PTL

\* Unless a local shadows a field, no step of a view changes a field.
THEOREM RenderIsPure == NoShadow => (Spec => RenderPure)
<1> SUFFICES ASSUME NoShadow PROVE Spec => RenderPure
  OBVIOUS
<1>1. ASSUME EvalInv, RollbackInv, [Next]_vars
      PROVE  [phase = "render" => Fields(env)' = Fields(env)]_vars
  <2>1. Fields(env)' = Fields(env')
    BY DEF Fields
  <2> SUFFICES ASSUME phase = "render", Next PROVE Fields(env') = Fields(env)
    BY <1>1, <2>1
  <2>2. Stmt
    BY DEF Next, Host, Dispatch, CallUpdate, CallHandleEvent, Begin, Refuse,
           SetCredential, BeginRender, Finish, DeriveStep, DeriveFail,
           StartChecks, CheckPass, CheckFail, Commit, RolledBack
  <2> QED
    BY <1>1, <2>2, StmtOnFields DEF RollbackInv
<1>2. Spec => []RollbackInv
  BY AlwaysRollbackInv
<1> QED
  BY <1>1, <1>2, AlwaysEvalInv, PTL DEF Spec, RenderPure

-----------------------------------------------------------------------------
(* The evaluator implements TransactionalSpace, faults excepted, in every  *)
(* space whose locals have other names than its fields and credentials;    *)
(* and what it rests on: a credential reads as the host set it last.       *)

\* No local has the name of a credential.
NoCredShadow == Local \cap Cred = {}

\* The scopes that no exit of the running call can pop any more.
Height == Len(env) - Depth - Len(frames)

\* Scope i holds what the host set c to, and no scope further in binds c.
SetAt(c, i) ==
  /\ env[i][c] = credentials[c]
  /\ \A j \in 1..Len(env) : j > i => env[j][c] = Unbound

\* Where a rollback could lose a credential: it puts the snapshot in the place
\* of the global scope.
CredInv ==
  /\ phase \notin {"body", "render"} => frames = <<>>
  /\ \A c \in Cred : \E i \in 1..Height : SetAt(c, i)
  /\ phase \in {"body", "derive", "check"} =>
       \A c \in Cred : snapshot[c] = env[1][c]

\* Stack w binds credentials where stack e does, as far as it reaches.
SameCreds(w, e) ==
  \A i \in 1..Len(w), c \in Cred :
    w[i][c] = IF i \in 1..Len(e) THEN e[i][c] ELSE Unbound

HeightOK ==
  Height \in Nat /\ 1 <= Height /\ Height <= Len(env) /\ Len(env) \in Nat

LEMMA HeightFacts == EvalInv => HeightOK
BY StackFacts DEF EvalInv, Height, HeightOK

\* ... also after a step.
LEMMA NextHeight == EvalInv' => HeightOK'
BY HeightFacts, PTL

LEMMA CredIsOther ==
  ASSUME NoCredShadow
  PROVE  /\ Field \subseteq Name \ Cred /\ Local \subseteq Name \ Cred
         /\ \A i \in DOMAIN Derived : Derived[i] \in Name \ Cred
BY NamesAndValues, DerivedAssumption DEF NoCredShadow, DerivedName

-----------------------------------------------------------------------------
\* The operations on the stack, as far as credentials go.

LEMMA WriteKeepsCreds ==
  ASSUME NEW e \in Seq(Scope), NEW i \in 1..Len(e), NEW d \in Name \ Cred,
         NEW v \in Slot
  PROVE  SameCreds(Write(e, i, d, v), e)
<1>1. Len(Write(e, i, d, v)) = Len(e)
  BY WriteSlot
<1>2. \A j \in 1..Len(e), c \in Cred : Write(e, i, d, v)[j][c] = e[j][c]
  BY WriteSlot, NamesAndValues
<1> QED
  BY <1>1, <1>2 DEF SameCreds

LEMMA DefineKeepsCreds ==
  ASSUME NEW e \in Seq(Scope), Len(e) >= 1, NEW d \in Name \ Cred, NEW v \in Slot
  PROVE  SameCreds(Define(e, d, v), e) /\ Len(Define(e, d, v)) = Len(e)
BY DefineIsWrite, WriteKeepsCreds

LEMMA AssignKeepsCreds ==
  ASSUME NEW e \in Seq(Scope), NEW d \in Name \ Cred, NEW v \in Slot
  PROVE  SameCreds(Assign(e, d, v), e) /\ Len(Assign(e, d, v)) = Len(e)
<1>1. CASE IsBound(e, d)
  BY <1>1, AssignIsWrite, BinderIsLast, WriteKeepsCreds
<1>2. CASE ~IsBound(e, d)
  BY <1>2 DEF Assign, SameCreds
<1> QED
  BY <1>1, <1>2

LEMMA SetOrDefineKeepsCreds ==
  ASSUME NEW e \in Seq(Scope), Len(e) >= 1, NEW d \in Name \ Cred, NEW v \in Slot
  PROVE  /\ SameCreds(SetOrDefine(e, d, v), e)
         /\ Len(SetOrDefine(e, d, v)) = Len(e)
BY AssignKeepsCreds, DefineKeepsCreds DEF SetOrDefine

LEMMA PushKeepsCreds ==
  ASSUME NEW e \in Seq(Scope), NEW s \in Scope, \A c \in Cred : s[c] = Unbound
  PROVE  SameCreds(PushScope(e, s), e) /\ Len(PushScope(e, s)) = Len(e) + 1
<1> DEFINE w == PushScope(e, s)
<1>1. /\ Len(w) = Len(e) + 1 /\ Len(e) \in Nat
      /\ \A i \in 1..Len(e) : w[i] = e[i]
      /\ w[Len(e) + 1] = s
  BY PushIsLonger, LenProperties
<1> HIDE DEF w
<1>2. \A i \in 1..Len(w) : i \in 1..Len(e) \/ i = Len(e) + 1
  BY <1>1
<1>3. Len(e) + 1 \notin 1..Len(e)
  BY <1>1
<1> QED
  BY <1>1, <1>2, <1>3 DEF SameCreds, w

LEMMA PrefixKeepsCreds ==
  ASSUME NEW e \in Seq(Scope), NEW w \in Seq(Scope),
         \A i \in 1..Len(w) : i \in 1..Len(e) /\ w[i] = e[i]
  PROVE  SameCreds(w, e)
BY DEF SameCreds

-----------------------------------------------------------------------------
\* The steps.

\* A step that binds no credential and pops none of the scopes that stay.
LEMMA CredsStay ==
  ASSUME EvalInv, EvalInv', NEW c \in Cred, NEW i \in 1..Height, SetAt(c, i),
         SameCreds(env', env), Height' >= Height, credentials' = credentials
  PROVE  i \in 1..Height' /\ SetAt(c, i)'
<1>1. i \in 1..Height' /\ i \in 1..Len(env) /\ i \in 1..Len(env')
  BY HeightFacts, NextHeight DEF HeightOK
<1>2. env'[i][c] = credentials'[c]
  BY <1>1 DEF SameCreds, SetAt
<1>3. ASSUME NEW j \in 1..Len(env'), j > i PROVE env'[j][c] = Unbound
  <2>1. env'[j][c] = IF j \in 1..Len(env) THEN env[j][c] ELSE Unbound
    BY DEF SameCreds
  <2> QED
    BY <1>3, <2>1 DEF SetAt
<1> QED
  BY <1>1, <1>2, <1>3 DEF SetAt

LEMMA LocalBindsNoCred ==
  ASSUME NoCredShadow, NEW n \in Local, NEW v \in Slot
  PROVE  /\ [EmptyScope EXCEPT ![n] = v] \in Scope
         /\ \A c \in Cred : [EmptyScope EXCEPT ![n] = v][c] = Unbound
<1>1. n \in Name /\ n \notin Cred /\ Cred \subseteq Name
  BY CredIsOther, NamesAndValues
<1> QED
  BY <1>1, EmptyScopeType DEF EmptyScope

LEMMA StmtKeepsCreds ==
  ASSUME NoCredShadow, EvalInv, EvalInv', Stmt
  PROVE  SameCreds(env', env) /\ Height' >= Height
<1> USE StackHere, CredIsOther, NamesAndValues
<1>0. Depth \in 0..1 /\ Len(env) \in Nat /\ Len(frames) \in Nat /\ Height \in Nat
  BY StackFacts, HeightFacts DEF EvalInv, HeightOK
<1>1. ASSUME SameCreds(env', env), Len(env') = Len(env), phase' = phase,
             Len(frames') = Len(frames)
      PROVE  SameCreds(env', env) /\ Height' >= Height
  BY <1>0, <1>1 DEF Height, Depth
<1>2. ASSUME NEW f \in Field, NEW v \in Val, SetStmt(f, v)
      PROVE  SameCreds(env', env) /\ Height' >= Height
  BY <1>1, <1>2, AssignKeepsCreds DEF SetStmt, Continue
<1>3. ASSUME NEW n \in Local, NEW v \in LocalVal, LetStmt(n, v)
      PROVE  SameCreds(env', env) /\ Height' >= Height
  BY <1>1, <1>3, DefineKeepsCreds DEF LetStmt, Continue
<1>4. ASSUME NEW n \in Local, NEW v \in Slot, NEW fr \in Frame,
             env' = PushScope(env, [EmptyScope EXCEPT ![n] = v]),
             frames' = Append(frames, fr), phase' = phase
      PROVE  SameCreds(env', env) /\ Height' >= Height
  <2>1. SameCreds(env', env) /\ Len(env') = Len(env) + 1
    BY <1>4, LocalBindsNoCred, PushKeepsCreds
  <2>2. Len(frames') = Len(frames) + 1
    BY <1>4, AppendProperties DEF EvalInv, StackInv
  <2> QED
    BY <1>0, <1>4, <2>1, <2>2 DEF Height, Depth
<1>5. ASSUME NEW n \in Local, NEW v \in LocalVal, NEW len \in 1..MaxItems,
             EnterFor(n, v, len)
      PROVE  SameCreds(env', env) /\ Height' >= Height
  BY <1>4, <1>5, FrameType DEF EnterFor, Continue
<1>6. ASSUME NEW n \in Local, NEW v \in LocalVal \cup {Unbound}, EnterMatch(n, v)
      PROVE  SameCreds(env', env) /\ Height' >= Height
  BY <1>4, <1>6, FrameType DEF EnterMatch, Continue
<1>7. ASSUME NEW v \in LocalVal, NextItem(v)
      PROVE  SameCreds(env', env) /\ Height' >= Height
  <2>1. frames # <<>> /\ frames \in Seq(Frame) /\ Len(frames) \in 1..Len(frames)
    BY <1>7, EmptySeq DEF NextItem, EvalInv, StackInv
  <2>2. InnermostFrame \in Frame
    BY <2>1, ElementOfSeq DEF InnermostFrame
  <2>3. InnermostFrame.item \in Local
    BY <2>2 DEF Frame
  <2>4. Len(frames') = Len(frames)
    BY <1>7, <2>1 DEF NextItem
  <2> QED
    BY <1>1, <1>7, <2>3, <2>4, DefineKeepsCreds DEF NextItem, Continue
<1>8. CASE ExitFor \/ ExitMatch \/ EndBody
  <2>1. env' = PopScope(env)
    BY <1>8 DEF ExitFor, ExitMatch, EndBody
  <2>2. frames # <<>> \/ phase = "body"
    BY <1>8 DEF ExitFor, ExitMatch, EndBody
  <2>3. Len(frames) > 0 \/ Depth = 1
    BY <1>0, <2>2, EmptySeq DEF EvalInv, StackInv, Depth
  <2>4. Len(env) >= 2
    BY <1>0, <2>3, HeightFacts DEF Height, HeightOK
  <2>5. /\ env' \in Seq(Scope) /\ Len(env') = Len(env) - 1
        /\ \A i \in 1..(Len(env) - 1) : env'[i] = env[i]
    BY <2>1, <2>4, PopIsShorter
  <2>6. SameCreds(env', env)
    BY <1>0, <2>4, <2>5, PrefixKeepsCreds
  <2>7. CASE EndBody
    BY <1>0, <2>5, <2>6, <2>7 DEF EndBody, Height, Depth
  <2>8. CASE ExitFor \/ ExitMatch
    <3>1. frames # <<>> /\ frames \in Seq(Frame)
      BY <2>8 DEF ExitFor, ExitMatch, EvalInv, StackInv
    <3>2. Len(frames') = Len(frames) - 1
      BY <2>8, <3>1, FramesPopped DEF ExitFor, ExitMatch
    <3> QED
      BY <1>0, <2>5, <2>6, <2>8, <3>2 DEF ExitFor, ExitMatch, Continue, Height, Depth
  <2> QED
    BY <1>8, <2>7, <2>8
<1>9. CASE ReturnStmt \/ Fail
  <2>1. env' = Unwound /\ frames' = <<>> /\ phase' # "body"
    BY <1>9 DEF ReturnStmt, Fail, Unwind
  <2>2. /\ Unwound \in Seq(Scope) /\ Len(Unwound) = Len(env) - OpenMatches - Depth
        /\ \A i \in 1..Len(Unwound) : i \in 1..Len(env) /\ Unwound[i] = env[i]
    BY UnwoundStack DEF EvalInv
  <2>3. OpenMatches \in Nat /\ OpenMatches <= Len(frames)
    BY MatchesAreFrames DEF EvalInv, StackInv
  <2>4. Len(frames') = 0
    BY <2>1, EmptySeq
  <2>5. Height' >= Height
    BY <1>0, <2>1, <2>2, <2>3, <2>4 DEF Height, Depth
  <2> QED
    BY <2>1, <2>2, <2>5, PrefixKeepsCreds
<1>10. CASE PlainStmt
  BY <1>1, <1>10 DEF PlainStmt, Continue, SameCreds
<1>11. CASE EndRender
  BY <1>0, <1>11 DEF EndRender, SameCreds, Height, Depth
<1> QED
  BY <1>2, <1>3, <1>5, <1>6, <1>7, <1>8, <1>9, <1>10, <1>11 DEF Stmt

LEMMA FinishKeepsCreds ==
  ASSUME NoCredShadow, EvalInv, CredInv, Finish
  PROVE  SameCreds(env', env) /\ Len(env') = Len(env)
<1> USE StackHere, CredIsOther, NamesAndValues
<1>1. CASE DeriveStep
  <2>1. idx \in DOMAIN Derived
    BY <1>1, DerivedIndex DEF DeriveStep, EvalInv, RestOK
  <2>2. Value \in Val
    BY <1>1, <2>1, ViewType, ValueAssumption DEF DeriveStep, Value
  <2> QED
    BY <1>1, <2>1, <2>2, SetOrDefineKeepsCreds DEF DeriveStep
<1>2. CASE CheckFail
  <2>1. snapshot \in Scope /\ \A c \in Cred : snapshot[c] = env[1][c]
    BY <1>2 DEF CheckFail, CredInv, EvalInv, RestOK
  <2>2. env' = RestoreGlobal(env, snapshot) /\ env \in Seq(Scope) /\ Len(env) >= 1
    BY <1>2 DEF CheckFail
  <2>3. /\ Len(env') = Len(env) /\ env'[1] = snapshot
        /\ \A i \in 2..Len(env) : env'[i] = env[i]
    <3> HIDE StackHere, CredIsOther, NamesAndValues
    <3> QED
      BY <2>1, <2>2, RestoreIsWritten
  <2>4. \A i \in 1..Len(env) : i = 1 \/ i \in 2..Len(env)
    BY LenProperties
  <2> QED
    BY <2>1, <2>3, <2>4 DEF SameCreds
<1>3. CASE DeriveFail \/ StartChecks \/ CheckPass \/ Commit \/ RolledBack
  BY <1>3 DEF DeriveFail, StartChecks, CheckPass, Commit, RolledBack, SameCreds
<1> QED
  BY <1>1, <1>2, <1>3 DEF Finish

\* A call begins with the credentials in its snapshot.
LEMMA BeginKeepsCreds ==
  ASSUME NoCredShadow, EvalInv, Dispatch \/ CallUpdate \/ CallHandleEvent
  PROVE  /\ SameCreds(env', env) /\ Height' >= Height
         /\ \A c \in Cred : snapshot'[c] = env'[1][c]
<1>1. PICK params \in Scope : /\ Begin(params)
                             /\ \A c \in Cred : params[c] = Unbound
  <2>1. CASE Dispatch
    BY <2>1, NamesAndValues DEF Dispatch, Bindings, NoCredShadow
  <2>2. CASE CallUpdate \/ CallHandleEvent
    <3>1. PICK p \in Local, v \in LocalVal : Begin([EmptyScope EXCEPT ![p] = v])
      BY <2>2 DEF CallUpdate, CallHandleEvent
    <3> QED
      BY <3>1, LocalBindsNoCred, NamesAndValues
  <2> QED
    BY <2>1, <2>2
<1>2. /\ env' = PushScope(env, params) /\ snapshot' = env[1]
      /\ phase = "idle" /\ phase' = "body" /\ frames' = frames
  BY <1>1 DEF Begin
<1>3. SameCreds(env', env) /\ Len(env') = Len(env) + 1
  BY <1>1, <1>2, StackHere, PushKeepsCreds
<1>4. Len(env) \in Nat /\ Len(frames) \in Nat /\ Len(env) >= 1
  BY StackFacts DEF EvalInv
<1>5. Height' >= Height
  BY <1>2, <1>3, <1>4 DEF Height, Depth
<1>6. \A c \in Cred : env'[1][c] = env[1][c]
  BY <1>3, <1>4 DEF SameCreds
<1> QED
  BY <1>2, <1>3, <1>5, <1>6

\* The host sets a credential: it is bound on top of the stack, which nothing
\* pops between calls.
LEMMA InjectionIsSeen ==
  ASSUME EvalInv, EvalInv', CredInv, NEW k \in Cred, NEW v \in Val,
         SetCredential(k, v)
  PROVE  CredInv'
<1> DEFINE top == Len(env)
<1>1. /\ env \in Seq(Scope) /\ top \in 1..top /\ k \in Name /\ v \in Slot
      /\ Len(env) \in Nat
  BY StackHere, LenProperties, NamesAndValues
<1>2. env' = Write(env, top, k, v) /\ Len(env') = top
  BY <1>1, StackHere, DefineIsWrite DEF SetCredential
<1>3. \A j \in 1..top, n \in Name :
        env'[j][n] = IF j = top /\ n = k THEN v ELSE env[j][n]
  <2> HIDE DEF top
  <2>1. top \in 1..Len(env)
    BY <1>1 DEF top
  <2>2. \A j \in 1..Len(env), n \in Name :
          Write(env, top, k, v)[j][n] = IF j = top /\ n = k THEN v ELSE env[j][n]
    BY <1>1, <2>1, WriteSlot
  <2> QED
    BY <1>2, <2>2 DEF top
<1>4. /\ phase = "idle" /\ UNCHANGED <<phase, frames>>
      /\ credentials' = [credentials EXCEPT ![k] = v]
      /\ credentials \in [Cred -> Val]
  BY DEF SetCredential, EvalInv, RestOK
<1>5. frames = <<>> /\ Len(frames) = 0
  BY <1>4, EmptySeq DEF CredInv
<1>6. Height = top /\ Height' = top
  BY <1>1, <1>2, <1>4, <1>5 DEF Height, Depth
<1> HIDE DEF top
<1>7. ASSUME NEW c \in Cred PROVE \E i \in 1..top : SetAt(c, i)'
  <2>0. c \in Name
    BY NamesAndValues
  <2>1. CASE c = k
    <3>1. env'[top][c] = credentials'[c]
      BY <1>1, <1>3, <1>4, <2>1
    <3>2. \A j \in 1..Len(env') : ~(j > top)
      BY <1>1, <1>2
    <3> QED
      BY <1>1, <3>1, <3>2 DEF SetAt
  <2>2. CASE c # k
    <3>1. PICK i \in 1..top : SetAt(c, i)
      BY <1>6 DEF CredInv
    <3>2. \A j \in 1..top : env'[j][c] = env[j][c]
      BY <1>3, <2>0, <2>2
    <3>3. credentials'[c] = credentials[c]
      BY <1>4, <2>2
    <3> QED
      BY <1>2, <3>1, <3>2, <3>3 DEF SetAt, top
  <2> QED
    BY <2>1, <2>2
<1> QED
  BY <1>4, <1>5, <1>6, <1>7 DEF CredInv

LEMMA NextCredInv ==
  ASSUME NoCredShadow, EvalInv, EvalInv', CredInv, [Next]_vars
  PROVE  CredInv'
<1>1. ASSUME SameCreds(env', env), Height' >= Height, credentials' = credentials
      PROVE  \A c \in Cred : \E i \in 1..Height' : SetAt(c, i)'
  BY <1>1, CredsStay DEF CredInv
<1>2. ASSUME SameCreds(env', env) PROVE \A c \in Cred : env'[1][c] = env[1][c]
  <2>1. 1 \in 1..Len(env) /\ 1 \in 1..Len(env')
    BY HeightFacts, NextHeight DEF HeightOK
  <2> QED
    BY <1>2, <2>1 DEF SameCreds
<1>3. CASE Dispatch \/ CallUpdate \/ CallHandleEvent
  <2>1. /\ credentials' = credentials /\ phase' = "body"
    BY <1>3 DEF Dispatch, CallUpdate, CallHandleEvent, Begin
  <2> QED
    BY <1>1, <1>3, <2>1, BeginKeepsCreds DEF CredInv
<1>4. CASE \E c \in Cred, v \in Val : SetCredential(c, v)
  BY <1>4, InjectionIsSeen
<1>5. CASE Refuse \/ BeginRender \/ UNCHANGED vars
  BY <1>5 DEF Refuse, BeginRender, vars, CredInv, Height, Depth, SetAt
<1>6. CASE Stmt
  <2>1. SameCreds(env', env) /\ Height' >= Height
    BY <1>6, StmtKeepsCreds
  <2>2. /\ credentials' = credentials
        /\ phase' \notin {"body", "render"} => frames' = <<>>
        /\ phase' \in {"body", "derive", "check"} =>
             phase = "body" /\ snapshot' = snapshot
    BY <1>6 DEF Stmt, SetStmt, PlainStmt, LetStmt, EnterFor, NextItem, ExitFor,
       EnterMatch, ExitMatch, EndBody, ReturnStmt, Fail, EndRender, Statement,
       Running, Continue, Unwind
  <2> QED
    BY <1>1, <1>2, <2>1, <2>2 DEF CredInv
<1>7. CASE Finish
  <2>1. /\ phase \notin {"body", "render"} /\ phase' \notin {"body", "render"}
        /\ UNCHANGED <<credentials, frames>>
        /\ phase' \in {"derive", "check"} =>
             phase \in {"derive", "check"} /\ snapshot' = snapshot
    BY <1>7 DEF Finish, DeriveStep, DeriveFail, StartChecks, CheckPass,
       CheckFail, Commit, RolledBack
  <2>2. SameCreds(env', env) /\ Len(env') = Len(env)
    BY <1>7, FinishKeepsCreds
  <2>3. Height' >= Height
    BY <2>1, <2>2, HeightFacts DEF Height, Depth, HeightOK
  <2> QED
    BY <1>1, <1>2, <2>1, <2>2, <2>3 DEF CredInv
<1> QED
  BY <1>3, <1>4, <1>5, <1>6, <1>7 DEF Next, Host

LEMMA InitCredInv == Init => CredInv
<1> SUFFICES ASSUME Init PROVE CredInv
  OBVIOUS
<1>1. PICK g \in Scope : env = <<g>> /\ \A c \in Cred : g[c] = Nil
  BY DEF Init
<1>2. /\ frames = <<>> /\ Len(frames) = 0 /\ phase = "idle"
      /\ credentials = [c \in Cred |-> Nil] /\ Len(env) = 1 /\ env[1] = g
  BY <1>1, EmptySeq DEF Init
<1>3. Height = 1
  BY <1>2 DEF Height, Depth
<1>4. \A c \in Cred : SetAt(c, 1)
  BY <1>1, <1>2 DEF SetAt
<1> QED
  BY <1>2, <1>3, <1>4 DEF CredInv

LEMMA AlwaysCredInv == NoCredShadow => (Spec => []CredInv)
<1> SUFFICES ASSUME NoCredShadow PROVE Spec => []CredInv
  OBVIOUS
<1>1. EvalInv /\ EvalInv' /\ CredInv /\ [Next]_vars => CredInv'
  BY NextCredInv
<1> QED
  BY <1>1, InitCredInv, AlwaysEvalInv, PTL DEF Spec

LEMMA CredsAreSeen == EvalInv /\ CredInv => CredentialVisible
<1> SUFFICES ASSUME EvalInv, CredInv, NEW c \in Cred
             PROVE  Lookup(env, c) = credentials[c]
  BY DEF CredentialVisible
<1>1. PICK i \in 1..Height : SetAt(c, i)
  BY DEF CredInv
<1>2. /\ env \in Seq(Scope) /\ DOMAIN env = 1..Len(env) /\ i \in 1..Len(env)
      /\ c \in Name
  BY StackHere, LenProperties, NamesAndValues, HeightFacts DEF HeightOK
<1>3. env[i][c] = credentials[c] /\ env[i][c] # Unbound
  BY <1>1, ValueAssumption DEF SetAt, EvalInv, RestOK
<1>4. IsBound(env, c) /\ i \in Binders(env, c)
  BY <1>2, <1>3 DEF IsBound, Binders
<1>5. Binder(env, c) = i
  <2>1. /\ Binder(env, c) \in 1..Len(env) /\ Binder(env, c) \in Binders(env, c)
        /\ i <= Binder(env, c)
    BY <1>2, <1>4, BinderIsLast
  <2>2. ~(Binder(env, c) > i)
    BY <1>1, <2>1 DEF SetAt, Binders
  <2> QED
    BY <1>2, <2>1, <2>2
<1> QED
  BY <1>3, <1>4, <1>5 DEF Lookup

\* set_credential writes to the innermost scope only; all the same, unless a
\* local has its name, a credential always reads as the host set it last, over
\* scopes that abandoned loops left behind and after rollbacks of the global
\* one.
THEOREM CredentialsAreSeen == NoCredShadow => (Spec => []CredentialVisible)
<1> SUFFICES ASSUME NoCredShadow PROVE Spec => []CredentialVisible
  OBVIOUS
<1>1. Spec => []CredInv
  BY AlwaysCredInv
<1> QED
  BY <1>1, CredsAreSeen, AlwaysEvalInv, PTL

-----------------------------------------------------------------------------
\* The promise.

\* What the mapping needs beside: no call runs while the host may act, and a
\* view has changed nothing yet.
PromiseInv ==
  /\ phase = "idle" => outcome # "running"
  /\ phase = "render" => Fields(env) = before

LEMMA NextPromiseInv ==
  ASSUME NoShadow, EvalInv, CommitInv, RollbackInv, PromiseInv, [Next]_vars
  PROVE  PromiseInv'
<1>1. CASE UNCHANGED vars
  BY <1>1 DEF vars, PromiseInv
<1>2. CASE Dispatch \/ CallUpdate \/ CallHandleEvent \/ Refuse
  BY <1>2 DEF Dispatch, CallUpdate, CallHandleEvent, Begin, Refuse, PromiseInv
<1>3. CASE BeginRender
  BY <1>3 DEF BeginRender, PromiseInv, Fields
<1>4. ASSUME NEW c \in Cred, NEW v \in Val, SetCredential(c, v)
      PROVE  PromiseInv'
  BY <1>4 DEF SetCredential, PromiseInv
<1>5. CASE Stmt
  <2>1. phase = "render" => Fields(env') = Fields(env)
    BY <1>5, StmtOnFields DEF RollbackInv
  <2>2. /\ phase' = "idle" => outcome' # "running"
        /\ phase' = "render" => phase = "render"
        /\ before' = before
    BY <1>5 DEF Stmt, SetStmt, PlainStmt, LetStmt, EnterFor, NextItem, ExitFor,
       EnterMatch, ExitMatch, EndBody, ReturnStmt, Fail, EndRender, Statement,
       Running, Continue
  <2> QED
    BY <2>1, <2>2 DEF PromiseInv
<1>6. CASE Finish
  BY <1>6 DEF Finish, DeriveStep, DeriveFail, StartChecks, CheckPass, CheckFail,
     Commit, RolledBack, PromiseInv
<1> QED
  BY <1>1, <1>2, <1>3, <1>4, <1>5, <1>6 DEF Next, Host

LEMMA AlwaysPromiseInv == NoShadow => (Spec => []PromiseInv)
<1> SUFFICES ASSUME NoShadow PROVE Spec => []PromiseInv
  OBVIOUS
<1>1. Init => PromiseInv
  BY DEF Init, PromiseInv
<1>2. EvalInv /\ CommitInv /\ RollbackInv /\ PromiseInv /\ [Next]_vars
        => PromiseInv'
  BY NextPromiseInv
<1>3. Spec => []RollbackInv
  BY AlwaysRollbackInv
<1> QED
  BY <1>1, <1>2, <1>3, AlwaysEvalInv, AlwaysCommitInv, PTL DEF Spec

\* The fields after a step.
LEMMA FieldsNext == EvalInv' => (Fields(env) \in FieldState)'
<1>1. EvalInv => Fields(env) \in FieldState
  BY StackHere, FieldsType DEF FieldState
<1> QED
  BY <1>1, PTL

\* The invariants see the state fields and the credentials the host sees.
LEMMA CommittedIsGood ==
  ASSUME EvalInv, CredentialVisible, InvariantsHold
  PROVE  GoodState(Fields(env), credentials)
<1> DEFINE seen == [n \in Name |-> IF n \in Field \cup Cred THEN View(env)[n]
                                                          ELSE Unbound]
<1> DEFINE view == [n \in Name |-> IF n \in Field THEN Fields(env)[n]
                                   ELSE IF n \in Cred THEN credentials[n]
                                   ELSE Unbound]
<1>1. View(env) \in Scope
  BY StackHere, ViewType
<1>2. \A i \in 1..NumInvariants : Holds(i, seen)
  BY <1>1, InvariantReads DEF InvariantsHold
<1>3. ASSUME NEW n \in Name PROVE seen[n] = view[n]
  <2>1. View(env)[n] = Lookup(env, n)
    BY DEF View
  <2>2. n \in Field => Fields(env)[n] = Lookup(env, n)
    BY DEF Fields
  <2>3. n \in Cred => credentials[n] = Lookup(env, n)
    BY DEF CredentialVisible
  <2> QED
    BY <2>1, <2>2, <2>3
<1>4. seen = view
  BY <1>3
<1> HIDE DEF seen
<1> QED
  BY <1>2, <1>4 DEF GoodState

StepInv == EvalInv /\ CommitInv /\ RollbackInv /\ CredentialVisible /\ PromiseInv

LEMMA HostRefines ==
  ASSUME StepInv, Host
  PROVE  [Promise!TNext \/ Promise!Fault]_(Promise!tvars)
<1>1. phase = "idle" /\ outcome # "running"
  BY DEF StepInv, PromiseInv, Host, Dispatch, CallUpdate, CallHandleEvent, Begin,
     Refuse, SetCredential, BeginRender
<1>2. CASE Dispatch \/ CallUpdate \/ CallHandleEvent \/ BeginRender
  <2>1. /\ outcome' = "running" /\ before' = Fields(env)
        /\ credentials' = credentials
    BY <1>2 DEF Dispatch, CallUpdate, CallHandleEvent, Begin, BeginRender
  <2>2. Promise!Begin
    BY <1>1, <2>1 DEF Promise!Begin
  <2> QED
    BY <2>2 DEF Promise!TNext
<1>3. CASE Refuse
  <2>1. Promise!Refuse
    BY <1>1, <1>3 DEF Refuse, Promise!Refuse, Fields
  <2> QED
    BY <2>1 DEF Promise!TNext
<1>4. ASSUME NEW c \in Cred, NEW v \in Val, SetCredential(c, v)
      PROVE  Promise!TNext
  <2>1. c \in Name \ Field /\ v \in Slot
    BY NamesAndValues, DerivedAssumption
  <2>2. env' = Write(env, Len(env), c, v) /\ Len(env) \in 1..Len(env)
    BY <1>4, <2>1, StackHere, DefineIsWrite DEF SetCredential, StepInv
  <2>3. Fields(env') = Fields(env)
    BY <2>1, <2>2, StackHere, WriteKeepsFields DEF StepInv
  <2>4. credentials' \in CredState /\ outcome' = "none"
    BY <1>4 DEF SetCredential, StepInv, EvalInv, RestOK, CredState
  <2>5. Promise!Inject
    BY <1>1, <2>3, <2>4 DEF Promise!Inject
  <2> QED
    BY <2>5 DEF Promise!TNext
<1> QED
  BY <1>2, <1>3, <1>4 DEF Host

\* While a call runs, the promise stands still; then it ends in one of its ways.
LEMMA CallRefines ==
  ASSUME StepInv, StepInv', Stmt \/ Finish
  PROVE  [Promise!TNext \/ Promise!Fault]_(Promise!tvars)
<1>1. outcome = "running" /\ UNCHANGED <<credentials, before>>
  BY DEF StepInv, CommitInv, Stmt, SetStmt, PlainStmt, LetStmt, EnterFor,
     NextItem, ExitFor, EnterMatch, ExitMatch, EndBody, ReturnStmt, Fail,
     EndRender, Statement, Running, Continue, Finish, DeriveStep, DeriveFail,
     StartChecks, CheckPass, CheckFail, Commit, RolledBack
<1>2. CASE outcome' = outcome
  BY <1>1, <1>2 DEF Promise!tvars
<1>3. CASE Fail \/ DeriveFail
  <2>1. Fields(env') \in FieldState
    BY FieldsNext DEF StepInv
  <2>2. outcome' = "fault"
    BY <1>3 DEF Fail, DeriveFail
  <2> QED
    BY <1>1, <2>1, <2>2 DEF Promise!Fault
<1>4. CASE Commit
  <2>1. InvariantsHold' /\ outcome' = "committed" /\ env' = env
    BY <1>4 DEF Commit, StepInv, CommitInv
  <2>2. InvariantsHold
    BY <2>1 DEF InvariantsHold
  <2>3. GoodState(Fields(env), credentials) /\ Fields(env) \in FieldState
    BY <2>2, CommittedIsGood, StackHere, FieldsType DEF StepInv, FieldState
  <2>4. Promise!Commit
    BY <1>1, <2>1, <2>3 DEF Promise!Commit
  <2> QED
    BY <2>4 DEF Promise!TNext
<1>5. CASE EndRender \/ RolledBack
  <2>1. outcome' \in {"rendered", "rolledback"} /\ env' = env
    BY <1>5 DEF EndRender, RolledBack
  <2>2. Fields(env) = before
    BY <1>5 DEF EndRender, RolledBack, StepInv, RollbackInv, PromiseInv
  <2>3. Promise!Rollback
    BY <1>1, <2>1, <2>2 DEF Promise!Rollback
  <2> QED
    BY <2>3 DEF Promise!TNext
<1>6. outcome' = outcome \/ Fail \/ DeriveFail \/ Commit \/ EndRender \/ RolledBack
  BY DEF Stmt, SetStmt, PlainStmt, LetStmt, EnterFor, NextItem, ExitFor,
     EnterMatch, ExitMatch, EndBody, ReturnStmt, Continue, Finish, DeriveStep,
     StartChecks, CheckPass, CheckFail
<1> QED
  BY <1>2, <1>3, <1>4, <1>5, <1>6

LEMMA InitRefines == Init => Promise!TInit
<1> SUFFICES ASSUME Init PROVE Promise!TInit
  OBVIOUS
<1>1. EvalInv
  BY InitEvalInv
<1>2. Fields(env) \in FieldState /\ credentials \in CredState
  BY <1>1, StackHere, FieldsType DEF EvalInv, RestOK, FieldState, CredState
<1> QED
  BY <1>2 DEF Init, Promise!TInit

\* A call of dispatch, update or handleEvent commits a state that satisfies all
\* invariants or leaves the fields as they were, a view leaves them as they
\* were, and nothing but the host changes a credential; the one exception is
\* the call that fails midway.
THEOREM EvaluatorKeepsPromise == NoShadow /\ NoCredShadow => (Spec => Transactional)
<1> SUFFICES ASSUME NoShadow, NoCredShadow PROVE Spec => Transactional
  OBVIOUS
<1>1. StepInv /\ StepInv' /\ [Next]_vars
        => [Promise!TNext \/ Promise!Fault]_(Promise!tvars)
  <2> SUFFICES ASSUME StepInv, StepInv', [Next]_vars
               PROVE  [Promise!TNext \/ Promise!Fault]_(Promise!tvars)
    OBVIOUS
  <2>1. CASE UNCHANGED vars
    BY <2>1 DEF vars, Promise!tvars, Fields
  <2> QED
    BY <2>1, HostRefines, CallRefines DEF Next
<1>2. Spec => []StepInv
  <2>1. Spec => []RollbackInv
    BY AlwaysRollbackInv
  <2>2. Spec => []CredentialVisible
    BY CredentialsAreSeen
  <2>3. Spec => []PromiseInv
    BY AlwaysPromiseInv
  <2> QED
    BY <2>1, <2>2, <2>3, AlwaysEvalInv, AlwaysCommitInv, PTL DEF StepInv
<1> QED
  BY <1>1, <1>2, InitRefines, PTL DEF Spec, Transactional, Promise!SpecWithFaults
=============================================================================
