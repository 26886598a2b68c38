---------------------------- MODULE ParityProofs ----------------------------
(***************************************************************************)
(* The evaluator and the compiled module show the host the same state, for *)
(* every program.  First what derived fields are determined by; then that  *)
(* the evaluator's stack shows what its global scope does; then how the    *)
(* two stand to each other, step by step.                                  *)
(***************************************************************************)
EXTENDS Parity, SequenceTheorems, FiniteSetTheorems, TLAPS

\* What is proved about the evaluator alone.
EP == INSTANCE SpaceEvalProofs
  WITH GasLimit <- EvalGas, gas <- egas, phase <- ephase, idx <- eidx,
       snapshot <- esnapshot, outcome <- eoutcome, before <- ebefore

LEMMA SameNames ==
  /\ EP!DerivedName = E!DerivedName /\ EP!Name = E!Name
  /\ EP!Slot = E!Slot /\ EP!Scope = E!Scope
BY DEF EP!DerivedName, E!DerivedName, EP!Name, E!Name, EP!Slot, E!Slot,
       EP!Scope, E!Scope

LEMMA ProofAssumptions ==
  /\ EP!DerivedAssumption /\ EP!ValueAssumption /\ EP!DeclarationOrder
  /\ EP!InvariantReads /\ EP!BoundsAssumption
<1>1. EP!DerivedAssumption
  BY EvalAssumptions, SameNames DEF EP!DerivedAssumption, E!DerivedAssumption
<1>2. EP!ValueAssumption
  BY EvalAssumptions, SameNames DEF EP!ValueAssumption, E!ValueAssumption
<1>3. EP!DeclarationOrder
  <2>1. E!DeclarationOrder
    BY EvalAssumptions
  <2> QED
    BY <2>1, Zenon
       DEF EP!DeclarationOrder, E!DeclarationOrder, EP!DerivedName, E!DerivedName,
           EP!Name, E!Name, EP!Slot, E!Slot, EP!Scope, E!Scope
<1>4. EP!InvariantReads
  BY EvalAssumptions, SameNames DEF EP!InvariantReads, E!InvariantReads
<1>5. EP!BoundsAssumption
  BY EvalAssumptions DEF EP!BoundsAssumption, E!BoundsAssumption
<1> QED BY <1>1, <1>2, <1>3, <1>4, <1>5

LEMMA EvalStepKeeps == EP!EvalInv /\ [EP!Next]_(EP!vars) => EP!EvalInv'
BY ProofAssumptions, EP!NextEvalInv, Zenon

-----------------------------------------------------------------------------
(* State records                                                            *)

Der(i, r) == Derive(i, W!WasmView(r))
Good(i, r) == Holds(i, W!WasmView(r))

SameFields(r, s) == \A f \in Field : r[f] = s[f]

\* The derived fields from the k-th on have the same values.
SameFrom(r, s, k) == \A i \in DOMAIN Derived : i >= k => r[Derived[i]] = s[Derived[i]]

\* Those before it are computed from the record, and those invariants hold.
FreshTo(r, k) == \A i \in DOMAIN Derived : i < k => r[Derived[i]] = Der(i, r)
GoodTo(r, k) == \A i \in 1..NumInvariants : i < k => Good(i, r)

AllFresh(r) == \A i \in DOMAIN Derived : r[Derived[i]] = Der(i, r)

LEMMA Upwards ==
  ASSUME NEW n \in Nat, NEW S, 1 \in S,
         \A m \in 1..n : m \in S /\ m < n => m + 1 \in S
  PROVE  1..n \subseteq S
<1> SUFFICES ASSUME n >= 1 PROVE 1..n \subseteq S
  OBVIOUS
<1> DEFINE T == {m \in 1..n : 1..m \subseteq S}
<1>1. T \in SUBSET (1..n) /\ 1 \in T
  OBVIOUS
<1>2. PICK m \in T : \A k \in T : k <= m
  <2> HIDE DEF T
  <2> QED BY <1>1, ProofAssumptions, EP!LastExists
<1>3. ASSUME m < n PROVE FALSE
  <2>1. m \in 1..n /\ m \in S /\ m + 1 \in S /\ m + 1 \in 1..n
    BY <1>2, <1>3
  <2>2. 1..(m + 1) \subseteq S
    BY <1>2, <2>1
  <2>3. m + 1 \in T
    BY <2>1, <2>2
  <2> QED BY <1>2, <2>1, <2>3
<1> QED BY <1>2, <1>3

LEMMA SpaceFacts ==
  /\ DOMAIN Derived = 1..Len(Derived) /\ Len(Derived) \in Nat
  /\ W!Key = Field \cup {Derived[i] : i \in DOMAIN Derived}
  /\ \A i \in DOMAIN Derived : Derived[i] \in W!Key /\ Derived[i] \notin Field
  /\ \A i, j \in DOMAIN Derived : Derived[i] = Derived[j] => i = j
  /\ Cred \cap W!Key = {}
  /\ NumInvariants \in Nat
  /\ Trap \notin Val /\ Unbound \notin Val /\ Trap # Unbound /\ Nil \in Val
  /\ InitialVal \subseteq Val
<1>1. /\ Derived \in Seq(W!DerivedName)
      /\ \A i, j \in DOMAIN Derived : Derived[i] = Derived[j] => i = j
      /\ W!DerivedName \cap Field = {} /\ Cred \cap W!Key = {}
  BY WasmAssumptions DEF W!WasmDerived
<1>2. Len(Derived) \in Nat /\ DOMAIN Derived = 1..Len(Derived)
  BY <1>1, LenProperties
<1>3. /\ W!Key = Field \cup {Derived[i] : i \in DOMAIN Derived}
      /\ \A i \in DOMAIN Derived : Derived[i] \in W!Key /\ Derived[i] \notin Field
  BY <1>1, Zenon DEF W!Key, W!DerivedName
<1>4. NumInvariants \in Nat
  BY WasmAssumptions DEF W!WasmValues
<1>5. Trap \notin Val /\ Unbound \notin Val /\ Trap # Unbound /\ Nil \in Val
      /\ InitialVal \subseteq Val
  BY WasmAssumptions, EvalAssumptions DEF E!ValueAssumption
<1> QED BY <1>1, <1>2, <1>3, <1>4, <1>5

\* No local has the name of a field, so an expression sees the record.
LEMMA SeenIsView == W!Seen = W!WasmView(state)
<1>1. W!Leaked(entry, W!Part) = {}
  BY Zenon DEF W!Leaked, NoLets
<1>2. DOMAIN W!WasmView(state) = W!Name
      /\ W!WasmView(state) = [n \in W!Name |-> W!WasmView(state)[n]]
  BY DEF W!WasmView
<1> QED BY <1>1, <1>2 DEF W!Seen

LEMMA ViewTyped == ASSUME NEW r \in W!Record PROVE W!WasmView(r) \in [W!Name -> Val]
BY SpaceFacts DEF W!WasmView, W!Record

LEMMA DerType ==
  ASSUME NEW r \in W!Record, NEW i \in DOMAIN Derived
  PROVE  Der(i, r) \in Val \cup {Trap}
BY ViewTyped, WasmAssumptions DEF W!WasmExpressions, Der

LEMMA DerOrder ==
  ASSUME NEW r \in W!Record, NEW i \in DOMAIN Derived, NEW j \in DOMAIN Derived,
         i <= j, NEW v \in Val
  PROVE  Der(i, [r EXCEPT ![Derived[j]] = v]) = Der(i, r)
BY WasmAssumptions DEF W!WasmOrder, Der

\* The value of a derived field is determined by the fields and the derived
\* fields before it: the later ones are exchanged one by one.
LEMMA DerDetermined ==
  ASSUME NEW r \in W!Record, NEW s \in W!Record, NEW i \in DOMAIN Derived,
         SameFields(r, s),
         \A j \in DOMAIN Derived : j < i => r[Derived[j]] = s[Derived[j]]
  PROVE  Der(i, r) = Der(i, s)
<1> DEFINE n == Len(Derived)
           late(k) == {Derived[j] : j \in {j \in DOMAIN Derived : i <= j /\ j < k}}
           mix(k) == [x \in W!Key |-> IF x \in late(k) THEN s[x] ELSE r[x]]
           S == {k \in 1..(n + 1) : k >= i => Der(i, mix(k)) = Der(i, r)}
<1>1. /\ n \in Nat /\ i \in 1..n /\ DOMAIN Derived = 1..n
      /\ \A x \in W!Key : r[x] \in Val /\ s[x] \in Val
  BY SpaceFacts DEF W!Record
<1>2. mix(i) = r
  <2>1. late(i) = {}
    BY <1>1
  <2> HIDE DEF late
  <2> QED BY <2>1 DEF W!Record
<1>3. mix(n + 1) = s
  <2>1. \A x \in W!Key : x \notin late(n + 1) => r[x] = s[x]
    BY <1>1, SpaceFacts DEF SameFields
  <2> HIDE DEF late
  <2> QED BY <2>1 DEF W!Record
<1>4. \A k \in 1..(n + 1) : mix(k) \in W!Record
  BY <1>1 DEF W!Record
<1>5. \A k \in 1..n : k >= i => mix(k + 1) = [mix(k) EXCEPT ![Derived[k]] = s[Derived[k]]]
  <2> TAKE k \in 1..n
  <2> HAVE k >= i
  <2>1. late(k + 1) = late(k) \cup {Derived[k]}
    BY <1>1
  <2>2. Derived[k] \in W!Key
    BY <1>1, SpaceFacts
  <2> HIDE DEF late
  <2> QED BY <2>1, <2>2
<1>6. 1 \in S
  <2>1. 1 >= i => i = 1
    BY <1>1
  <2> HIDE DEF mix
  <2> QED BY <1>1, <1>2, <2>1
<1>7. ASSUME NEW k \in 1..(n + 1), k \in S, k < n + 1 PROVE k + 1 \in S
  <2>1. k \in 1..n /\ k + 1 \in 1..(n + 1)
    BY <1>1, <1>7
  <2>2. CASE k + 1 = i
    <3> HIDE DEF mix
    <3> QED BY <1>2, <2>1, <2>2
  <2>3. CASE k >= i
    <3>1. mix(k + 1) = [mix(k) EXCEPT ![Derived[k]] = s[Derived[k]]]
      BY <1>5, <2>1, <2>3
    <3>2. mix(k) \in W!Record /\ s[Derived[k]] \in Val /\ k \in DOMAIN Derived
      BY <1>1, <1>4, <2>1, SpaceFacts
    <3> HIDE DEF mix
    <3>3. Der(i, mix(k + 1)) = Der(i, mix(k))
      BY <2>3, <3>1, <3>2, DerOrder
    <3> QED BY <1>7, <2>1, <2>3, <3>3
  <2>4. CASE ~(k >= i) /\ k + 1 # i
    <3>1. ~(k + 1 >= i)
      BY <1>1, <2>1, <2>4
    <3> QED BY <2>1, <3>1
  <2> QED BY <2>2, <2>3, <2>4
<1>8. 1..(n + 1) \subseteq S
  <2> HIDE DEF S
  <2>1. n + 1 \in Nat
    BY <1>1
  <2> QED BY <1>6, <1>7, <2>1, Upwards
<1>9. n + 1 \in S
  <2> HIDE DEF S
  <2> QED BY <1>1, <1>8
<1> HIDE DEF mix
<1> QED BY <1>1, <1>3, <1>9

\* Records with the same fields whose first derived fields are computed agree
\* on these.
LEMMA FreshAgree ==
  ASSUME NEW r \in W!Record, NEW s \in W!Record, NEW k \in Nat, SameFields(r, s),
         FreshTo(r, k), FreshTo(s, k)
  PROVE  \A i \in DOMAIN Derived : i < k => r[Derived[i]] = s[Derived[i]]
<1> DEFINE n == Len(Derived)
           Same(i) == r[Derived[i]] = s[Derived[i]]
           S == {m \in 1..(n + 1) : \A i \in 1..n : i < m /\ i < k => Same(i)}
<1>1. n \in Nat /\ n + 1 \in Nat /\ DOMAIN Derived = 1..n
  BY SpaceFacts
<1>2. ASSUME NEW m \in 1..n, m < k, \A j \in 1..n : j < m => Same(j)
      PROVE  Same(m)
  <2>1. Der(m, r) = Der(m, s)
    BY <1>1, <1>2, DerDetermined
  <2> QED BY <1>1, <1>2, <2>1 DEF FreshTo
<1> HIDE DEF Same
<1>3. 1 \in S
  BY <1>1
<1>4. ASSUME NEW m \in 1..(n + 1), m \in S, m < n + 1 PROVE m + 1 \in S
  <2>1. m \in 1..n /\ m + 1 \in 1..(n + 1)
    BY <1>1, <1>4
  <2>2. m < k => Same(m)
    <3> HAVE m < k
    <3>1. \A j \in 1..n : j < m => Same(j)
      BY <1>1, <1>4, <2>1
    <3> QED BY <1>2, <2>1, <3>1
  <2>3. \A i \in 1..n : i < m + 1 /\ i < k => Same(i)
    <3> TAKE i \in 1..n
    <3> HAVE i < m + 1 /\ i < k
    <3>1. i < m \/ i = m
      BY <2>1
    <3> QED BY <1>4, <2>2, <3>1
  <2> QED BY <2>1, <2>3
<1>5. n + 1 \in S
  <2> HIDE DEF S
  <2>1. 1..(n + 1) \subseteq S
    BY <1>1, <1>3, <1>4, Upwards
  <2> QED BY <1>1, <2>1
<1>6. \A i \in 1..n : i < k => Same(i)
  BY <1>1, <1>5
<1> QED BY <1>1, <1>6 DEF Same

-----------------------------------------------------------------------------
(* The evaluator's global scope under scopes that hide nothing of it.       *)

\* No parameter, variable or loop item is named like a field or a credential.
NoShadow == Local \cap (Field \cup Cred) = {}

Known == W!Key \cup Cred

Based(g) ==
  /\ g \in E!Scope
  /\ \A n \in W!Key : g[n] \in Val
  /\ \A c \in Cred : g[c] = Nil

GlobalOK(e) ==
  /\ e \in Seq(E!Scope) /\ Len(e) >= 1
  /\ Based(e[1])
  /\ \A i \in 2..Len(e), n \in Known : e[i][n] = Unbound

\* What a scope, and a stack, show of the fields.
Rec(g) == [n \in W!Key |-> g[n]]
Shown(e) == Rec(e[1])

Hides(s) == \E n \in Known : s[n] # Unbound

Put(e, i, n, v) == [e EXCEPT ![i][n] = v]

LEMMA KnownNames ==
  /\ Known \subseteq E!Name /\ Local \subseteq E!Name
  /\ Field \subseteq W!Key /\ W!Key \subseteq Known
  /\ Unbound # Nil
  /\ NoShadow => Local \cap Known = {}
<1>1. W!Key = Field \cup E!DerivedName
  BY DEF W!Key, W!DerivedName, E!DerivedName
<1>2. E!DerivedName \cap Local = {}
  BY EvalAssumptions DEF E!DerivedAssumption
<1>3. Unbound # Nil
  BY SpaceFacts
<1> QED BY <1>1, <1>2, <1>3 DEF Known, E!Name, NoShadow

LEMMA BasedRecord ==
  ASSUME NEW g, Based(g) PROVE Rec(g) \in W!Record
BY DEF Based, Rec, W!Record

LEMMA LookupGlobal ==
  ASSUME NEW e, GlobalOK(e), NEW n \in Known
  PROVE  /\ E!IsBound(e, n) /\ E!Binder(e, n) = 1
         /\ E!Lookup(e, n) = e[1][n]
<1>1. DOMAIN e = 1..Len(e) /\ Len(e) \in Nat /\ Len(e) >= 1
  BY LenProperties DEF GlobalOK
<1>2. e[1][n] # Unbound
  BY KnownNames, SpaceFacts DEF GlobalOK, Based, Known
<1>3. \A i \in 1..Len(e) : e[i][n] # Unbound => i = 1
  BY <1>1 DEF GlobalOK
<1>4. E!Binders(e, n) = {1}
  BY <1>1, <1>2, <1>3 DEF E!Binders
<1>5. E!Binder(e, n) = 1
  BY <1>4 DEF E!Binder
<1> QED BY <1>4, <1>5 DEF E!IsBound, E!Lookup

\* An expression reads what the module's reads.
LEMMA SameReading ==
  ASSUME NEW e, GlobalOK(e)
  PROVE  /\ \A i \in DOMAIN Derived : Derive(i, E!View(e)) = Der(i, Shown(e))
         /\ \A i \in 1..NumInvariants : Holds(i, E!View(e)) <=> Good(i, Shown(e))
         /\ Shown(e) \in W!Record
         /\ \A n \in W!Key : E!Lookup(e, n) = Shown(e)[n]
<1>1. E!View(e) \in E!Scope
  <2>1. EP!View(e) \in EP!Scope
    BY ProofAssumptions, SameNames, EP!ViewType DEF GlobalOK
  <2>2. EP!View(e) = E!View(e)
    BY Zenon DEF EP!View, E!View, EP!Lookup, E!Lookup, EP!IsBound, E!IsBound, EP!Binder,
       E!Binder, EP!Binders, E!Binders, EP!Name, E!Name, EP!DerivedName, E!DerivedName
  <2> QED BY <2>1, <2>2, SameNames
<1>2. Shown(e) \in W!Record
  BY BasedRecord DEF GlobalOK, Shown
<1>3. \A n \in W!Key : E!Lookup(e, n) = Shown(e)[n]
  BY LookupGlobal, KnownNames DEF Shown, Rec
<1>4. \A n \in W!Key : E!View(e)[n] = Shown(e)[n]
  BY <1>3, KnownNames DEF E!View
<1>5. \A c \in Cred : E!View(e)[c] = Nil
  BY LookupGlobal, KnownNames DEF E!View, Known, GlobalOK, Based
<1>6. /\ \A i \in DOMAIN Derived : Derive(i, E!View(e)) = Derive(i, W!WasmView(Shown(e)))
      /\ \A i \in 1..NumInvariants :
           Holds(i, E!View(e)) <=> Holds(i, W!WasmView(Shown(e)))
  BY <1>1, <1>2, <1>4, <1>5, SameExpressions
<1> QED BY <1>2, <1>3, <1>6 DEF Der, Good

LEMMA StackOK ==
  ASSUME NEW e, GlobalOK(e)
  PROVE  /\ e \in Seq(E!Scope) /\ Len(e) \in Nat /\ DOMAIN e = 1..Len(e)
         /\ 1 \in 1..Len(e) /\ Len(e) \in 1..Len(e)
         /\ \A i \in 1..Len(e) : e[i] \in E!Scope
BY LenProperties, ElementOfSeq DEF GlobalOK

LEMMA PutSlot ==
  ASSUME NEW e, GlobalOK(e), NEW i \in 1..Len(e), NEW n \in E!Name, NEW v \in E!Slot
  PROVE  /\ Put(e, i, n, v) \in Seq(E!Scope) /\ Len(Put(e, i, n, v)) = Len(e)
         /\ Put(e, i, n, v)[1] \in E!Scope
         /\ \A j \in 1..Len(e), x \in E!Name :
              Put(e, i, n, v)[j][x] = IF j = i /\ x = n THEN v ELSE e[j][x]
<1> DEFINE s == [e[i] EXCEPT ![n] = v]
<1>1. s \in E!Scope /\ \A x \in E!Name : s[x] = IF x = n THEN v ELSE e[i][x]
  BY StackOK DEF E!Scope
<1>2. Put(e, i, n, v) = [e EXCEPT ![i] = s]
  BY DEF Put
<1> HIDE DEF s
<1>3. /\ [e EXCEPT ![i] = s] \in Seq(E!Scope) /\ Len([e EXCEPT ![i] = s]) = Len(e)
      /\ \A j \in 1..Len(e) : [e EXCEPT ![i] = s][j] = IF j = i THEN s ELSE e[j]
  BY <1>1, StackOK, ExceptSeq
<1>4. 1 \in 1..Len(e)
  BY StackOK
<1> QED BY <1>1, <1>2, <1>3, <1>4, StackOK

\* Writing a local anywhere leaves the global scope's names alone ...
LEMMA PutLocal ==
  ASSUME NoShadow, NEW e, GlobalOK(e), NEW i \in 1..Len(e), NEW n \in Local,
         NEW v \in E!Slot
  PROVE  GlobalOK(Put(e, i, n, v)) /\ Shown(Put(e, i, n, v)) = Shown(e)
<1> DEFINE w == Put(e, i, n, v)
<1>1. /\ w \in Seq(E!Scope) /\ Len(w) = Len(e) /\ w[1] \in E!Scope
      /\ \A j \in 1..Len(e), x \in E!Name : w[j][x] = IF j = i /\ x = n THEN v ELSE e[j][x]
  BY PutSlot, KnownNames
<1>2. \A x \in Known : x \in E!Name /\ x # n
  BY KnownNames
<1> HIDE DEF w
<1>3. \A j \in 1..Len(e), x \in Known : w[j][x] = e[j][x]
  BY <1>1, <1>2
<1>4. 1 \in 1..Len(e) /\ \A j \in 2..Len(e) : j \in 1..Len(e)
  BY StackOK
<1>5. Based(w[1])
  BY <1>1, <1>3, <1>4, KnownNames DEF Based, GlobalOK, Known
<1>6. Shown(w) = Shown(e)
  BY <1>3, <1>4, KnownNames DEF Shown, Rec
<1>7. GlobalOK(w)
  BY <1>1, <1>3, <1>4, <1>5 DEF GlobalOK
<1> QED BY <1>6, <1>7 DEF w

\* ... and writing a field into it shows in the record.
LEMMA PutField ==
  ASSUME NEW e, GlobalOK(e), NEW n \in W!Key, NEW v \in Val
  PROVE  /\ GlobalOK(Put(e, 1, n, v))
         /\ Shown(Put(e, 1, n, v)) = [Shown(e) EXCEPT ![n] = v]
<1> DEFINE w == Put(e, 1, n, v)
<1>0. v \in E!Slot /\ n \in E!Name /\ 1 \in 1..Len(e)
  BY KnownNames, StackOK DEF E!Slot
<1>1. /\ w \in Seq(E!Scope) /\ Len(w) = Len(e) /\ w[1] \in E!Scope
      /\ \A j \in 1..Len(e), x \in E!Name : w[j][x] = IF j = 1 /\ x = n THEN v ELSE e[j][x]
  BY <1>0, PutSlot
<1>2. Known \subseteq E!Name /\ W!Key \subseteq Known /\ Cred \cap W!Key = {}
  BY KnownNames, SpaceFacts
<1> HIDE DEF w
<1>3. \A j \in 2..Len(e), x \in Known : w[j][x] = e[j][x]
  BY <1>1, <1>2, StackOK
<1>4. \A x \in Known : w[1][x] = IF x = n THEN v ELSE e[1][x]
  BY <1>0, <1>1, <1>2
<1>5. Based(w[1])
  <2>1. \A x \in W!Key : w[1][x] \in Val
    BY <1>2, <1>4 DEF GlobalOK, Based
  <2>2. \A c \in Cred : w[1][c] = Nil
    BY <1>2, <1>4 DEF GlobalOK, Based, Known
  <2> QED BY <1>1, <2>1, <2>2 DEF Based
<1>6. Shown(w) = [Shown(e) EXCEPT ![n] = v]
  BY <1>2, <1>4 DEF Shown, Rec
<1>7. GlobalOK(w)
  BY <1>1, <1>3, <1>5 DEF GlobalOK
<1> QED BY <1>6, <1>7 DEF w

LEMMA DefineLocal ==
  ASSUME NoShadow, NEW e, GlobalOK(e), NEW n \in Local, NEW v \in E!Slot
  PROVE  GlobalOK(E!Define(e, n, v)) /\ Shown(E!Define(e, n, v)) = Shown(e)
<1>1. E!Define(e, n, v) = Put(e, Len(e), n, v)
  BY DEF E!Define, Put
<1> QED BY <1>1, StackOK, PutLocal

LEMMA AssignField ==
  ASSUME NEW e, GlobalOK(e), NEW n \in W!Key, NEW v \in Val
  PROVE  /\ GlobalOK(E!Assign(e, n, v)) /\ GlobalOK(E!SetOrDefine(e, n, v))
         /\ Shown(E!Assign(e, n, v)) = [Shown(e) EXCEPT ![n] = v]
         /\ Shown(E!SetOrDefine(e, n, v)) = [Shown(e) EXCEPT ![n] = v]
<1>1. E!IsBound(e, n) /\ E!Binder(e, n) = 1
  BY LookupGlobal, KnownNames
<1>2. E!Assign(e, n, v) = Put(e, 1, n, v)
  BY <1>1 DEF E!Assign, Put
<1>3. E!SetOrDefine(e, n, v) = Put(e, 1, n, v)
  BY <1>1, <1>2 DEF E!SetOrDefine
<1> QED BY <1>2, <1>3, PutField

LEMMA PushLocals ==
  ASSUME NEW e, GlobalOK(e), NEW s \in E!Scope, ~Hides(s)
  PROVE  GlobalOK(E!PushScope(e, s)) /\ Shown(E!PushScope(e, s)) = Shown(e)
<1>1. /\ Append(e, s) \in Seq(E!Scope) /\ Len(Append(e, s)) = Len(e) + 1
      /\ \A i \in 1..Len(e) : Append(e, s)[i] = e[i]
      /\ Append(e, s)[Len(e) + 1] = s
  BY StackOK, AppendProperties
<1>2. Len(e) \in Nat /\ 1 \in 1..Len(e)
  BY StackOK
<1>3. \A i \in 2..(Len(e) + 1), n \in Known : Append(e, s)[i][n] = Unbound
  <2> TAKE i \in 2..(Len(e) + 1), n \in Known
  <2>1. CASE i = Len(e) + 1
    BY <1>1, <2>1 DEF Hides
  <2>2. CASE i # Len(e) + 1
    <3>1. i \in 2..Len(e) /\ i \in 1..Len(e)
      BY <1>2, <2>2
    <3> QED BY <1>1, <3>1 DEF GlobalOK
  <2> QED BY <2>1, <2>2
<1> QED BY <1>1, <1>2, <1>3 DEF E!PushScope, GlobalOK, Shown

LEMMA CutLocals ==
  ASSUME NEW e, GlobalOK(e), NEW k \in 1..Len(e)
  PROVE  GlobalOK(SubSeq(e, 1, k)) /\ Shown(SubSeq(e, 1, k)) = Shown(e)
<1>1. e \in Seq(EP!Scope)
  BY StackOK, SameNames
<1>2. /\ SubSeq(e, 1, k) \in Seq(EP!Scope) /\ Len(SubSeq(e, 1, k)) = k
      /\ \A i \in 1..k : SubSeq(e, 1, k)[i] = e[i]
  BY <1>1, ProofAssumptions, EP!CutStack
<1>3. k >= 1 /\ 1 \in 1..k /\ 2..k \subseteq 2..Len(e) /\ 2..k \subseteq 1..k
  BY StackOK
<1> QED BY <1>2, <1>3, SameNames DEF GlobalOK, Shown

LEMMA PopLocals ==
  ASSUME NEW e, GlobalOK(e)
  PROVE  GlobalOK(E!PopScope(e)) /\ Shown(E!PopScope(e)) = Shown(e)
<1>1. CASE Len(e) > 1
  <2>1. Len(e) - 1 \in 1..Len(e)
    BY <1>1, StackOK
  <2> QED BY <1>1, <2>1, CutLocals DEF E!PopScope
<1>2. CASE ~(Len(e) > 1)
  BY <1>2 DEF E!PopScope
<1> QED BY <1>1, <1>2

LEMMA RestoreBased ==
  ASSUME NEW e, GlobalOK(e), NEW g, Based(g)
  PROVE  GlobalOK(E!RestoreGlobal(e, g)) /\ Shown(E!RestoreGlobal(e, g)) = Rec(g)
<1> DEFINE w == [e EXCEPT ![1] = g]
<1>1. /\ w \in Seq(E!Scope) /\ Len(w) = Len(e)
      /\ \A j \in 1..Len(e) : w[j] = IF j = 1 THEN g ELSE e[j]
  BY StackOK, ExceptSeq DEF Based
<1>2. 1 \in 1..Len(e) /\ \A j \in 2..Len(e) : j \in 1..Len(e) /\ j # 1
  BY StackOK
<1> HIDE DEF w
<1>3. GlobalOK(w) /\ Shown(w) = Rec(g)
  BY <1>1, <1>2 DEF GlobalOK, Shown
<1> QED BY <1>3 DEF E!RestoreGlobal, w

-----------------------------------------------------------------------------
(* The actions of SpaceEval, under either of its two instances.             *)

LEMMA SameMatches == E!OpenMatches = EP!OpenMatches
<1>1. \A S : E!Cardinality(S) = EP!Cardinality(S)
  BY Zenon DEF E!Cardinality, EP!Cardinality
<1> QED BY <1>1, Zenon DEF E!OpenMatches, EP!OpenMatches

LEMMA SameDispatch == E!Dispatch => EP!Dispatch
BY Zenon DEF EP!Dispatch, E!Dispatch, EP!Bindings, E!Bindings, EP!Scope, E!Scope,
   EP!Name, E!Name, EP!DerivedName, E!DerivedName, EP!Slot, E!Slot, EP!Begin, E!Begin,
   EP!PushScope, E!PushScope, EP!Fields, E!Fields, EP!Lookup, E!Lookup, EP!IsBound,
   E!IsBound, EP!Binder, E!Binder, EP!Binders, E!Binders

LEMMA SameCallUpdate == E!CallUpdate => EP!CallUpdate
BY Zenon DEF EP!CallUpdate, E!CallUpdate, EP!EmptyScope, E!EmptyScope, EP!Name,
   E!Name, EP!DerivedName, E!DerivedName, EP!Begin, E!Begin, EP!PushScope,
   E!PushScope, EP!Fields, E!Fields, EP!Lookup, E!Lookup, EP!IsBound, E!IsBound,
   EP!Binder, E!Binder, EP!Binders, E!Binders

LEMMA SameCallHandleEvent == E!CallHandleEvent => EP!CallHandleEvent
BY Zenon DEF EP!CallHandleEvent, E!CallHandleEvent, EP!EmptyScope, E!EmptyScope,
   EP!Name, E!Name, EP!DerivedName, E!DerivedName, EP!Begin, E!Begin, EP!PushScope,
   E!PushScope, EP!Fields, E!Fields, EP!Lookup, E!Lookup, EP!IsBound, E!IsBound,
   EP!Binder, E!Binder, EP!Binders, E!Binders

LEMMA SameSetStmt == ASSUME NEW f, NEW v, E!SetStmt(f, v) PROVE EP!SetStmt(f, v)
BY Zenon DEF EP!SetStmt, E!SetStmt, EP!Statement, E!Statement, EP!Running, E!Running,
   EP!Affordable, E!Affordable, EP!Tick, E!Tick, EP!Assign, E!Assign, EP!IsBound,
   E!IsBound, EP!Binder, E!Binder, EP!Binders, E!Binders, EP!Continue, E!Continue

LEMMA SameLetStmt == ASSUME NEW n, NEW v, E!LetStmt(n, v) PROVE EP!LetStmt(n, v)
BY Zenon DEF EP!LetStmt, E!LetStmt, EP!Statement, E!Statement, EP!Running, E!Running,
   EP!Affordable, E!Affordable, EP!Tick, E!Tick, EP!Define, E!Define, EP!Continue,
   E!Continue

LEMMA SameEnterFor == ASSUME NEW n, NEW v, NEW len, E!EnterFor(n, v, len) PROVE EP!EnterFor(n, v, len)
BY Zenon DEF EP!EnterFor, E!EnterFor, EP!Statement, E!Statement, EP!Running,
   E!Running, EP!Affordable, E!Affordable, EP!Tick, E!Tick, EP!PushScope, E!PushScope,
   EP!EmptyScope, E!EmptyScope, EP!Name, E!Name, EP!DerivedName, E!DerivedName,
   EP!Continue, E!Continue

LEMMA SameNextItem == ASSUME NEW v, E!NextItem(v) PROVE EP!NextItem(v)
BY Zenon DEF EP!NextItem, E!NextItem, EP!Running, E!Running, EP!InnermostFrame,
   E!InnermostFrame, EP!Define, E!Define, EP!Continue, E!Continue

LEMMA SameExitFor == E!ExitFor => EP!ExitFor
BY Zenon DEF EP!ExitFor, E!ExitFor, EP!Running, E!Running, EP!InnermostFrame,
   E!InnermostFrame, EP!PopScope, E!PopScope, EP!OuterFrames, E!OuterFrames,
   EP!Continue, E!Continue

LEMMA SameEnterMatch == ASSUME NEW n, NEW v, E!EnterMatch(n, v) PROVE EP!EnterMatch(n, v)
BY Zenon DEF EP!EnterMatch, E!EnterMatch, EP!Statement, E!Statement, EP!Running,
   E!Running, EP!Affordable, E!Affordable, EP!Tick, E!Tick, EP!PushScope, E!PushScope,
   EP!EmptyScope, E!EmptyScope, EP!Name, E!Name, EP!DerivedName, E!DerivedName,
   EP!Continue, E!Continue

LEMMA SameExitMatch == E!ExitMatch => EP!ExitMatch
BY Zenon DEF EP!ExitMatch, E!ExitMatch, EP!Running, E!Running, EP!InnermostFrame,
   E!InnermostFrame, EP!PopScope, E!PopScope, EP!OuterFrames, E!OuterFrames,
   EP!Continue, E!Continue

LEMMA SameEndBody == E!EndBody => EP!EndBody
BY Zenon DEF EP!EndBody, E!EndBody, EP!PopScope, E!PopScope

LEMMA SameFail == E!Fail => EP!Fail
BY SameMatches, Zenon DEF EP!Fail, E!Fail, EP!Running, E!Running, EP!Tick, E!Tick,
   EP!Affordable, E!Affordable, EP!Unwind, E!Unwind, EP!Unwound, E!Unwound,
   EP!EmptyScope, E!EmptyScope, EP!Name, E!Name, EP!DerivedName, E!DerivedName

LEMMA SameDeriveStep == E!DeriveStep => EP!DeriveStep
BY Zenon DEF EP!DeriveStep, E!DeriveStep, EP!Affordable, E!Affordable, EP!Tick,
   E!Tick, EP!Value, E!Value, EP!View, E!View, EP!Lookup, E!Lookup, EP!IsBound,
   E!IsBound, EP!Binder, E!Binder, EP!Binders, E!Binders, EP!Name, E!Name,
   EP!DerivedName, E!DerivedName, EP!SetOrDefine, E!SetOrDefine, EP!Assign, E!Assign,
   EP!Define, E!Define

LEMMA SameDeriveFail == E!DeriveFail => EP!DeriveFail
BY Zenon DEF EP!DeriveFail, E!DeriveFail, EP!Affordable, E!Affordable, EP!Tick,
   E!Tick, EP!Value, E!Value, EP!View, E!View, EP!Lookup, E!Lookup, EP!IsBound,
   E!IsBound, EP!Binder, E!Binder, EP!Binders, E!Binders, EP!Name, E!Name,
   EP!DerivedName, E!DerivedName, EP!EmptyScope, E!EmptyScope

LEMMA SameStartChecks == E!StartChecks => EP!StartChecks
BY Zenon DEF EP!StartChecks, E!StartChecks

LEMMA SameCheckPass == E!CheckPass => EP!CheckPass
BY Zenon DEF EP!CheckPass, E!CheckPass, EP!Affordable, E!Affordable, EP!Tick, E!Tick,
   EP!View, E!View, EP!Lookup, E!Lookup, EP!IsBound, E!IsBound, EP!Binder, E!Binder,
   EP!Binders, E!Binders, EP!Name, E!Name, EP!DerivedName, E!DerivedName

LEMMA SameCheckFail == E!CheckFail => EP!CheckFail
BY Zenon DEF EP!CheckFail, E!CheckFail, EP!Affordable, E!Affordable, EP!Tick, E!Tick,
   EP!View, E!View, EP!Lookup, E!Lookup, EP!IsBound, E!IsBound, EP!Binder, E!Binder,
   EP!Binders, E!Binders, EP!Name, E!Name, EP!DerivedName, E!DerivedName,
   EP!RestoreGlobal, E!RestoreGlobal

LEMMA SameCommit == E!Commit => EP!Commit
BY Zenon DEF EP!Commit, E!Commit, EP!EmptyScope, E!EmptyScope, EP!Name, E!Name,
   EP!DerivedName, E!DerivedName

LEMMA SameRolledBack == E!RolledBack => EP!RolledBack
BY Zenon DEF EP!RolledBack, E!RolledBack, EP!EmptyScope, E!EmptyScope, EP!Name,
   E!Name, EP!DerivedName, E!DerivedName

LEMMA EvalSteps == [Next]_pvars => [EP!Next]_(EP!vars)
<1> SUFFICES ASSUME [Next]_pvars PROVE [EP!Next]_(EP!vars)
  OBVIOUS
<1>1. CASE PCall
  BY <1>1, SameDispatch, SameCallUpdate, SameCallHandleEvent, Zenon
     DEF PCall, EP!Next, EP!Host
<1>2. CASE PBody
  <2>1. CASE PSet
    BY <2>1, SameSetStmt, Zenon DEF PSet, EP!Next, EP!Stmt
  <2>2. CASE PPlain
    BY <2>2, SameLetStmt, SameEnterMatch, Zenon DEF PPlain, EP!Next, EP!Stmt
  <2>3. CASE PExitMatch
    BY <2>3, SameExitMatch, Zenon DEF PExitMatch, EP!Next, EP!Stmt
  <2>4. CASE PEndBody
    BY <2>4, SameEndBody, Zenon DEF PEndBody, EP!Next, EP!Stmt
  <2>5. CASE PFor
    BY <2>5, SameEnterFor, SameNextItem, SameExitFor, Zenon
       DEF PFor, EP!Next, EP!Stmt
  <2> QED BY <1>2, <2>1, <2>2, <2>3, <2>4, <2>5, Zenon DEF PBody
<1>3. CASE PFail
  BY <1>3, SameFail, Zenon DEF PFail, EP!Next, EP!Stmt
<1>4. CASE EvalEpilogue
  BY <1>4, SameDeriveStep, SameDeriveFail, SameStartChecks, SameCheckPass,
     SameCheckFail, SameCommit, SameRolledBack, Zenon
     DEF EvalEpilogue, EP!Next, EP!Finish
<1>5. CASE WasmEpilogue \/ OutOfBudget \/ UNCHANGED pvars
  BY <1>5 DEF WasmEpilogue, OutOfBudget, evars, pvars, EP!vars
<1> QED BY <1>1, <1>2, <1>3, <1>4, <1>5, Zenon DEF Next

-----------------------------------------------------------------------------
(* What every reachable state keeps, however the two disagree.              *)

GlobalInv ==
  /\ EP!EvalInv
  /\ GlobalOK(env)
  /\ ephase \in {"body", "derive", "check"} => Based(esnapshot)
  /\ ephase # "render"
  /\ state \in W!Record /\ wsnapshot \in W!Record
  /\ widx \in Nat \ {0}

LEMMA GlobalTypes ==
  ASSUME GlobalInv
  PROVE  /\ eidx \in Nat \ {0} /\ egas \in Nat /\ EvalGas \in Nat
         /\ ephase \in {"idle", "body", "derive", "check", "rederive"}
         /\ frames \in Seq(E!Frame)
<1>1. EP!TypeOK
  BY ProofAssumptions, EP!EvalInvTypes DEF GlobalInv
<1>2. EvalGas \in Nat
  BY EvalAssumptions DEF E!BoundsAssumption
<1>3. EP!Frame = E!Frame
  BY DEF EP!Frame, E!Frame
<1> QED BY <1>1, <1>2, <1>3 DEF EP!TypeOK, EP!Phase, GlobalInv

LEMMA LocalScope ==
  ASSUME NoShadow, NEW n \in Local, NEW v \in E!Slot
  PROVE  [E!EmptyScope EXCEPT ![n] = v] \in E!Scope
         /\ ~Hides([E!EmptyScope EXCEPT ![n] = v])
<1>1. n \in E!Name /\ \A x \in Known : x \in E!Name /\ x # n
  BY KnownNames
<1> QED BY <1>1 DEF E!EmptyScope, E!Scope, E!Slot, Hides

LEMMA LocalSlot == ASSUME NEW v \in LocalVal \cup {Unbound} PROVE v \in E!Slot
BY EvalAssumptions DEF E!ValueAssumption, E!Slot

\* A call begins: its scope binds parameters.
LEMMA CallEffect ==
  ASSUME NoShadow, GlobalInv, E!Dispatch \/ E!CallUpdate \/ E!CallHandleEvent
  PROVE  /\ GlobalOK(env') /\ Shown(env') = Shown(env)
         /\ Based(esnapshot') /\ Rec(esnapshot') = Shown(env)
         /\ ephase' = "body" /\ egas' = egas
<1>1. PICK s \in E!Scope : ~Hides(s) /\ E!Begin(s)
  <2>1. CASE E!Dispatch
    <3>1. PICK s \in E!Bindings : E!Begin(s)
      BY <2>1 DEF E!Dispatch
    <3>2. s \in E!Scope /\ ~Hides(s)
      BY KnownNames DEF E!Bindings, Hides
    <3> QED BY <3>1, <3>2
  <2>2. CASE E!CallUpdate
    BY <2>2, LocalScope, LocalSlot DEF E!CallUpdate
  <2>3. CASE E!CallHandleEvent
    BY <2>3, LocalScope, LocalSlot DEF E!CallHandleEvent
  <2> QED BY <2>1, <2>2, <2>3
<1>2. GlobalOK(env) /\ Based(env[1])
  BY DEF GlobalInv, GlobalOK
<1>3. /\ env' = E!PushScope(env, s) /\ esnapshot' = env[1]
      /\ ephase' = "body" /\ egas' = egas
  BY <1>1 DEF E!Begin
<1> QED BY <1>1, <1>2, <1>3, PushLocals DEF Shown

LEMMA SetEffect ==
  ASSUME GlobalInv, NEW f \in Field, NEW v \in Val, E!SetStmt(f, v)
  PROVE  GlobalOK(env') /\ Shown(env') = [Shown(env) EXCEPT ![f] = v]
<1>1. f \in W!Key /\ GlobalOK(env) /\ env' = E!Assign(env, f, v)
  BY KnownNames DEF GlobalInv, E!SetStmt
<1> QED BY <1>1, AssignField

\* A statement that binds, or a scope that is left.
LEMMA LocalEffect ==
  ASSUME NoShadow, GlobalInv,
         \/ \E n \in Local, v \in LocalVal : E!LetStmt(n, v)
         \/ \E n \in Local, v \in LocalVal \cup {Unbound} : E!EnterMatch(n, v)
         \/ E!ExitMatch
         \/ \E n \in Local, v \in LocalVal, len \in 1..MaxItems : E!EnterFor(n, v, len)
         \/ \E v \in LocalVal : E!NextItem(v)
         \/ E!ExitFor \/ E!EndBody \/ E!Fail
  PROVE  GlobalOK(env') /\ Shown(env') = Shown(env)
<1>0. GlobalOK(env)
  BY DEF GlobalInv
<1>1. CASE \E n \in Local, v \in LocalVal : E!LetStmt(n, v)
  BY <1>0, <1>1, DefineLocal, LocalSlot DEF E!LetStmt
<1>2. CASE \/ \E n \in Local, v \in LocalVal \cup {Unbound} : E!EnterMatch(n, v)
           \/ \E n \in Local, v \in LocalVal, len \in 1..MaxItems : E!EnterFor(n, v, len)
  <2>1. PICK n \in Local, v \in LocalVal \cup {Unbound} :
          env' = E!PushScope(env, [E!EmptyScope EXCEPT ![n] = v])
    BY <1>2, Zenon DEF E!EnterMatch, E!EnterFor
  <2> QED BY <1>0, <2>1, LocalSlot, LocalScope, PushLocals
<1>3. CASE E!ExitMatch \/ E!ExitFor \/ E!EndBody
  BY <1>0, <1>3, PopLocals DEF E!ExitMatch, E!ExitFor, E!EndBody
<1>4. CASE \E v \in LocalVal : E!NextItem(v)
  <2>1. PICK v \in LocalVal : E!NextItem(v)
    BY <1>4
  <2>2. frames # <<>> /\ env' = E!Define(env, frames[Len(frames)].item, v)
    BY <2>1 DEF E!NextItem, E!InnermostFrame
  <2>3. Len(frames) \in 1..Len(frames)
    BY <2>2, GlobalTypes, EmptySeq, LenProperties
  <2>4. frames[Len(frames)] \in E!Frame
    BY <2>3, GlobalTypes, ElementOfSeq
  <2>5. frames[Len(frames)].item \in Local
    BY <2>4 DEF E!Frame
  <2> QED BY <1>0, <2>2, <2>5, DefineLocal, LocalSlot
<1>5. CASE E!Fail
  <2>1. env' = E!Unwound
    BY <1>5 DEF E!Fail, E!Unwind
  <2>2. PICK k \in 1..Len(env) : E!Unwound = SubSeq(env, 1, k)
    <3>1. EP!StackInv
      BY DEF GlobalInv, EP!EvalInv
    <3> DEFINE k == Len(env) - EP!OpenMatches - EP!Depth
    <3>2. EP!Unwound = SubSeq(env, 1, k)
      BY DEF EP!Unwound, EP!Depth
    <3>3. EP!OpenMatches \in Nat /\ EP!OpenMatches <= Len(frames)
      BY <3>1, ProofAssumptions, EP!MatchesAreFrames DEF EP!StackInv
    <3>4. k \in 1..Len(env)
      <4>1. EP!Depth \in 0..1 /\ Len(env) >= 1 + EP!Depth + Len(frames)
        BY <3>1 DEF EP!StackInv, EP!ScopesSuffice, EP!Depth
      <4>2. Len(env) \in Nat /\ Len(frames) \in Nat
        BY <1>0, StackOK, GlobalTypes, LenProperties
      <4> QED BY <3>3, <4>1, <4>2
    <3>5. E!Unwound = EP!Unwound
      BY SameMatches DEF E!Unwound, EP!Unwound
    <3> QED BY <3>2, <3>4, <3>5
  <2> QED BY <1>0, <2>1, <2>2, CutLocals
<1> QED BY <1>1, <1>2, <1>3, <1>4, <1>5

LEMMA DeriveEffect ==
  ASSUME GlobalInv, E!DeriveStep
  PROVE  /\ eidx \in DOMAIN Derived
         /\ GlobalOK(env')
         /\ Der(eidx, Shown(env)) \in Val
         /\ Shown(env') = [Shown(env) EXCEPT ![Derived[eidx]] = Der(eidx, Shown(env))]
<1>1. eidx \in DOMAIN Derived
  BY GlobalTypes, SpaceFacts DEF E!DeriveStep
<1>2. E!Value = Der(eidx, Shown(env)) /\ Shown(env) \in W!Record
  BY <1>1, SameReading DEF E!Value, GlobalInv
<1>3. /\ E!Value # Trap
      /\ env' = E!SetOrDefine(env, Derived[eidx], E!Value)
  BY DEF E!DeriveStep
<1>4. E!Value \in Val
  BY <1>1, <1>2, <1>3, DerType
<1>5. GlobalOK(env) /\ Derived[eidx] \in W!Key
  BY <1>1, SpaceFacts DEF GlobalInv
<1> QED BY <1>1, <1>2, <1>3, <1>4, <1>5, AssignField

LEMMA RestoreEffect ==
  ASSUME GlobalInv, E!CheckFail
  PROVE  GlobalOK(env') /\ Shown(env') = Rec(esnapshot)
<1>1. GlobalOK(env) /\ Based(esnapshot) /\ env' = E!RestoreGlobal(env, esnapshot)
  BY DEF GlobalInv, E!CheckFail
<1> QED BY <1>1, RestoreBased

\* The steps of either that touch nothing of the other's state.
LEMMA CheckedEffect ==
  ASSUME GlobalInv,
         \/ E!DeriveFail \/ E!StartChecks \/ E!CheckPass \/ E!Commit \/ E!RolledBack
  PROVE  env' = env /\ (ephase' \in {"body", "derive", "check"} => esnapshot' = esnapshot)
         /\ ephase' # "render"
         /\ (ephase' \in {"body", "derive", "check"} =>
               ephase \in {"body", "derive", "check"})
BY Zenon DEF E!DeriveFail, E!StartChecks, E!CheckPass, E!Commit, E!RolledBack, GlobalInv

LEMMA RecordWrite ==
  ASSUME NEW r \in W!Record, NEW n \in W!Key, NEW v \in Val
  PROVE  [r EXCEPT ![n] = v] \in W!Record
BY DEF W!Record

LEMMA WasmTypes ==
  ASSUME GlobalInv, [Next]_pvars
  PROVE  state' \in W!Record /\ wsnapshot' \in W!Record /\ widx' \in Nat \ {0}
<1>0. state \in W!Record /\ wsnapshot \in W!Record /\ widx \in Nat \ {0}
  BY DEF GlobalInv
<1>1. CASE PCall
  <2>1. /\ state' = state /\ widx' = widx
        /\ wsnapshot' = state \/ wsnapshot' = wsnapshot
    BY <1>1, Zenon DEF PCall, W!DispatchAction, W!Update, W!HandleEvent, W!GameLoop,
       W!GameLoopTraps
  <2> QED BY <1>0, <2>1
<1>2. CASE PSet
  <2>1. PICK f \in Field, v \in Val : W!SetStmt(f, v)
    BY <1>2, Zenon DEF PSet
  <2>2. /\ state' = [state EXCEPT ![f] = v] /\ widx' = widx
        /\ wsnapshot' = wsnapshot
    BY <2>1 DEF W!SetStmt, W!SetField, W!Continue
  <2> QED BY <1>0, <2>2, KnownNames, RecordWrite
<1>3. CASE PPlain \/ PExitMatch \/ PFor
  <2>1. state' = state /\ wsnapshot' = wsnapshot /\ widx' = widx
    BY <1>3, Zenon DEF PPlain, PExitMatch, PFor, pwvars, W!PlainStmt, W!EnterFor,
       W!NextItem, W!ExitFor, W!Continue
  <2> QED BY <1>0, <2>1
<1>4. CASE PEndBody
  <2>1. state' = state /\ wsnapshot' = wsnapshot /\ widx' = 1
    BY <1>4 DEF PEndBody, W!EndBody
  <2> QED BY <1>0, <2>1
<1>5. CASE PFail \/ EvalEpilogue \/ OutOfBudget \/ UNCHANGED pvars
  <2>1. state' = state /\ wsnapshot' = wsnapshot /\ widx' = widx
    BY <1>5, Zenon DEF PFail, W!TrapStmt, EvalEpilogue, pwvars, OutOfBudget, pvars
  <2> QED BY <1>0, <2>1
<1>6. CASE WasmEpilogue
  <2>1. CASE W!DeriveStep
    <3>1. widx \in DOMAIN Derived
      BY <1>0, <2>1, SpaceFacts DEF W!DeriveStep
    <3>2. /\ state' = [state EXCEPT ![Derived[widx]] = W!Value] /\ W!Value # Trap
          /\ widx' = widx + 1 /\ wsnapshot' = wsnapshot
      BY <2>1 DEF W!DeriveStep, W!SetField
    <3>3. W!Value \in Val
      BY <1>0, <3>1, <3>2, DerType, SeenIsView DEF W!Value, Der
    <3>4. Derived[widx] \in W!Key
      BY <3>1, SpaceFacts
    <3>5. [state EXCEPT ![Derived[widx]] = W!Value] \in W!Record
      BY <1>0, <3>3, <3>4, RecordWrite
    <3> QED BY <1>0, <3>2, <3>5
  <2>2. CASE W!EpilogueTrap \/ W!EndDerive \/ W!EndDispatch \/ W!CheckFail
    <3>1. /\ state' = state \/ state' = wsnapshot
          /\ wsnapshot' = wsnapshot /\ widx' \in {widx, 1}
      BY <2>2 DEF W!EpilogueTrap, W!EndDerive, W!EndDispatch, W!CheckFail
    <3> QED BY <1>0, <3>1
  <2>3. CASE W!CheckPass
    <3>1. state' = state /\ wsnapshot' = wsnapshot /\ widx' = widx + 1
      BY <2>3 DEF W!CheckPass
    <3> QED BY <1>0, <3>1
  <2> QED BY <1>6, <2>1, <2>2, <2>3 DEF WasmEpilogue
<1> QED BY <1>1, <1>2, <1>3, <1>4, <1>5, <1>6, Zenon DEF Next, PBody

LEMMA NextGlobal ==
  ASSUME NoShadow, GlobalInv, [Next]_pvars
  PROVE  GlobalInv'
<1>1. EP!EvalInv'
  BY EvalSteps, EvalStepKeeps DEF GlobalInv
<1>2. state' \in W!Record /\ wsnapshot' \in W!Record /\ widx' \in Nat \ {0}
  BY WasmTypes
<1> DEFINE Called(p) == p \in {"body", "derive", "check"}
           Mine == /\ GlobalOK(env') /\ ephase' # "render"
                   /\ Called(ephase') => Based(esnapshot')
<1>0. /\ GlobalOK(env) /\ ephase # "render"
      /\ Called(ephase) => Based(esnapshot)
  BY DEF GlobalInv
<1>3. ASSUME PCall PROVE Mine
  BY <1>3, CallEffect, Zenon DEF PCall
<1>4. ASSUME PBody \/ PFail PROVE Mine
  <2>1. GlobalOK(env')
    <3>1. CASE PSet
      BY <3>1, SetEffect, Zenon DEF PSet
    <3>2. CASE PPlain
      BY <3>2, LocalEffect, Zenon DEF PPlain
    <3>3. CASE PExitMatch \/ PEndBody \/ PFail
      BY <3>3, LocalEffect, Zenon DEF PExitMatch, PEndBody, PFail
    <3>4. CASE PFor
      BY <3>4, LocalEffect, Zenon DEF PFor
    <3> QED BY <1>4, <3>1, <3>2, <3>3, <3>4, Zenon DEF PBody
  <2>2. CASE PFail
    <3>1. ephase' = "idle"
      BY <2>2 DEF PFail, E!Fail
    <3> QED BY <2>1, <3>1
  <2>3. CASE PEndBody
    <3>1. ephase = "body" /\ ephase' = "derive" /\ esnapshot' = esnapshot
      BY <2>3 DEF PEndBody, E!EndBody
    <3> QED BY <1>0, <2>1, <3>1
  <2>4. CASE PSet \/ PPlain \/ PExitMatch \/ PFor
    <3>1. ephase' = ephase /\ esnapshot' = esnapshot
      BY <2>4, Zenon DEF PSet, PPlain, PExitMatch, PFor, E!SetStmt, E!LetStmt, E!EnterMatch,
         E!ExitMatch, E!EnterFor, E!NextItem, E!ExitFor, E!Continue
    <3> QED BY <1>0, <2>1, <3>1
  <2> QED BY <1>4, <2>2, <2>3, <2>4, Zenon DEF PBody
<1>5. ASSUME EvalEpilogue PROVE Mine
  <2>1. CASE E!DeriveStep
    <3>1. ephase' = ephase /\ esnapshot' = esnapshot
      BY <2>1 DEF E!DeriveStep
    <3> QED BY <1>0, <2>1, <3>1, DeriveEffect
  <2>2. CASE E!CheckFail
    <3>1. ephase' = "rederive"
      BY <2>2 DEF E!CheckFail
    <3> QED BY <2>2, <3>1, RestoreEffect
  <2>3. CASE E!DeriveFail \/ E!StartChecks \/ E!CheckPass \/ E!Commit \/ E!RolledBack
    BY <1>0, <2>3, CheckedEffect, Zenon
  <2> QED BY <1>5, <2>1, <2>2, <2>3, Zenon DEF EvalEpilogue
<1>6. ASSUME WasmEpilogue \/ OutOfBudget \/ UNCHANGED pvars PROVE Mine
  BY <1>0, <1>6 DEF WasmEpilogue, evars, OutOfBudget, pvars
<1>7. Mine
  BY <1>3, <1>4, <1>5, <1>6, Zenon DEF Next
<1> QED BY <1>1, <1>2, <1>7 DEF GlobalInv, GlobalOK, Based

\* Both are constructed with the same record, its derived fields computed.
LEMMA InitRecord ==
  ASSUME PInit
  PROVE  /\ GlobalOK(env) /\ Shown(env) = state /\ AllFresh(state)
<1>1. PICK g \in E!Scope :
        /\ \A f \in Field : g[f] \in InitialVal
        /\ \A c \in Cred : g[c] = Nil
        /\ \A i \in DOMAIN Derived : g[Derived[i]] = Derive(i, g)
        /\ env = <<g>>
  BY Zenon DEF PInit, E!Init
<1>2. Based(g)
  <2>1. \A f \in Field : g[f] \in Val
    BY <1>1, SpaceFacts
  <2>2. \A i \in DOMAIN Derived : g[Derived[i]] \in Val
    <3> TAKE i \in DOMAIN Derived
    <3>1. g[Derived[i]] \in Val \cup {Unbound}
      BY SpaceFacts, KnownNames DEF E!Scope, E!Slot
    <3>2. Derive(i, g) \in Val \cup {Trap}
      BY EvalAssumptions DEF E!ValueAssumption
    <3> QED BY <1>1, <3>1, <3>2, SpaceFacts
  <2> QED BY <1>1, <2>1, <2>2, SpaceFacts DEF Based
<1>3. GlobalOK(env) /\ env[1] = g
  BY <1>1, <1>2 DEF GlobalOK
<1>4. state = Rec(g) /\ Shown(env) = Rec(g)
  BY <1>3 DEF PInit, Rec, Shown
<1>5. \A i \in DOMAIN Derived : Derive(i, g) = Der(i, Rec(g))
  <2>1. Rec(g) \in W!Record /\ \A n \in W!Key : g[n] = Rec(g)[n]
    BY <1>2, BasedRecord DEF Rec
  <2> QED BY <1>2, <2>1, SameExpressions DEF Based, Der
<1>6. AllFresh(Rec(g))
  BY <1>1, <1>5, SpaceFacts DEF AllFresh, Rec
<1> QED BY <1>3, <1>4, <1>6

LEMMA InitGlobal == PInit => GlobalInv
<1> SUFFICES ASSUME PInit PROVE GlobalInv
  OBVIOUS
<1>1. EP!EvalInv
  <2>1. EP!Init
    BY Zenon DEF PInit, E!Init, EP!Init, EP!Scope, E!Scope, EP!Name, E!Name, EP!DerivedName,
       E!DerivedName, EP!Slot, E!Slot, EP!EmptyScope, E!EmptyScope
  <2> QED BY <2>1, ProofAssumptions, EP!InitEvalInv
<1>2. GlobalOK(env) /\ Shown(env) \in W!Record
  BY InitRecord, BasedRecord DEF GlobalOK, Shown
<1>3. ephase = "idle"
  BY DEF PInit, E!Init
<1>4. state \in W!Record /\ wsnapshot \in W!Record /\ widx \in Nat \ {0}
  <2>1. state \in W!Record
    BY <1>2, InitRecord
  <2>2. wsnapshot = state /\ widx = 1
    BY DEF PInit
  <2> QED BY <2>1, <2>2
<1> QED BY <1>1, <1>2, <1>3, <1>4 DEF GlobalInv

-----------------------------------------------------------------------------
(* How the two stand to each other at every step.                           *)

Broken(r) == \E i \in 1..NumInvariants : ~Good(i, r)

\* What a dispatch needs of the two snapshots.
SnapshotsAgree ==
  /\ entry # "init"
  /\ entry = "dispatch" =>
       Rec(esnapshot) = wsnapshot /\ (~faulted => AllFresh(wsnapshot))

\* The evaluator refuses the record m, and so will the module; what the
\* evaluator restores is what the module will.
Refused ==
  /\ entry = "dispatch" /\ ~faulted
  /\ Shown(env) = wsnapshot /\ AllFresh(wsnapshot)
  /\ \E m \in W!Record : SameFields(m, state) /\ AllFresh(m) /\ Broken(m)

InBody ==
  /\ ephase = "body" /\ wphase = "body"
  /\ Shown(env) = state /\ SnapshotsAgree

EvalDerives ==
  /\ ephase = "derive" /\ wphase = "derive" /\ widx = 1 /\ SnapshotsAgree
  /\ SameFields(Shown(env), state)
  /\ FreshTo(Shown(env), eidx) /\ SameFrom(Shown(env), state, eidx)

EvalChecks ==
  /\ ephase = "check" /\ wphase = "derive" /\ widx = 1 /\ SnapshotsAgree
  /\ SameFields(Shown(env), state)
  /\ AllFresh(Shown(env)) /\ GoodTo(Shown(env), eidx)

EvalRestores ==
  ephase = "rederive" /\ wphase = "derive" /\ widx = 1 /\ Refused

\* The evaluator is done and the module is not: how the one ended settles how
\* the other will.
Accepts ==
  /\ eoutcome = "committed"
  /\ SameFields(Shown(env), state) /\ AllFresh(Shown(env)) /\ ~Broken(Shown(env))

Rejects == eoutcome = "rolledback" /\ Refused

GetsStuck ==
  /\ eoutcome = "fault" /\ faulted /\ wphase = "derive"
  /\ eidx \in DOMAIN Derived /\ widx <= eidx
  /\ Der(eidx, Shown(env)) = Trap
  /\ SameFields(Shown(env), state)
  /\ FreshTo(Shown(env), eidx) /\ SameFrom(Shown(env), state, eidx)

WasmFollows ==
  /\ ephase = "idle" /\ entry # "init"
  /\ \/ wphase = "derive" /\ FreshTo(state, widx)
     \/ /\ wphase = "check" /\ entry = "dispatch"
        /\ AllFresh(state) /\ GoodTo(state, widx)
  /\ Accepts \/ Rejects \/ GetsStuck

SameOutcome ==
  /\ eoutcome = "committed" <=> (woutcome = "done" /\ entry # "init")
  /\ eoutcome = "rolledback" <=> woutcome = "violated"

AtRest ==
  /\ BothIdle /\ Shown(env) = state /\ SameOutcome
  /\ ~faulted => AllFresh(state)

Live == ~spoiled /\ egas <= EvalGas

Joint ==
  Live => \/ InBody \/ EvalDerives \/ EvalChecks \/ EvalRestores
          \/ WasmFollows \/ AtRest

\* The module's budget is not reached, and no invariant traps.
Within == wgas < WasmGas
NeverTraps ==
  \A i \in 1..NumInvariants, rec \in W!Record : ~Traps(i, W!WasmView(rec))

LEMMA FreshStep ==
  ASSUME NEW r \in W!Record, NEW k \in DOMAIN Derived, Der(k, r) \in Val, NEW s,
         s = [r EXCEPT ![Derived[k]] = Der(k, r)]
  PROVE  /\ s \in W!Record /\ SameFields(s, r)
         /\ \A i \in DOMAIN Derived : i # k => s[Derived[i]] = r[Derived[i]]
         /\ FreshTo(r, k) => FreshTo(s, k + 1)
         /\ AllFresh(r) => s = r
<1>1. /\ \A i \in DOMAIN Derived : Derived[i] \in W!Key /\ Derived[i] \notin Field
      /\ \A i \in DOMAIN Derived : i # k => Derived[i] # Derived[k]
      /\ Field \subseteq W!Key /\ DOMAIN Derived = 1..Len(Derived)
      /\ Len(Derived) \in Nat
  BY SpaceFacts, KnownNames
<1>2. s \in W!Record
  BY <1>1, RecordWrite
<1>3. \A n \in W!Key : s[n] = IF n = Derived[k] THEN Der(k, r) ELSE r[n]
  BY <1>1 DEF W!Record
<1>4. SameFields(s, r)
  BY <1>1, <1>3 DEF SameFields
<1>5. \A i \in DOMAIN Derived : i # k => s[Derived[i]] = r[Derived[i]]
  BY <1>1, <1>3
<1>6. ASSUME FreshTo(r, k) PROVE FreshTo(s, k + 1)
  <2> SUFFICES ASSUME NEW i \in DOMAIN Derived, i < k + 1
               PROVE  s[Derived[i]] = Der(i, s)
    BY DEF FreshTo
  <2>1. i <= k /\ (i = k \/ i < k)
    BY <1>1
  <2>2. Der(i, s) = Der(i, r)
    BY <2>1, DerOrder
  <2>3. CASE i = k
    BY <1>1, <1>3, <2>2, <2>3
  <2>4. CASE i < k
    <3>1. i # k
      BY <1>1, <2>4
    <3> QED BY <1>5, <1>6, <2>2, <2>4, <3>1 DEF FreshTo
  <2> QED BY <2>1, <2>3, <2>4
<1>7. ASSUME AllFresh(r) PROVE s = r
  BY <1>7 DEF AllFresh, W!Record
<1> QED BY <1>2, <1>4, <1>5, <1>6, <1>7

LEMMA FreshAll ==
  ASSUME NEW r, NEW k \in Nat, k > Len(Derived), FreshTo(r, k)
  PROVE  AllFresh(r)
BY SpaceFacts DEF FreshTo, AllFresh

LEMMA AllFreshTo ==
  ASSUME NEW r, NEW k, AllFresh(r) PROVE FreshTo(r, k)
BY DEF FreshTo, AllFresh

LEMMA RecordsEqual ==
  ASSUME NEW r \in W!Record, NEW s \in W!Record, SameFields(r, s),
         \A i \in DOMAIN Derived : r[Derived[i]] = s[Derived[i]]
  PROVE  r = s
<1>1. \A n \in W!Key : r[n] = s[n]
  BY SpaceFacts DEF SameFields
<1> QED BY <1>1 DEF W!Record

LEMMA FreshEqual ==
  ASSUME NEW r \in W!Record, NEW s \in W!Record, SameFields(r, s),
         AllFresh(r), AllFresh(s)
  PROVE  r = s
<1> DEFINE k == Len(Derived) + 1
<1>1. k \in Nat /\ \A i \in DOMAIN Derived : i < k
  BY SpaceFacts
<1>2. FreshTo(r, k) /\ FreshTo(s, k)
  BY AllFreshTo
<1> HIDE DEF k
<1>3. \A i \in DOMAIN Derived : r[Derived[i]] = s[Derived[i]]
  BY <1>1, <1>2, FreshAgree
<1> QED BY <1>3, RecordsEqual

\* A derived field is computed alike from records that agree so far.
LEMMA DerAlike ==
  ASSUME NEW r \in W!Record, NEW s \in W!Record, SameFields(r, s),
         NEW i \in DOMAIN Derived, FreshTo(r, i), FreshTo(s, i)
  PROVE  Der(i, r) = Der(i, s)
<1>1. i \in Nat
  BY SpaceFacts
<1>2. \A j \in DOMAIN Derived : j < i => r[Derived[j]] = s[Derived[j]]
  BY <1>1, FreshAgree
<1> QED BY <1>2, DerDetermined

LEMMA FreshIsValue ==
  ASSUME NEW r \in W!Record, NEW i \in DOMAIN Derived, r[Derived[i]] = Der(i, r)
  PROVE  Der(i, r) \in Val /\ Der(i, r) # Trap
<1>1. r[Derived[i]] \in Val
  BY SpaceFacts DEF W!Record
<1> QED BY <1>1, SpaceFacts

LEMMA ShownRecord == GlobalInv => Shown(env) \in W!Record
BY SameReading DEF GlobalInv

\* A budget once overrun, and a history once spoiled, stay so.
LEMMA LiveBefore ==
  ASSUME GlobalInv, [Next]_pvars, Live' PROVE Live
<1>1. egas \in Nat /\ EvalGas \in Nat
  BY GlobalTypes
<1>2. spoiled => spoiled'
  BY Zenon DEF Next, PCall, PBody, PFail, EvalEpilogue, WasmEpilogue, OutOfBudget, history, pvars
<1>3. egas' = egas \/ E!Tick
  <2>1. CASE PCall
    BY <2>1, CallEffect, Zenon DEF PCall, E!Dispatch, E!CallUpdate, E!CallHandleEvent, E!Begin
  <2>2. CASE PBody
    BY <2>2, Zenon DEF PBody, PSet, PPlain, PExitMatch, PEndBody, PFor, E!SetStmt, E!LetStmt,
       E!EnterMatch, E!ExitMatch, E!EnterFor, E!NextItem, E!ExitFor, E!EndBody, E!Statement
  <2>3. CASE PFail
    BY <2>3 DEF PFail, E!Fail
  <2>4. CASE EvalEpilogue
    BY <2>4, Zenon DEF EvalEpilogue, E!DeriveStep, E!DeriveFail, E!StartChecks, E!CheckPass,
       E!CheckFail, E!Commit, E!RolledBack
  <2>5. CASE WasmEpilogue \/ OutOfBudget \/ UNCHANGED pvars
    BY <2>5 DEF WasmEpilogue, evars, OutOfBudget, pvars
  <2> QED BY <2>1, <2>2, <2>3, <2>4, <2>5, Zenon DEF Next
<1>4. egas' <= EvalGas => egas <= EvalGas
  BY <1>1, <1>3 DEF E!Tick, E!Affordable
<1> QED BY <1>2, <1>4 DEF Live

-----------------------------------------------------------------------------
(* One step at a time.                                                      *)

LEMMA CallJoint ==
  ASSUME NoShadow, GlobalInv, Joint, Live, Within, PCall PROVE Joint'
<1>1. ephase = "idle" /\ wphase = "idle" /\ faulted' = faulted
  BY DEF PCall, BothIdle, history
<1>2. Shown(env) = state /\ (~faulted => AllFresh(state))
  BY <1>1, Zenon DEF Joint, InBody, EvalDerives, EvalChecks, EvalRestores, WasmFollows, AtRest
<1>3. /\ Shown(env') = Shown(env) /\ Rec(esnapshot') = Shown(env)
      /\ ephase' = "body"
  BY CallEffect, Zenon DEF PCall
<1>4. CASE W!DispatchAction
  <2>1. /\ state' = state /\ wsnapshot' = state /\ wphase' = "body"
        /\ entry' = "dispatch"
    BY <1>4 DEF W!DispatchAction
  <2> QED BY <1>1, <1>2, <1>3, <2>1 DEF Joint, InBody, SnapshotsAgree
<1>5. CASE W!Update \/ W!HandleEvent
  <2>1. ~W!GameLoopTraps("update") /\ ~W!GameLoopTraps("event")
    BY DEF W!GameLoopTraps, W!Affordable, Within
  <2>2. state' = state /\ wphase' = "body" /\ entry' \in {"update", "event"}
    BY <1>5, <2>1, Zenon DEF W!Update, W!HandleEvent, W!GameLoop
  <2> QED BY <1>1, <1>2, <1>3, <2>2 DEF Joint, InBody, SnapshotsAgree
<1> QED BY <1>4, <1>5, Zenon DEF PCall

LEMMA InBodyFacts ==
  ASSUME GlobalInv, Joint, Live, ephase = "body"
  PROVE  wphase = "body" /\ Shown(env) = state /\ SnapshotsAgree
BY Zenon
   DEF Joint, InBody, EvalDerives, EvalChecks, EvalRestores, WasmFollows, AtRest, BothIdle

LEMMA BodyPhase == ASSUME GlobalInv, PBody \/ PFail PROVE ephase = "body"
<1>1. CASE PSet
  BY <1>1, Zenon DEF PSet, E!SetStmt
<1>2. CASE PPlain \/ PExitMatch \/ PEndBody \/ PFor \/ PFail
  <2>1. E!Running \/ ephase = "body"
    BY <1>2, Zenon DEF PPlain, PExitMatch, PEndBody, PFor, PFail, E!LetStmt, E!EnterMatch,
       E!ExitMatch, E!EnterFor, E!NextItem, E!ExitFor, E!EndBody, E!Fail, E!Statement
  <2> QED BY <2>1 DEF E!Running, GlobalInv
<1> QED BY <1>1, <1>2, Zenon DEF PBody

LEMMA BodyJoint ==
  ASSUME NoShadow, GlobalInv, Joint, Live, PBody PROVE Joint'
<1>1. ephase = "body" /\ wphase = "body" /\ Shown(env) = state /\ SnapshotsAgree
  BY BodyPhase, InBodyFacts
<1>2. faulted' = faulted
  BY DEF PBody, history
<1>3. CASE PSet
  <2>1. PICK f \in Field, v \in Val : E!SetStmt(f, v) /\ W!SetStmt(f, v)
    BY <1>3, Zenon DEF PSet
  <2>2. Shown(env') = [Shown(env) EXCEPT ![f] = v] /\ state' = [state EXCEPT ![f] = v]
    BY <2>1, SetEffect DEF W!SetStmt, W!SetField
  <2>3. /\ ephase' = ephase /\ esnapshot' = esnapshot /\ wphase' = wphase
        /\ entry' = entry /\ wsnapshot' = wsnapshot
    BY <2>1 DEF E!SetStmt, E!Continue, W!SetStmt, W!Continue
  <2> QED BY <1>1, <1>2, <2>2, <2>3 DEF Joint, InBody, SnapshotsAgree
<1>4. CASE PPlain \/ PExitMatch \/ PFor
  <2>1. Shown(env') = Shown(env)
    BY <1>4, LocalEffect, Zenon DEF PPlain, PExitMatch, PFor
  <2>2. ephase' = ephase /\ esnapshot' = esnapshot
    BY <1>4, Zenon DEF PPlain, PExitMatch, PFor, E!LetStmt, E!EnterMatch, E!ExitMatch,
       E!EnterFor, E!NextItem, E!ExitFor, E!Continue
  <2>3. /\ state' = state /\ wphase' = wphase /\ entry' = entry
        /\ wsnapshot' = wsnapshot
    BY <1>4, Zenon DEF PPlain, PExitMatch, PFor, pwvars, W!PlainStmt, W!EnterFor,
       W!NextItem, W!ExitFor, W!Continue
  <2> QED BY <1>1, <1>2, <2>1, <2>2, <2>3 DEF Joint, InBody, SnapshotsAgree
<1>5. CASE PEndBody
  <2>1. Shown(env') = Shown(env)
    BY <1>5, LocalEffect, Zenon DEF PEndBody
  <2>2. ephase' = "derive" /\ eidx' = 1 /\ esnapshot' = esnapshot
    BY <1>5 DEF PEndBody, E!EndBody
  <2>3. /\ state' = state /\ wphase' = "derive" /\ widx' = 1 /\ entry' = entry
        /\ wsnapshot' = wsnapshot
    BY <1>5 DEF PEndBody, W!EndBody
  <2>4. FreshTo(Shown(env'), 1)
    BY SpaceFacts DEF FreshTo
  <2>5. SameFields(Shown(env'), state') /\ SameFrom(Shown(env'), state', 1)
    BY <1>1, <2>1, <2>3 DEF SameFields, SameFrom
  <2>6. SnapshotsAgree'
    BY <1>1, <1>2, <2>2, <2>3 DEF SnapshotsAgree
  <2> QED BY <2>2, <2>3, <2>4, <2>5, <2>6 DEF Joint, EvalDerives
<1> QED BY <1>3, <1>4, <1>5, Zenon DEF PBody

LEMMA FailJoint ==
  ASSUME NoShadow, GlobalInv, Joint, Live, PFail PROVE Joint'
<1>1. wphase = "body" /\ Shown(env) = state
  BY BodyPhase, InBodyFacts
<1>2. Shown(env') = Shown(env)
  BY LocalEffect, Zenon DEF PFail
<1>3. ephase' = "idle" /\ eoutcome' = "fault"
  BY DEF PFail, E!Fail
<1>4. state' = state /\ wphase' = "idle" /\ woutcome' = "trap" /\ faulted' = TRUE
  BY DEF PFail, W!TrapStmt
<1> QED BY <1>1, <1>2, <1>3, <1>4 DEF Joint, AtRest, BothIdle, SameOutcome

LEMMA EvalPhases ==
  ASSUME Joint, Live
  PROVE  /\ ephase = "derive" => EvalDerives
         /\ ephase = "check" => EvalChecks
         /\ ephase = "rederive" => EvalRestores
         /\ ephase = "idle" /\ wphase # "idle" => WasmFollows
         /\ ephase = "idle" /\ wphase = "idle" => AtRest
BY Zenon
   DEF Joint, InBody, EvalDerives, EvalChecks, EvalRestores, WasmFollows, AtRest, BothIdle

LEMMA EvalDeriveJoint ==
  ASSUME GlobalInv, Joint, Live, E!DeriveStep, UNCHANGED pwvars, UNCHANGED history
  PROVE  Joint'
<1> DEFINE r == Shown(env)
           s == Shown(env')
<1>1. /\ eidx \in DOMAIN Derived /\ Der(eidx, r) \in Val
      /\ s = [r EXCEPT ![Derived[eidx]] = Der(eidx, r)]
      /\ r \in W!Record /\ eidx \in Nat
  BY DeriveEffect, ShownRecord, GlobalTypes
<1>2. /\ ephase \in {"derive", "rederive"} /\ ephase' = ephase /\ eidx' = eidx + 1
      /\ esnapshot' = esnapshot
  BY DEF E!DeriveStep
<1>3. /\ state' = state /\ wphase' = wphase /\ entry' = entry /\ widx' = widx
      /\ wsnapshot' = wsnapshot /\ faulted' = faulted
  BY DEF pwvars, history
<1> HIDE DEF r, s
<1>4. /\ s \in W!Record /\ SameFields(s, r)
      /\ \A i \in DOMAIN Derived : i # eidx => s[Derived[i]] = r[Derived[i]]
      /\ FreshTo(r, eidx) => FreshTo(s, eidx + 1)
      /\ AllFresh(r) => s = r
  <2>1. s \in W!Record
    BY <1>1, FreshStep
  <2>2. SameFields(s, r)
    BY <1>1, FreshStep
  <2>3. \A i \in DOMAIN Derived : i # eidx => s[Derived[i]] = r[Derived[i]]
    BY <1>1, FreshStep
  <2>4. FreshTo(r, eidx) => FreshTo(s, eidx + 1)
    BY <1>1, FreshStep
  <2>5. AllFresh(r) => s = r
    BY <1>1, FreshStep
  <2> QED BY <2>1, <2>2, <2>3, <2>4, <2>5
<1>5. CASE ephase = "derive"
  <2>1. /\ wphase = "derive" /\ widx = 1 /\ SnapshotsAgree /\ SameFields(r, state)
        /\ FreshTo(r, eidx) /\ SameFrom(r, state, eidx)
    BY <1>5, EvalPhases DEF EvalDerives, r
  <2>2. SameFields(s, state)
    BY <1>4, <2>1 DEF SameFields
  <2>3. SameFrom(s, state, eidx + 1)
    <3>1. \A i \in DOMAIN Derived : i >= eidx + 1 => i >= eidx /\ i # eidx
      BY <1>1, SpaceFacts
    <3> QED BY <1>4, <2>1, <3>1 DEF SameFrom
  <2>4. SnapshotsAgree'
    BY <1>2, <1>3, <2>1 DEF SnapshotsAgree
  <2> QED BY <1>2, <1>3, <1>4, <1>5, <2>1, <2>2, <2>3, <2>4 DEF Joint, EvalDerives, s
<1>6. CASE ephase = "rederive"
  <2>1. wphase = "derive" /\ widx = 1 /\ Refused
    BY <1>6, EvalPhases DEF EvalRestores
  <2>2. s = r
    BY <1>4, <2>1 DEF Refused, r
  <2>3. Refused'
    BY <1>3, <2>1, <2>2 DEF Refused, r, s
  <2> QED BY <1>2, <1>3, <1>6, <2>1, <2>3 DEF Joint, EvalRestores
<1> QED BY <1>2, <1>5, <1>6

LEMMA EvalFaultJoint ==
  ASSUME GlobalInv, Joint, Live, E!DeriveFail, egas < EvalGas \/ eidx > Len(Derived),
         UNCHANGED pwvars, faulted' = TRUE
  PROVE  Joint'
<1> DEFINE r == Shown(env)
<1>1. /\ eidx \in DOMAIN Derived /\ eidx <= Len(Derived) /\ r \in W!Record
      /\ eidx \in Nat /\ egas \in Nat /\ EvalGas \in Nat
  BY ShownRecord, GlobalTypes, SpaceFacts DEF E!DeriveFail
<1>2. /\ ephase \in {"derive", "rederive"} /\ ephase' = "idle" /\ eoutcome' = "fault"
      /\ env' = env /\ eidx' = eidx
  BY DEF E!DeriveFail
<1>3. Der(eidx, r) = Trap
  <2>1. egas < EvalGas
    BY <1>1, SpaceFacts
  <2>2. E!Value = Trap
    BY <2>1 DEF E!DeriveFail, E!Affordable
  <2> QED BY <1>1, <2>2, SameReading DEF E!Value, GlobalInv
<1>4. state' = state /\ wphase' = wphase /\ entry' = entry /\ widx' = widx
  BY DEF pwvars
<1>5. ephase = "derive"
  <2> SUFFICES ASSUME ephase = "rederive" PROVE FALSE
    BY <1>2
  <2>1. r[Derived[eidx]] = Der(eidx, r)
    BY <1>1, EvalPhases DEF EvalRestores, Refused, AllFresh
  <2> QED BY <1>1, <1>3, <2>1, FreshIsValue
<1>6. /\ wphase = "derive" /\ widx = 1 /\ entry # "init" /\ SameFields(r, state)
      /\ FreshTo(r, eidx) /\ SameFrom(r, state, eidx)
  BY <1>5, EvalPhases DEF EvalDerives, SnapshotsAgree
<1>7. widx <= eidx /\ FreshTo(state, widx)
  BY <1>1, <1>6, SpaceFacts DEF FreshTo
<1> QED BY <1>1, <1>2, <1>3, <1>4, <1>6, <1>7 DEF Joint, WasmFollows, GetsStuck

LEMMA EvalCheckJoint ==
  ASSUME GlobalInv, Joint, Live, E!StartChecks \/ E!CheckPass,
         UNCHANGED pwvars, UNCHANGED history
  PROVE  Joint'
<1> DEFINE r == Shown(env)
<1>1. r \in W!Record /\ eidx \in Nat \ {0}
  BY ShownRecord, GlobalTypes
<1>2. /\ state' = state /\ wphase' = wphase /\ entry' = entry /\ widx' = widx
      /\ wsnapshot' = wsnapshot /\ faulted' = faulted
  BY DEF pwvars, history
<1>3. env' = env /\ ephase' = "check" /\ esnapshot' = esnapshot
  BY DEF E!StartChecks, E!CheckPass
<1>4. CASE E!StartChecks
  <2>1. ephase = "derive" /\ eidx > Len(Derived) /\ eidx' = 1
    BY <1>4 DEF E!StartChecks
  <2>2. /\ wphase = "derive" /\ widx = 1 /\ SnapshotsAgree /\ SameFields(r, state)
        /\ FreshTo(r, eidx)
    BY <2>1, EvalPhases DEF EvalDerives
  <2>3. AllFresh(r) /\ GoodTo(r, 1)
    BY <1>1, <2>1, <2>2, FreshAll DEF GoodTo
  <2>4. SnapshotsAgree'
    BY <1>2, <1>3, <2>2 DEF SnapshotsAgree
  <2> QED BY <1>2, <1>3, <2>1, <2>2, <2>3, <2>4 DEF Joint, EvalChecks
<1>5. CASE E!CheckPass
  <2>1. /\ ephase = "check" /\ eidx <= NumInvariants /\ eidx' = eidx + 1
        /\ Holds(eidx, E!View(env))
    BY <1>5 DEF E!CheckPass
  <2>2. /\ wphase = "derive" /\ widx = 1 /\ SnapshotsAgree /\ SameFields(r, state)
        /\ AllFresh(r) /\ GoodTo(r, eidx)
    BY <2>1, EvalPhases DEF EvalChecks
  <2>3. eidx \in 1..NumInvariants
    BY <1>1, <2>1, SpaceFacts
  <2>4. Good(eidx, r)
    BY <2>1, <2>3, SameReading DEF GlobalInv
  <2>5. GoodTo(r, eidx + 1)
    <3>1. \A i \in 1..NumInvariants : i < eidx + 1 => i < eidx \/ i = eidx
      BY <1>1
    <3> QED BY <2>2, <2>4, <3>1 DEF GoodTo
  <2>6. SnapshotsAgree'
    BY <1>2, <1>3, <2>2 DEF SnapshotsAgree
  <2> QED BY <1>2, <1>3, <2>1, <2>2, <2>5, <2>6 DEF Joint, EvalChecks
<1> QED BY <1>4, <1>5

LEMMA EvalRestoreJoint ==
  ASSUME GlobalInv, Joint, Live, Live', E!CheckFail, UNCHANGED pwvars,
         spoiled' = (spoiled \/ faulted \/ entry # "dispatch"), faulted' = faulted
  PROVE  Joint'
<1> DEFINE r == Shown(env)
<1>1. /\ r \in W!Record /\ eidx \in Nat \ {0} /\ egas \in Nat /\ EvalGas \in Nat
  BY ShownRecord, GlobalTypes
<1>2. /\ state' = state /\ wphase' = wphase /\ entry' = entry /\ widx' = widx
      /\ wsnapshot' = wsnapshot
  BY DEF pwvars
<1>3. ephase = "check" /\ eidx <= NumInvariants /\ ephase' = "rederive"
  BY DEF E!CheckFail
<1>4. ~faulted /\ entry = "dispatch" /\ egas' <= EvalGas
  BY DEF Live
<1>5. E!Affordable
  BY <1>1, <1>4 DEF E!CheckFail, E!Tick
<1>6. eidx \in 1..NumInvariants
  BY <1>1, <1>3, SpaceFacts
<1>7. ~Good(eidx, r)
  <2>1. ~Holds(eidx, E!View(env))
    BY <1>5 DEF E!CheckFail
  <2> QED BY <1>6, <2>1, SameReading DEF GlobalInv
<1>8. /\ wphase = "derive" /\ widx = 1 /\ SnapshotsAgree
      /\ SameFields(r, state) /\ AllFresh(r)
  BY <1>3, EvalPhases DEF EvalChecks
<1>9. Shown(env') = wsnapshot /\ AllFresh(wsnapshot)
  BY <1>4, <1>8, RestoreEffect DEF SnapshotsAgree
<1>10. Broken(r)
  BY <1>6, <1>7 DEF Broken
<1>11. Refused'
  BY <1>1, <1>2, <1>4, <1>8, <1>9, <1>10 DEF Refused
<1> QED BY <1>2, <1>3, <1>8, <1>11 DEF Joint, EvalRestores

LEMMA EvalEndJoint ==
  ASSUME GlobalInv, Joint, Live, UNCHANGED pwvars,
         \/ E!Commit /\ faulted' = FALSE
         \/ E!RolledBack /\ UNCHANGED history
  PROVE  Joint'
<1> DEFINE r == Shown(env)
<1>1. eidx \in Nat \ {0}
  BY GlobalTypes
<1>2. /\ state' = state /\ wphase' = wphase /\ entry' = entry /\ widx' = widx
      /\ wsnapshot' = wsnapshot
  BY DEF pwvars
<1>3. env' = env /\ ephase' = "idle"
  BY DEF E!Commit, E!RolledBack
<1>4. FreshTo(state, 1)
  BY SpaceFacts DEF FreshTo
<1>5. CASE E!Commit
  <2>1. ephase = "check" /\ eidx > NumInvariants /\ eoutcome' = "committed"
    BY <1>5 DEF E!Commit
  <2>2. /\ wphase = "derive" /\ widx = 1 /\ entry # "init" /\ SameFields(r, state)
        /\ AllFresh(r) /\ GoodTo(r, eidx)
    BY <2>1, EvalPhases DEF EvalChecks, SnapshotsAgree
  <2>3. ~Broken(r)
    <3>1. \A i \in 1..NumInvariants : i < eidx
      BY <1>1, <2>1, SpaceFacts
    <3> QED BY <2>2, <3>1 DEF Broken, GoodTo
  <2> QED BY <1>2, <1>3, <1>4, <2>1, <2>2, <2>3 DEF Joint, WasmFollows, Accepts
<1>6. CASE E!RolledBack /\ UNCHANGED history
  <2>1. ephase = "rederive" /\ eoutcome' = "rolledback" /\ faulted' = faulted
    BY <1>6 DEF E!RolledBack, history
  <2>2. wphase = "derive" /\ widx = 1 /\ Refused
    BY <2>1, EvalPhases DEF EvalRestores
  <2>3. Refused' /\ entry # "init"
    BY <1>2, <1>3, <2>1, <2>2 DEF Refused
  <2> QED BY <1>2, <1>3, <1>4, <2>1, <2>2, <2>3 DEF Joint, WasmFollows, Rejects
<1> QED BY <1>5, <1>6

\* What follows holds of a step of the module's epilogue.
LEMMA FollowFacts ==
  ASSUME GlobalInv, Joint, Live, ephase = "idle", wphase # "idle"
  PROVE  /\ entry # "init" /\ (Accepts \/ Rejects \/ GetsStuck)
         /\ wphase = "derive" => FreshTo(state, widx)
         /\ wphase = "check" =>
              /\ entry = "dispatch" /\ AllFresh(state) /\ GoodTo(state, widx)
              /\ Accepts \/ Rejects
         /\ Shown(env) \in W!Record /\ state \in W!Record
         /\ wsnapshot \in W!Record /\ widx \in Nat \ {0}
<1>1. WasmFollows
  BY EvalPhases
<1>2. /\ Shown(env) \in W!Record /\ state \in W!Record
      /\ wsnapshot \in W!Record /\ widx \in Nat \ {0}
  BY ShownRecord DEF GlobalInv
<1> QED BY <1>1, <1>2, Zenon DEF WasmFollows, GetsStuck

\* The module stops where the evaluator did.
LEMMA StopAlike ==
  ASSUME GlobalInv, Joint, Live, ephase = "idle", wphase = "derive",
         widx \in DOMAIN Derived
  PROVE  /\ Der(widx, state) = Trap => GetsStuck /\ widx = eidx
         /\ Der(widx, state) # Trap /\ GetsStuck => widx < eidx
<1> DEFINE r == Shown(env)
<1>1. /\ r \in W!Record /\ state \in W!Record /\ FreshTo(state, widx)
      /\ Accepts \/ Rejects \/ GetsStuck
  BY FollowFacts
<1>2. widx \in Nat /\ \A i \in DOMAIN Derived : i \in Nat
  BY SpaceFacts
<1>3. ASSUME Accepts PROVE Der(widx, state) # Trap
  <2>1. SameFields(r, state) /\ AllFresh(r)
    BY <1>3 DEF Accepts
  <2>2. Der(widx, r) = Der(widx, state)
    BY <1>1, <2>1, AllFreshTo, DerAlike
  <2> QED BY <1>1, <2>1, <2>2, FreshIsValue DEF AllFresh
<1>4. ASSUME Rejects PROVE Der(widx, state) # Trap
  <2>1. PICK m \in W!Record : SameFields(m, state) /\ AllFresh(m)
    BY <1>4 DEF Rejects, Refused
  <2>2. Der(widx, m) = Der(widx, state)
    BY <1>1, <2>1, AllFreshTo, DerAlike
  <2> QED BY <2>1, <2>2, FreshIsValue DEF AllFresh
<1>5. ASSUME GetsStuck
      PROVE  /\ Der(widx, state) = Trap => widx = eidx
             /\ Der(widx, state) # Trap => widx < eidx
  <2>1. /\ eidx \in DOMAIN Derived /\ widx <= eidx /\ Der(eidx, r) = Trap
        /\ SameFields(r, state) /\ FreshTo(r, eidx)
    BY <1>5 DEF GetsStuck
  <2>2. FreshTo(r, widx)
    BY <1>2, <2>1 DEF FreshTo
  <2>3. Der(widx, r) = Der(widx, state)
    BY <1>1, <2>1, <2>2, DerAlike
  <2>4. widx < eidx => Der(widx, r) # Trap
    <3> HAVE widx < eidx
    <3>1. r[Derived[widx]] = Der(widx, r)
      BY <2>1 DEF FreshTo
    <3> QED BY <1>1, <3>1, FreshIsValue
  <2>5. widx < eidx \/ widx = eidx
    BY <1>2, <2>1
  <2> QED BY <2>1, <2>3, <2>4, <2>5
<1> QED BY <1>1, <1>3, <1>4, <1>5

LEMMA WasmDeriveJoint ==
  ASSUME GlobalInv, Joint, Live, ephase = "idle", W!DeriveStep,
         UNCHANGED evars, UNCHANGED history
  PROVE  Joint'
<1> DEFINE r == Shown(env)
<1>1. /\ wphase = "derive" /\ widx \in Nat \ {0} /\ widx \in DOMAIN Derived
      /\ wphase' = "derive" /\ widx' = widx + 1 /\ entry' = entry
      /\ wsnapshot' = wsnapshot
  BY SpaceFacts DEF W!DeriveStep, GlobalInv
<1>2. Der(widx, state) # Trap /\ state' = [state EXCEPT ![Derived[widx]] = Der(widx, state)]
  BY SeenIsView DEF W!DeriveStep, W!Value, W!SetField, Der
<1>3. /\ env' = env /\ ephase' = ephase /\ eoutcome' = eoutcome /\ eidx' = eidx
      /\ esnapshot' = esnapshot /\ faulted' = faulted
  BY DEF evars, history
<1>4. /\ r \in W!Record /\ state \in W!Record /\ FreshTo(state, widx)
      /\ entry # "init" /\ (Accepts \/ Rejects \/ GetsStuck)
  BY <1>1, FollowFacts
<1>5. Der(widx, state) \in Val
  BY <1>1, <1>2, <1>4, DerType
<1>6. SameFields(state', state)
  BY <1>1, <1>2, <1>4, <1>5, FreshStep
<1>7. FreshTo(state', widx + 1)
  BY <1>1, <1>2, <1>4, <1>5, FreshStep
<1>8. \A i \in DOMAIN Derived : i # widx => state'[Derived[i]] = state[Derived[i]]
  BY <1>1, <1>2, <1>4, <1>5, FreshStep
<1>9. ASSUME Accepts PROVE Accepts'
  BY <1>3, <1>6, <1>9 DEF Accepts, SameFields
<1>10. ASSUME Rejects PROVE Rejects'
  BY <1>1, <1>3, <1>6, <1>10 DEF Rejects, Refused, SameFields
<1>11. ASSUME GetsStuck PROVE GetsStuck'
  <2>1. widx < eidx
    BY <1>1, <1>2, <1>11, StopAlike
  <2>2. /\ eidx \in DOMAIN Derived /\ Der(eidx, r) = Trap /\ eoutcome = "fault"
        /\ faulted /\ SameFields(r, state) /\ FreshTo(r, eidx) /\ SameFrom(r, state, eidx)
    BY <1>11 DEF GetsStuck
  <2>3. widx + 1 <= eidx /\ \A i \in DOMAIN Derived : i >= eidx => i # widx
    BY <1>1, <2>1, <2>2, SpaceFacts
  <2>4. SameFields(r, state') /\ SameFrom(r, state', eidx)
    BY <1>6, <1>8, <2>2, <2>3 DEF SameFields, SameFrom
  <2> QED BY <1>1, <1>3, <2>2, <2>3, <2>4 DEF GetsStuck
<1> QED BY <1>1, <1>3, <1>4, <1>7, <1>9, <1>10, <1>11 DEF Joint, WasmFollows

LEMMA WasmTrapJoint ==
  ASSUME GlobalInv, Joint, Live, NeverTraps, Within, ephase = "idle", W!EpilogueTrap,
         UNCHANGED evars, UNCHANGED history
  PROVE  Joint'
<1> DEFINE r == Shown(env)
<1>1. widx \in Nat \ {0} /\ state \in W!Record
  BY DEF GlobalInv
<1>2. wphase = "derive" /\ widx \in DOMAIN Derived /\ Der(widx, state) = Trap
  <2>1. ~(wphase = "check" /\ widx <= NumInvariants
          /\ (Traps(widx, W!WasmView(state)) \/ ~W!Affordable))
    <3> SUFFICES ASSUME widx <= NumInvariants
                 PROVE  ~Traps(widx, W!WasmView(state)) /\ W!Affordable
      OBVIOUS
    <3>1. widx \in 1..NumInvariants
      BY <1>1, SpaceFacts
    <3> QED BY <1>1, <3>1 DEF NeverTraps, Within, W!Affordable
  <2>2. wphase = "derive" /\ widx <= Len(Derived) /\ W!Value = Trap
    BY <2>1, SeenIsView DEF W!EpilogueTrap, Within, W!Affordable
  <2> QED BY <1>1, <2>2, SpaceFacts, SeenIsView DEF W!Value, Der
<1>3. state' = state /\ wphase' = "idle" /\ woutcome' = "trap" /\ entry' = entry
  BY DEF W!EpilogueTrap
<1>4. /\ env' = env /\ ephase' = ephase /\ eoutcome' = eoutcome /\ faulted' = faulted
  BY DEF evars, history
<1>5. GetsStuck /\ widx = eidx
  BY <1>2, StopAlike
<1>6. /\ eoutcome = "fault" /\ faulted /\ SameFields(r, state)
      /\ FreshTo(r, widx) /\ SameFrom(r, state, widx)
  BY <1>5 DEF GetsStuck
<1>7. r = state
  <2>1. r \in W!Record /\ FreshTo(state, widx)
    BY <1>2, FollowFacts
  <2>2. \A i \in DOMAIN Derived : i < widx => r[Derived[i]] = state[Derived[i]]
    BY <1>1, <1>6, <2>1, FreshAgree
  <2>3. \A i \in DOMAIN Derived : i < widx \/ i >= widx
    BY <1>1, SpaceFacts
  <2>4. \A i \in DOMAIN Derived : r[Derived[i]] = state[Derived[i]]
    BY <1>6, <2>2, <2>3 DEF SameFrom
  <2> QED BY <1>1, <1>6, <2>1, <2>4, RecordsEqual
<1> QED BY <1>3, <1>4, <1>6, <1>7 DEF Joint, AtRest, BothIdle, SameOutcome

LEMMA WasmEndDeriveJoint ==
  ASSUME GlobalInv, Joint, Live, ephase = "idle", W!EndDerive,
         UNCHANGED evars, UNCHANGED history
  PROVE  Joint'
<1> DEFINE r == Shown(env)
<1>1. /\ wphase = "derive" /\ widx > Len(Derived) /\ state' = state /\ entry' = entry
      /\ wsnapshot' = wsnapshot
  BY DEF W!EndDerive
<1>2. /\ env' = env /\ ephase' = ephase /\ eoutcome' = eoutcome /\ faulted' = faulted
      /\ esnapshot' = esnapshot
  BY DEF evars, history
<1>3. /\ r \in W!Record /\ state \in W!Record /\ FreshTo(state, widx)
      /\ entry # "init" /\ widx \in Nat \ {0}
      /\ Accepts \/ Rejects \/ GetsStuck
  BY <1>1, FollowFacts
<1>4. AllFresh(state)
  BY <1>1, <1>3, FreshAll
<1>5. ~GetsStuck
  BY <1>1, <1>3, SpaceFacts DEF GetsStuck
<1>6. CASE entry = "dispatch"
  <2>1. wphase' = "check" /\ widx' = 1
    BY <1>6 DEF W!EndDerive
  <2>2. GoodTo(state, 1)
    BY DEF GoodTo
  <2>3. Accepts' \/ Rejects'
    BY <1>1, <1>2, <1>3, <1>5 DEF Accepts, Rejects, Refused
  <2> QED BY <1>1, <1>2, <1>3, <1>4, <1>6, <2>1, <2>2, <2>3 DEF Joint, WasmFollows
<1>7. CASE entry # "dispatch"
  <2>1. wphase' = "idle" /\ woutcome' = "done"
    BY <1>7 DEF W!EndDerive
  <2>2. /\ eoutcome = "committed" /\ SameFields(r, state) /\ AllFresh(r)
    BY <1>3, <1>5, <1>7 DEF Accepts, Rejects, Refused
  <2>3. r = state
    BY <1>3, <1>4, <2>2, FreshEqual
  <2> QED BY <1>1, <1>2, <1>3, <1>4, <2>1, <2>2, <2>3 DEF Joint, AtRest, BothIdle, SameOutcome
<1> QED BY <1>6, <1>7

\* The invariants run over the record the evaluator judged.
LEMMA JudgeAlike ==
  ASSUME GlobalInv, Joint, Live, ephase = "idle", wphase = "check"
  PROVE  /\ Accepts => Shown(env) = state /\ ~Broken(state)
         /\ Rejects => Broken(state)
<1>1. /\ Shown(env) \in W!Record /\ state \in W!Record /\ AllFresh(state)
  BY FollowFacts
<1>2. ASSUME Accepts PROVE Shown(env) = state /\ ~Broken(state)
  <2>1. Shown(env) = state
    BY <1>1, <1>2, FreshEqual DEF Accepts
  <2> QED BY <1>2, <2>1 DEF Accepts
<1>3. ASSUME Rejects PROVE Broken(state)
  <2>1. PICK m \in W!Record : SameFields(m, state) /\ AllFresh(m) /\ Broken(m)
    BY <1>3 DEF Rejects, Refused
  <2>2. m = state
    BY <1>1, <2>1, FreshEqual
  <2> QED BY <2>1, <2>2
<1> QED BY <1>2, <1>3

LEMMA WasmCheckJoint ==
  ASSUME GlobalInv, Joint, Live, ephase = "idle",
         W!CheckPass \/ W!CheckFail \/ W!EndDispatch,
         UNCHANGED evars, UNCHANGED history
  PROVE  Joint'
<1> DEFINE r == Shown(env)
<1>1. wphase = "check" /\ entry' = entry /\ wsnapshot' = wsnapshot
  BY DEF W!CheckPass, W!CheckFail, W!EndDispatch
<1>2. /\ env' = env /\ ephase' = ephase /\ eoutcome' = eoutcome /\ faulted' = faulted
      /\ esnapshot' = esnapshot
  BY DEF evars, history
<1>3. /\ entry = "dispatch" /\ AllFresh(state) /\ GoodTo(state, widx)
      /\ widx \in Nat \ {0}
      /\ Accepts \/ Rejects
  BY <1>1, FollowFacts
<1>4. /\ Accepts => r = state /\ ~Broken(state)
      /\ Rejects => Broken(state)
  BY <1>1, JudgeAlike
<1>5. CASE W!CheckPass
  <2>1. /\ widx' = widx + 1 /\ state' = state /\ wphase' = wphase
        /\ Good(widx, state)
    BY <1>5, SeenIsView DEF W!CheckPass, Good
  <2>2. GoodTo(state, widx + 1)
    <3>1. \A i \in 1..NumInvariants : i < widx + 1 => i < widx \/ i = widx
      BY <1>3
    <3> QED BY <1>3, <2>1, <3>1 DEF GoodTo
  <2>3. Accepts' \/ Rejects'
    BY <1>1, <1>2, <1>3, <2>1 DEF Accepts, Rejects, Refused
  <2> QED BY <1>1, <1>2, <1>3, <2>1, <2>2, <2>3 DEF Joint, WasmFollows
<1>6. CASE W!CheckFail
  <2>1. /\ widx <= NumInvariants /\ state' = wsnapshot /\ wphase' = "idle"
        /\ woutcome' = "violated" /\ ~Good(widx, state)
    BY <1>6, SeenIsView DEF W!CheckFail, Good
  <2>2. Broken(state)
    BY <1>3, <2>1, SpaceFacts DEF Broken
  <2>3. /\ eoutcome = "rolledback" /\ r = wsnapshot /\ AllFresh(wsnapshot)
    BY <1>3, <1>4, <2>2 DEF Rejects, Refused
  <2> QED BY <1>1, <1>2, <2>1, <2>3 DEF Joint, AtRest, BothIdle, SameOutcome
<1>7. CASE W!EndDispatch
  <2>1. widx > NumInvariants /\ state' = state /\ wphase' = "idle" /\ woutcome' = "done"
    BY <1>7 DEF W!EndDispatch
  <2>2. ~Broken(state)
    <3>1. \A i \in 1..NumInvariants : i < widx
      BY <1>3, <2>1, SpaceFacts
    <3> QED BY <1>3, <3>1 DEF Broken, GoodTo
  <2>3. r = state /\ eoutcome = "committed"
    BY <1>3, <1>4, <2>2 DEF Accepts
  <2> QED BY <1>1, <1>2, <1>3, <2>1, <2>3 DEF Joint, AtRest, BothIdle, SameOutcome
<1> QED BY <1>5, <1>6, <1>7

LEMMA StutterJoint ==
  ASSUME Joint, UNCHANGED pvars PROVE Joint'
BY DEF pvars, Joint, Live, InBody, EvalDerives, EvalChecks, EvalRestores, WasmFollows,
   AtRest, BothIdle, SameOutcome, SnapshotsAgree, Refused, Accepts, Rejects, GetsStuck

LEMMA NextJoint ==
  ASSUME NoShadow, NeverTraps, GlobalInv, Joint, Within, [Next]_pvars
  PROVE  Joint'
<1> SUFFICES ASSUME Live' PROVE Joint'
  BY DEF Joint
<1>0. Live
  BY LiveBefore
<1>1. CASE PCall
  BY <1>0, <1>1, CallJoint
<1>2. CASE PBody
  BY <1>0, <1>2, BodyJoint
<1>3. CASE PFail
  BY <1>0, <1>3, FailJoint
<1>4. CASE EvalEpilogue
  <2>1. UNCHANGED pwvars /\ (egas < EvalGas \/ eidx > Len(Derived))
    BY <1>4, Zenon DEF EvalEpilogue
  <2>2. CASE E!DeriveStep /\ UNCHANGED history
    BY <1>0, <2>1, <2>2, EvalDeriveJoint
  <2>3. CASE E!DeriveFail /\ faulted' = TRUE
    BY <1>0, <2>1, <2>3, EvalFaultJoint
  <2>4. CASE (E!StartChecks \/ E!CheckPass) /\ UNCHANGED history
    BY <1>0, <2>1, <2>4, EvalCheckJoint
  <2>5. CASE /\ E!CheckFail /\ spoiled' = (spoiled \/ faulted \/ entry # "dispatch")
             /\ UNCHANGED faulted
    BY <1>0, <2>1, <2>5, EvalRestoreJoint
  <2>6. CASE \/ E!Commit /\ faulted' = FALSE
             \/ E!RolledBack /\ UNCHANGED history
    BY <1>0, <2>1, <2>6, EvalEndJoint
  <2> QED BY <1>4, <2>2, <2>3, <2>4, <2>5, <2>6, Zenon DEF EvalEpilogue
<1>5. CASE WasmEpilogue
  <2>1. ephase = "idle" /\ UNCHANGED evars /\ UNCHANGED history
    BY <1>5, Zenon DEF WasmEpilogue
  <2>2. CASE W!DeriveStep
    BY <1>0, <2>1, <2>2, WasmDeriveJoint
  <2>3. CASE W!EpilogueTrap
    BY <1>0, <2>1, <2>3, WasmTrapJoint
  <2>4. CASE W!EndDerive
    BY <1>0, <2>1, <2>4, WasmEndDeriveJoint
  <2>5. CASE W!CheckPass \/ W!CheckFail \/ W!EndDispatch
    BY <1>0, <2>1, <2>5, WasmCheckJoint
  <2> QED BY <1>5, <2>2, <2>3, <2>4, <2>5, Zenon DEF WasmEpilogue
<1>6. CASE OutOfBudget \/ UNCHANGED pvars
  <2>1. UNCHANGED pvars
    BY <1>6 DEF OutOfBudget
  <2> QED BY <2>1, StutterJoint
<1> QED BY <1>1, <1>2, <1>3, <1>4, <1>5, <1>6, Zenon DEF Next

LEMMA InitJoint == PInit => Joint
<1> SUFFICES ASSUME PInit PROVE Joint
  OBVIOUS
<1>1. Shown(env) = state /\ AllFresh(state)
  BY InitRecord
<1>2. BothIdle /\ eoutcome = "none" /\ woutcome = "none"
  BY DEF PInit, E!Init, BothIdle
<1> QED BY <1>1, <1>2 DEF Joint, AtRest, SameOutcome

LEMMA JointShows == ASSUME GlobalInv, Joint PROVE SameState
<1> SUFFICES ASSUME BothIdle, Live PROVE
      /\ \A n \in W!Key : E!Lookup(env, n) = state[n]
      /\ SameOutcome
  BY DEF SameState, Settled, Live, SameOutcome
<1>1. AtRest
  BY EvalPhases DEF BothIdle
<1>2. \A n \in W!Key : E!Lookup(env, n) = Shown(env)[n]
  BY SameReading DEF GlobalInv
<1> QED BY <1>1, <1>2 DEF AtRest

-----------------------------------------------------------------------------

\* Between calls the host reads the same fields and derived fields from the
\* evaluator's instance and from the compiled module (state_snapshot and
\* get_state), and every call took effect in both or in neither, until one of
\* the two differences that `spoiled` records.
THEOREM SameForTheHost ==
  NoShadow /\ NeverTraps => (Spec /\ []Within => []SameState)
<1> SUFFICES ASSUME NoShadow, NeverTraps PROVE Spec /\ []Within => []SameState
  OBVIOUS
<1> DEFINE Inv == GlobalInv /\ Joint
<1>1. PInit => Inv
  BY InitGlobal, InitJoint
<1>2. Inv /\ Within /\ [Next]_pvars => Inv'
  BY NextGlobal, NextJoint
<1>3. Inv => SameState
  BY JointShows
<1> QED BY <1>1, <1>2, <1>3, PTL DEF Spec
=============================================================================
