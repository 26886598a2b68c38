----------------------------- MODULE NamesProofs -----------------------------
(***************************************************************************)
(* The generator reads what the checker means, in every accepted program:  *)
(* for any names, any nesting of the constructs and any number of          *)
(* statements.  The checker keeps one stack of scopes and the generator a  *)
(* stack per name, so that leaving a construct undoes them separately;     *)
(* what carries the proof is how the two stood in each construct that is   *)
(* still open, and how they will stand there again.                        *)
(***************************************************************************)
EXTENDS Names, SequenceTheorems, FiniteSetTheorems, TLAPS

-----------------------------------------------------------------------------
(* The checker's scopes                                                     *)

CheckScope == [Name -> Binding \cup {Unbound}]

\* Scope i is the innermost of the first k that bind the name.
Decides(e, n, k, i) ==
  /\ i \in 1..k /\ e[i][n] # Unbound
  /\ \A j \in (i + 1)..k : e[j][n] = Unbound

LEMMA LastExists ==
  ASSUME NEW n \in Nat, NEW S \in SUBSET (1..n), S # {}
  PROVE  \E m \in S : \A k \in S : k <= m
<1>1. IsFiniteSet(1..n)
  BY FS_Interval
<1>2. IsFiniteSet(S)
  BY <1>1, FS_Subset
<1> DEFINE Above(k) == {j \in S : k <= j}
           T == {Above(k) : k \in S}
<1>3. IsWellFoundedOn(StrictSubsetOrdering(S), SUBSET S)
  BY <1>2, FS_StrictSubsetOrderingWellFounded, FS_FiniteSubsetsOfFinite
<1>4. T \subseteq SUBSET S /\ T # {}
  OBVIOUS
<1>5. PICK W \in T : \A V \in T : <<V, W>> \notin StrictSubsetOrdering(S)
  <2> HIDE DEF T
  <2> QED BY <1>3, <1>4, WFMin
<1>6. PICK m \in S : W = Above(m)
  BY <1>5
<1>7. ASSUME NEW k \in S, ~(k <= m) PROVE FALSE
  <2>1. m \in Nat /\ k \in Nat /\ S \subseteq Nat /\ m < k
    BY <1>7
  <2>2. Above(k) \subseteq W /\ m \in W /\ m \notin Above(k)
    <3>1. \A j \in S : k <= j => m <= j
      BY <2>1, SMT
    <3>2. m <= m /\ ~(k <= m)
      BY <2>1
    <3> QED BY <1>6, <3>1, <3>2, Zenon
  <2>3. Above(k) \in T /\ Above(k) \in SUBSET S /\ W \in SUBSET S
    BY <1>6
  <2> HIDE DEF Above, T
  <2>4. <<Above(k), W>> \in StrictSubsetOrdering(S)
    BY <2>2, <2>3 DEF StrictSubsetOrdering
  <2> QED BY <1>5, <2>3, <2>4
<1> QED BY <1>7

\* A lookup finds the innermost binding.
LEMMA LookupFinds ==
  ASSUME NEW e \in Seq(CheckScope), NEW n \in Name, IsBound(e, n)
  PROVE  /\ Decides(e, n, Len(e), Binder(e, n))
         /\ Lookup(e, n) = e[Binder(e, n)][n]
         /\ Lookup(e, n) \in Binding
<1>1. /\ Len(e) \in Nat /\ DOMAIN e = 1..Len(e)
      /\ Binders(e, n) \in SUBSET (1..Len(e)) /\ Binders(e, n) # {}
  BY LenProperties DEF Binders, IsBound
<1>2. \E i \in Binders(e, n) : \A j \in Binders(e, n) : j <= i
  BY <1>1, LastExists
<1>3. /\ Binder(e, n) \in Binders(e, n)
      /\ \A j \in Binders(e, n) : j <= Binder(e, n)
  BY <1>2 DEF Binder
<1> DEFINE i == Binder(e, n)
<1>4. i \in 1..Len(e) /\ e[i][n] # Unbound
  BY <1>1, <1>3 DEF Binders
<1>5. \A j \in (i + 1)..Len(e) : e[j][n] = Unbound
  <2> SUFFICES ASSUME NEW j \in (i + 1)..Len(e), e[j][n] # Unbound PROVE FALSE
    OBVIOUS
  <2>1. j \in 1..Len(e) /\ ~(j <= i)
    BY <1>1, <1>4
  <2> QED BY <1>1, <1>3, <2>1 DEF Binders
<1>6. Lookup(e, n) = e[i][n]
  BY DEF Lookup
<1>7. e[i][n] \in Binding
  <2>1. e[i] \in CheckScope
    BY <1>4, ElementOfSeq
  <2> QED BY <1>4, <2>1 DEF CheckScope
<1> QED
  <2> HIDE DEF i
  <2> QED BY <1>4, <1>5, <1>6, <1>7 DEF Decides, i

\* Writing one slot of the innermost scope.
LEMMA DefineSlot ==
  ASSUME NEW e \in Seq(CheckScope), e # <<>>, NEW n \in Name, NEW v \in Binding
  PROVE  /\ Define(e, n, v) \in Seq(CheckScope)
         /\ Len(Define(e, n, v)) = Len(e)
         /\ \A j \in 1..Len(e), m \in Name :
              Define(e, n, v)[j][m] = IF j = Len(e) /\ m = n THEN v ELSE e[j][m]
<1> DEFINE k == Len(e)
           s == [e[k] EXCEPT ![n] = v]
<1>1. k \in 1..Len(e)
  BY EmptySeq
<1>2. e[k] \in CheckScope
  BY <1>1, ElementOfSeq
<1>3. s \in CheckScope /\ \A m \in Name : s[m] = IF m = n THEN v ELSE e[k][m]
  BY <1>2 DEF CheckScope
<1>4. Define(e, n, v) = [e EXCEPT ![k] = s]
  BY DEF Define
<1> HIDE DEF s, k
<1>5. /\ [e EXCEPT ![k] = s] \in Seq(CheckScope)
      /\ Len([e EXCEPT ![k] = s]) = Len(e)
      /\ \A j \in 1..Len(e) : [e EXCEPT ![k] = s][j] = IF j = k THEN s ELSE e[j]
  BY <1>1, <1>3, ExceptSeq
<1> QED BY <1>3, <1>4, <1>5 DEF k

LEMMA BindType ==
  ASSUME NEW n \in Name \cup {NoName}, NEW v \in Binding
  PROVE  /\ Bind(n, v) \in CheckScope
         /\ \A m \in Name : Bind(n, v)[m] = IF m = n THEN v ELSE Unbound
BY NamesAssumption DEF Bind, EmptyScope, CheckScope

LEMMA EmptyScopeType ==
  EmptyScope \in CheckScope /\ \A m \in Name : EmptyScope[m] = Unbound
BY DEF EmptyScope, CheckScope

LEMMA UnboundBinding == \A v \in Binding : v # Unbound
BY UnboundAssumption DEF Val

-----------------------------------------------------------------------------
(* The program grows by a statement; a block may end with it                *)

Blocks == {"if", "else", "for", "match", "fn"}
Kinds == Units \cup Blocks \cup {"end", "let", "set", "use", "return"}

Statements ==
  [kind : Kinds, name : Name \cup {NoName}, end : Nat, in : Nat,
   nullable : BOOLEAN, shadows : BOOLEAN, unseen : BOOLEAN,
   check : Nat, code : Int]

\* What the statements already written are does not change.
Extends(s) ==
  /\ prog' \in Seq(Statements) /\ Len(prog') = Len(prog) + 1
  /\ prog'[Here] = s
  /\ \A i \in 1..Len(prog) :
       /\ prog'[i].kind = prog[i].kind /\ prog'[i].name = prog[i].name
       /\ prog'[i].in = prog[i].in /\ prog'[i].unseen = prog[i].unseen
       /\ prog'[i].check = prog[i].check /\ prog'[i].code = prog[i].code
       /\ prog[i].end # 0 => prog'[i].end # 0

LEMMA WriteExtends ==
  ASSUME prog \in Seq(Statements), NEW s \in Statements, prog' = Append(prog, s)
  PROVE  Extends(s)
BY AppendProperties DEF Extends, Here

LEMMA CloseExtends ==
  ASSUME prog \in Seq(Statements), NEW s \in Statements, NEW k \in 1..Len(prog),
         prog' = Append([prog EXCEPT ![k].end = Here], s)
  PROVE  Extends(s) /\ prog'[k].end # 0
<1> DEFINE c == [prog[k] EXCEPT !.end = Here]
           q == [prog EXCEPT ![k] = c]
<1>1. Len(prog) \in Nat /\ Here \in Nat /\ Here # 0 /\ prog[k] \in Statements
  BY LenProperties, ElementOfSeq DEF Here
<1>2. /\ c \in Statements /\ c.end = Here /\ c.kind = prog[k].kind
      /\ c.name = prog[k].name /\ c.in = prog[k].in /\ c.unseen = prog[k].unseen
      /\ c.check = prog[k].check /\ c.code = prog[k].code
  BY <1>1 DEF Statements
<1>3. prog' = Append(q, s)
  OBVIOUS
<1> HIDE DEF c
<1>4. /\ q \in Seq(Statements) /\ Len(q) = Len(prog)
      /\ \A i \in 1..Len(prog) : q[i] = IF i = k THEN c ELSE prog[i]
  BY <1>2, ExceptSeq
<1> HIDE DEF q
<1>5. /\ prog' \in Seq(Statements) /\ Len(prog') = Len(prog) + 1
      /\ prog'[Here] = s
      /\ \A i \in 1..Len(prog) : prog'[i] = q[i]
  BY <1>3, <1>4, AppendProperties DEF Here
<1> QED BY <1>1, <1>2, <1>4, <1>5 DEF Extends

\* The function of the module the next statement goes into is the last one's,
\* unless the first view begins.
InFunction(s) == s.kind # "view" \/ InView(Len(prog))

LEMMA SameView ==
  ASSUME prog \in Seq(Statements), NEW s, Extends(s)
  PROVE  /\ \A i \in 1..Len(prog) : InView(i)' = InView(i)
         /\ InView(Len(prog))' = (InView(Len(prog)) \/ s.kind = "view")
<1>1. Len(prog) \in Nat /\ Here = Len(prog) + 1
  BY LenProperties DEF Here
<1>2. /\ \A i \in 1..Len(prog) : prog'[i].kind = prog[i].kind
      /\ prog'[Here].kind = s.kind
  BY DEF Extends
<1>3. ASSUME NEW i \in 1..Len(prog) PROVE InView(i)' = InView(i)
  <2>1. \A j \in 1..i : j \in 1..Len(prog)
    BY <1>1
  <2> QED BY <1>2, <2>1 DEF InView
<1>4. InView(Len(prog))' = (InView(Len(prog)) \/ s.kind = "view")
  <2>1. 1..Here = (1..Len(prog)) \cup {Here}
    BY <1>1
  <2>2. Len(prog') = Here
    BY <1>1 DEF Extends
  <2> QED BY <1>2, <2>1, <2>2 DEF InView
<1> QED BY <1>3, <1>4

LEMMA LetsGrow ==
  ASSUME prog \in Seq(Statements), NEW s, Extends(s), NEW n
  PROVE  /\ Lets(n) \subseteq 1..Len(prog) /\ Lets(n) \subseteq Lets(n)'
         /\ \A j \in Lets(n)' : j \in Lets(n) \/ (j = Here /\ s.kind = "let" /\ s.name = n)
<1>1. Len(prog) \in Nat /\ DOMAIN prog = 1..Len(prog) /\ Here = Len(prog) + 1
  BY LenProperties DEF Here
<1>2. prog' \in Seq(Statements) /\ Len(prog') = Len(prog) + 1
  BY DEF Extends
<1>3. DOMAIN prog' = 1..(Len(prog) + 1)
  BY <1>2, LenProperties
<1>4. \A j \in 1..(Len(prog) + 1) : j \in 1..Len(prog) \/ j = Here
  BY <1>1
<1>5. \A j \in 1..Len(prog) : j \in 1..(Len(prog) + 1)
  BY <1>1
<1> QED BY <1>1, <1>3, <1>4, <1>5 DEF Lets, Extends

-----------------------------------------------------------------------------
(* What has leaked, and what will have                                      *)

\* A `let` of the name is left on the generator's stack for good.
Leaky(n) ==
  \E j \in Lets(n) :
    InView(j) = InView(Len(prog)) /\ prog[prog[j].in].end # 0

LetIn(n, p) == \E j \in Lets(n) : prog[j].in = p

\* One will be, when the constructs above level d are over.
LetAbove(n, d) == \E k \in d..Len(open) : LetIn(n, open[k])

\* Every block has begun before its statements.
Placed ==
  \A j \in 1..Len(prog) :
    prog[j].in < j /\ (prog[j].kind = "let" => prog[j].in >= 1)

LEMMA LeakyKept ==
  ASSUME prog \in Seq(Statements), Placed, NEW s, Extends(s), InFunction(s), NEW n, Leaky(n)
  PROVE  Leaky(n)'
<1>1. PICK j \in Lets(n) : InView(j) = InView(Len(prog)) /\ prog[prog[j].in].end # 0
  BY DEF Leaky
<1>2. j \in 1..Len(prog) /\ j \in Lets(n)' /\ prog[j].kind = "let"
  BY LetsGrow DEF Lets
<1>3. Len(prog') = Here /\ Len(prog) \in Nat
  BY LenProperties DEF Extends, Here
<1>4. InView(j)' = InView(j) /\ InView(Len(prog))' = InView(Len(prog))
  <2>1. \A i \in 1..Len(prog) : InView(i)' = InView(i)
    BY SameView
  <2>2. InView(Len(prog))' = InView(Len(prog))
    <3>1. InView(Len(prog))' = (InView(Len(prog)) \/ s.kind = "view")
      BY SameView
    <3>2. InView(Len(prog)) \in BOOLEAN
      BY DEF InView
    <3> QED BY <3>1, <3>2, Zenon DEF InFunction
  <2> QED BY <1>2, <2>1, <2>2
<1>5. prog[j].in \in 1..Len(prog)
  <2>1. prog[j] \in Statements
    BY <1>2, ElementOfSeq
  <2>2. prog[j].in \in Nat /\ prog[j].in < j /\ prog[j].in >= 1
    BY <1>2, <2>1 DEF Placed, Statements
  <2> QED BY <1>2, <1>3, <2>2
<1>6. prog'[j].in = prog[j].in /\ prog'[prog[j].in].end # 0
  BY <1>1, <1>2, <1>5 DEF Extends
<1> QED BY <1>1, <1>2, <1>4, <1>6 DEF Leaky

\* A `let` in the block that ends leaks.
LEMMA EndLeaks ==
  ASSUME prog \in Seq(Statements), NEW s, Extends(s), InFunction(s), NEW n,
         NEW k \in 1..Len(prog), prog'[k].end # 0,
         NEW j \in Lets(n), prog[j].in = k, InView(j) = InView(Len(prog))
  PROVE  Leaky(n)'
<1>2. j \in 1..Len(prog) /\ j \in Lets(n)' /\ prog[j].kind = "let"
  BY LetsGrow DEF Lets
<1>3. Len(prog') = Here /\ Len(prog) \in Nat
  BY LenProperties DEF Extends, Here
<1>4. InView(j)' = InView(j) /\ InView(Len(prog))' = InView(Len(prog))
  <2>1. \A i \in 1..Len(prog) : InView(i)' = InView(i)
    BY SameView
  <2>2. InView(Len(prog))' = InView(Len(prog))
    <3>1. InView(Len(prog))' = (InView(Len(prog)) \/ s.kind = "view")
      BY SameView
    <3>2. InView(Len(prog)) \in BOOLEAN
      BY DEF InView
    <3> QED BY <3>1, <3>2, Zenon DEF InFunction
  <2> QED BY <1>2, <2>1, <2>2
<1>6. prog'[j].in = k
  BY <1>2 DEF Extends
<1> QED BY <1>2, <1>4, <1>6 DEF Leaky

-----------------------------------------------------------------------------
(* The constructs that are open, and how both stood in each                 *)

Types ==
  /\ prog \in Seq(Statements) /\ open \in Seq(Nat)
  /\ tenv \in Seq(CheckScope)
  /\ locals \in [Name -> Seq(Int)] /\ keys \subseteq Name
  /\ outer \in [locals : [Name -> Seq(Int)], keys : SUBSET Name]

Nest ==
  /\ \A d \in 1..Len(open) :
       /\ open[d] \in 1..Len(prog)
       /\ d = 1 => prog[open[d]].kind \in Units
       /\ d # 1 => prog[open[d]].kind \in Blocks
  /\ \A d, e \in 1..Len(open) :
       prog[open[d]].kind = "fn" /\ prog[open[e]].kind = "fn" => d = e

\* What stands in an open construct is in the function being written.
LetsHere ==
  \A n \in Name, d \in 1..Len(open) : \A j \in Lets(n) :
    prog[j].in = open[d] => InView(j) = InView(Len(prog))

\* A name on the stack has an entry.
KeysCover ==
  \A n \in Name : /\ locals[n] # <<>> => n \in keys
                  /\ outer.locals[n] # <<>> => n \in outer.keys

Global ==
  /\ tenv # <<>>
  /\ \A n \in Name : tenv[1][n] # Unbound => n \in Field /\ tenv[1][n].at = 0

\* What is bound was bound before the next statement.
Earlier ==
  \A i \in 1..Len(tenv), n \in Name : tenv[i][n] # Unbound => tenv[i][n].at < Here

\* What emit_identifier would make of the name with this stack.
Code(n, stack) ==
  IF stack # <<>> THEN stack[Len(stack)] ELSE IF n \in Field THEN 0 ELSE NoLocal

\* The arms around level d that bind the name and that the checker does not
\* know of.
Arms(n, d) ==
  {open[e] : e \in {x \in 1..(d - 1) :
     prog[open[x]].kind = "match" /\ prog[open[x]].name = n /\ prog[open[x]].unseen}}

\* With this stack the code reads the name as bound at this place, or one of
\* these arms stands between.
Right(n, stack, at, arms) ==
  \/ Code(n, stack) = at
  \/ n \in Field /\ Code(n, stack) = Local0
  \/ \E a \in arms : at < a

\* With k scopes open and this stack, checker and generator agree on the name.
Claim(n, k, stack, arms) ==
  \A i \in 1..k : Decides(tenv, n, k, i) => Right(n, stack, tenv[i][n].at, arms)

\* What the end of the block makes of the name's stack.
Popped(block, n, stack) ==
  IF block.kind \in {"if", "else"} \/ block.name # n \/ stack = <<>> THEN stack
  ELSE SubSeq(stack, 1, Len(stack) - 1)

\* The end of the construct at level d leads back from l[d + 1] to l[d].
Returns(l, d) ==
  LET block == prog[open[d]] IN
  IF block.kind = "fn" THEN l[d] = outer.locals
  ELSE \A n \in Name :
         \/ Leaky(n) \/ LetIn(n, open[d])
         \/ l[d][n] = Popped(block, n, l[d + 1][n])

Settles(n, d, k, stack) ==
  Leaky(n) \/ LetAbove(n, d) \/ Claim(n, k, stack, Arms(n, d))

\* At level d, inside d - 1 constructs, the checker has b[d] scopes and the
\* generator the stacks l[d].
Levels(b, l, top) ==
  /\ \A d \in 1..top : b[d] \in Nat /\ l[d] \in [Name -> Seq(Int)]
  /\ b[1] = 1 /\ \A d \in 1..top, e \in 1..top : d <= e => b[d] <= b[e]
  /\ \A d \in 1..(top - 1) :
       b[d + 1] = b[d] + Depth(prog[open[d]].kind) /\ Returns(l, d)
  /\ \A d \in 1..top, n \in Name : Settles(n, d, b[d], l[d][n])

InStep(b, l) ==
  /\ Levels(b, l, Len(open) + 1)
  /\ b[Len(open) + 1] = Len(tenv) /\ l[Len(open) + 1] = locals

NamesInv ==
  /\ Types /\ Placed /\ Nest /\ LetsHere /\ KeysCover /\ Global /\ Earlier
  /\ \E b, l : InStep(b, l)

LEMMA DepthType ==
  \A k : Depth(k) \in Nat /\ (k \in Units => Depth(k) >= 1)
<1>1. Len(BlockScopes) \in Nat
  BY DEF BlockScopes
<1> QED BY <1>1 DEF Depth, Units

LEMMA DepthSame ==
  ASSUME Inside("view")' = Inside("view"), NEW k
  PROVE  Depth(k)' = Depth(k)
BY DEF Depth, BlockScopes

LEMMA LetInKept ==
  ASSUME prog \in Seq(Statements), NEW s, Extends(s), NEW n, NEW p, LetIn(n, p)
  PROVE  LetIn(n, p)'
<1>1. PICK j \in Lets(n) : prog[j].in = p
  BY DEF LetIn
<1>2. j \in 1..Len(prog) /\ j \in Lets(n)'
  BY LetsGrow
<1> QED BY <1>1, <1>2 DEF LetIn, Extends

LEMMA ArmsKept ==
  ASSUME Nest, NEW s, Extends(s), NEW n, NEW d,
         \A k \in 1..(d - 1) : k \in 1..Len(open) /\ open'[k] = open[k]
  PROVE  Arms(n, d)' = Arms(n, d)
<1>1. ASSUME NEW k \in 1..(d - 1)
      PROVE  /\ open'[k] = open[k] /\ prog'[open'[k]].kind = prog[open[k]].kind
             /\ prog'[open'[k]].name = prog[open[k]].name
             /\ prog'[open'[k]].unseen = prog[open[k]].unseen
  <2>1. open'[k] = open[k] /\ open[k] \in 1..Len(prog)
    BY DEF Nest
  <2> QED BY <2>1 DEF Extends
<1> QED BY <1>1 DEF Arms

LEMMA ClaimMore ==
  ASSUME NEW n, NEW k, NEW q, NEW few, NEW more, few \subseteq more, Claim(n, k, q, few)'
  PROVE  Claim(n, k, q, more)'
BY DEF Claim, Right, Code, Decides

LEMMA EarlierKept ==
  ASSUME Types, Earlier, NEW s, Extends(s), tenv' \in Seq(CheckScope),
         \A i \in 1..Len(tenv'), n \in Name : tenv'[i][n] # Unbound =>
           \/ tenv'[i][n].at = Here
           \/ \E j \in 1..Len(tenv) : tenv[j][n] # Unbound /\ tenv[j][n].at = tenv'[i][n].at
  PROVE  Earlier'
<1>1. Len(prog) \in Nat /\ Len(prog') = Len(prog) + 1 /\ Here = Len(prog) + 1
      /\ (Here)' = Len(prog) + 2
  BY LenProperties DEF Types, Extends, Here
<1> SUFFICES ASSUME NEW i \in 1..Len(tenv'), NEW n \in Name, tenv'[i][n] # Unbound
             PROVE  tenv'[i][n].at < (Here)'
  BY DEF Earlier
<1>2. tenv'[i][n].at \in Nat
  <2>1. tenv'[i] \in CheckScope
    BY ElementOfSeq
  <2>2. tenv'[i][n] \in Binding
    BY <2>1 DEF CheckScope
  <2> QED BY <2>2 DEF Binding
<1>3. tenv'[i][n].at = Here \/ tenv'[i][n].at < Here
  BY DEF Earlier
<1> QED BY <1>1, <1>2, <1>3

\* The levels below a change.
LEMMA LevelsBelow ==
  ASSUME Types, Placed, Nest, LetsHere,
         NEW b, NEW l, Levels(b, l, Len(open) + 1),
         NEW s, Extends(s), InFunction(s),
         NEW top \in 1..(Len(open) + 1), top = 1 \/ Inside("view")' = Inside("view"),
         Len(open') \in Nat, Len(open') >= top - 1,
         \A k \in 1..(top - 1) : open'[k] = open[k],
         \A k \in top..Len(open) :
           (k \in top..Len(open') /\ open'[k] = open[k]) \/ prog'[open[k]].end # 0,
         outer' = outer \/ \A k \in 1..(top - 1) : prog[open[k]].kind # "fn",
         NEW c, NEW m, \A d \in 1..top : c[d] = b[d] /\ m[d] = l[d],
         \A d \in 1..top, n \in Name : \A arms :
           Claim(n, b[d], l[d][n], arms) =>
             Claim(n, b[d], l[d][n], arms)' \/ LetAbove(n, d)'
  PROVE  Levels(c, m, top)'
<1>1. Len(prog) \in Nat /\ Len(open) \in Nat
  BY LenProperties DEF Types
<1>2. \A d \in 1..top : d \in 1..(Len(open) + 1)
  BY <1>1
<1>3. \A d \in 1..(top - 1) : d \in 1..Len(open) /\ d \in 1..top /\ d + 1 \in 1..top
  BY <1>1
<1>4. /\ \A d \in 1..top : c[d] \in Nat /\ m[d] \in [Name -> Seq(Int)]
      /\ c[1] = 1 /\ \A d \in 1..top, e \in 1..top : d <= e => c[d] <= c[e]
  <2>1. 1 \in 1..top
    BY <1>1
  <2> QED BY <1>2, <2>1 DEF Levels
<1>5. \A d \in 1..(top - 1) : /\ prog'[open'[d]].kind = prog[open[d]].kind
                            /\ prog'[open'[d]].name = prog[open[d]].name
  BY <1>3 DEF Nest, Extends
<1>6. \A n : Leaky(n) => Leaky(n)'
  BY LeakyKept DEF Types
<1>7. \A n, p : LetIn(n, p) => \E j \in Lets(n)' : prog'[j].in = p
  BY LetInKept DEF Types, LetIn
<1>8. ASSUME NEW d \in 1..(top - 1)
      PROVE  c[d + 1] = c[d] + (Depth(prog[open[d]].kind))' /\ Returns(m, d)'
  <2>1. /\ b[d + 1] = b[d] + Depth(prog[open[d]].kind) /\ Returns(l, d)
        /\ c[d + 1] = b[d + 1] /\ c[d] = b[d] /\ m[d + 1] = l[d + 1] /\ m[d] = l[d]
        /\ open'[d] = open[d]
    BY <1>1, <1>3 DEF Levels
  <2>2. Depth(prog[open[d]].kind)' = Depth(prog[open[d]].kind)
    <3>1. Inside("view")' = Inside("view")
      BY <1>1, <1>8
    <3>2. prog'[open'[d]].kind = prog[open[d]].kind
      BY <1>5
    <3> QED BY <3>1, <3>2 DEF Depth, BlockScopes
  <2>3. CASE prog[open[d]].kind = "fn"
    <3>1. outer' = outer /\ l[d] = outer.locals
      BY <2>1, <2>3 DEF Returns
    <3> QED BY <1>5, <2>1, <2>2, <2>3, <3>1 DEF Returns
  <2>4. CASE prog[open[d]].kind # "fn"
    <3>1. \A n \in Name :
            \/ Leaky(n) \/ LetIn(n, open[d])
            \/ l[d][n] = Popped(prog[open[d]], n, l[d + 1][n])
      BY <2>1, <2>4 DEF Returns
    <3>2. \A n \in Name :
            \/ Leaky(n)' \/ LetIn(n, open[d])'
            \/ m[d][n] = Popped(prog'[open'[d]], n, m[d + 1][n])
      <4>1. \A n, q : Popped(prog'[open'[d]], n, q) = Popped(prog[open[d]], n, q)
        BY <1>5 DEF Popped
      <4>2. ASSUME NEW n, LetIn(n, open[d]) PROVE LetIn(n, open[d])'
        <5>1. PICK j \in Lets(n)' : prog'[j].in = open[d]
          BY <1>7, <4>2
        <5>2. prog'[j].in = open'[d]
          BY <2>1, <5>1
        <5> QED BY <5>2 DEF LetIn
      <4> QED BY <1>6, <2>1, <3>1, <4>1, <4>2
    <3> QED BY <1>5, <2>1, <2>2, <2>4, <3>2 DEF Returns
  <2> QED BY <2>3, <2>4
<1>9. ASSUME NEW d \in 1..top, NEW n \in Name
      PROVE  Settles(n, d, c[d], m[d][n])'
  <2>1. Settles(n, d, b[d], l[d][n]) /\ c[d] = b[d] /\ m[d] = l[d]
    BY <1>2 DEF Levels
  <2>2. CASE Leaky(n)
    BY <1>6, <2>2 DEF Settles
  <2>3. CASE LetAbove(n, d)
    <3>1. PICK k \in d..Len(open) : LetIn(n, open[k])
      BY <2>3 DEF LetAbove
    <3>2. CASE k <= top - 1
      <4>1. k \in d..Len(open') /\ k \in 1..(top - 1)
        BY <1>1, <3>2
      <4>2. LetIn(n, open[k])'
        <5>1. PICK j \in Lets(n)' : prog'[j].in = open[k]
          BY <1>7, <3>1
        <5>2. prog'[j].in = open'[k]
          BY <3>1, <4>1, <5>1
        <5> QED BY <5>2 DEF LetIn
      <4> QED BY <4>1, <4>2 DEF Settles, LetAbove
    <3>3. CASE k \in top..Len(open') /\ open'[k] = open[k]
      <4>1. k \in d..Len(open')
        BY <1>1, <3>3
      <4>2. LetIn(n, open[k])'
        <5>1. PICK j \in Lets(n)' : prog'[j].in = open[k]
          BY <1>7, <3>1
        <5>2. prog'[j].in = open'[k]
          BY <3>1, <3>3, <5>1
        <5> QED BY <5>2 DEF LetIn
      <4> QED BY <4>1, <4>2 DEF Settles, LetAbove
    <3>4. CASE prog'[open[k]].end # 0
      <4>1. PICK j \in Lets(n) : prog[j].in = open[k]
        BY <3>1 DEF LetIn
      <4>2. k \in 1..Len(open) /\ open[k] \in 1..Len(prog)
        BY <1>1 DEF Nest
      <4>3. InView(j) = InView(Len(prog))
        BY <4>1, <4>2 DEF LetsHere
      <4> QED BY <3>4, <4>1, <4>2, <4>3, EndLeaks DEF Settles, Types
    <3> QED
      <4>1. k <= top - 1 \/ k \in top..Len(open)
        BY <1>1
      <4> QED BY <3>2, <3>3, <3>4, <4>1
  <2>4. CASE Claim(n, b[d], l[d][n], Arms(n, d))
    <3>1. PICK a : a = Arms(n, d)
      OBVIOUS
    <3>2. Arms(n, d)' = a
      <4>1. \A k \in 1..(d - 1) : k \in 1..Len(open) /\ open'[k] = open[k]
        <5>1. \A k \in 1..(d - 1) : k \in 1..(top - 1)
          BY <1>1
        <5> QED BY <1>3, <5>1
      <4> QED BY <3>1, <4>1, ArmsKept
    <3>3. Claim(n, b[d], l[d][n], a)' \/ LetAbove(n, d)'
      BY <2>4, <3>1
    <3> QED BY <2>1, <3>2, <3>3 DEF Settles
  <2> QED BY <2>1, <2>2, <2>3, <2>4 DEF Settles
<1> QED BY <1>4, <1>8, <1>9 DEF Levels

-----------------------------------------------------------------------------
(* Statements that bind nothing                                             *)

LEMMA PlacedKept ==
  ASSUME prog \in Seq(Statements), Placed, NEW s, Extends(s),
         s.in < Here, s.kind = "let" => s.in >= 1
  PROVE  Placed'
<1>1. Len(prog) \in Nat /\ Len(prog') = Len(prog) + 1 /\ Here = Len(prog) + 1
  BY LenProperties DEF Extends, Here
<1>2. \A j \in 1..(Len(prog) + 1) : j \in 1..Len(prog) \/ j = Here
  BY <1>1
<1> QED BY <1>1, <1>2 DEF Placed, Extends

LEMMA LetsHereKept ==
  ASSUME prog \in Seq(Statements), open \in Seq(Nat), Placed, LetsHere, NEW s, Extends(s),
         InFunction(s) \/ open = <<>>,
         \A d \in 1..Len(open') : open'[d] = Here \/ \E e \in 1..Len(open) : open'[d] = open[e]
  PROVE  LetsHere'
<1>1. Len(prog) \in Nat /\ Len(prog') = Len(prog) + 1 /\ Here = Len(prog) + 1
  BY LenProperties DEF Extends, Here
<1> SUFFICES ASSUME NEW n \in Name, NEW d \in 1..Len(open'), NEW j \in Lets(n)',
                    prog'[j].in = open'[d]
             PROVE  InView(j)' = InView(Len(prog))'
  BY DEF LetsHere
<1>2. CASE j = Here
  BY <1>1, <1>2 DEF InView
<1>3. CASE j \in Lets(n)
  <2>1. j \in 1..Len(prog) /\ prog'[j].in = prog[j].in /\ prog[j].in # Here
    <3>1. j \in 1..Len(prog)
      BY <1>3, LetsGrow
    <3>2. prog[j] \in Statements
      BY <3>1, ElementOfSeq
    <3>3. prog[j].in \in Nat
      BY <3>2 DEF Statements
    <3> QED BY <1>1, <3>1, <3>3 DEF Extends, Placed
  <2>2. PICK e \in 1..Len(open) : open'[d] = open[e]
    BY <2>1
  <2>3. InView(j) = InView(Len(prog)) /\ InFunction(s)
    <3>1. open # <<>>
      BY <2>2
    <3> QED BY <1>3, <2>1, <2>2, <3>1 DEF LetsHere
  <2>4. InView(j)' = InView(j)
    BY <2>1, SameView
  <2>5. InView(Len(prog))' = InView(Len(prog))
    <3>1. InView(Len(prog))' = (InView(Len(prog)) \/ s.kind = "view")
      BY SameView
    <3>2. InView(Len(prog)) \in BOOLEAN
      BY DEF InView
    <3> QED BY <2>3, <3>1, <3>2, Zenon DEF InFunction
  <2> QED BY <2>3, <2>4, <2>5
<1> QED BY <1>2, <1>3, LetsGrow

LEMMA NestSame ==
  ASSUME Nest, open \in Seq(Nat), prog \in Seq(Statements), NEW s, Extends(s), open' = open
  PROVE  Nest' /\ \A k : Inside(k)' = Inside(k)
<1>1. Len(prog) \in Nat /\ Len(prog') = Len(prog) + 1 /\ DOMAIN open = 1..Len(open)
  BY LenProperties DEF Extends
<1>2. \A d \in 1..Len(open) :
        open[d] \in 1..Len(prog) /\ prog'[open[d]].kind = prog[open[d]].kind
  BY DEF Nest, Extends
<1>3. Nest'
  <2>1. \A d \in 1..Len(open) : open[d] \in 1..Len(prog')
    BY <1>1, <1>2
  <2> QED BY <1>2, <2>1 DEF Nest
<1>4. \A k : Inside(k)' = Inside(k)
  BY <1>1, <1>2 DEF Inside
<1> QED BY <1>3, <1>4

LEMMA PlainKeepsStep ==
  ASSUME NamesInv, NEW s \in Statements, s.kind \in {"set", "use", "return"}, s.in < Here,
         prog' = Append(prog, s), UNCHANGED <<open, tenv, locals, keys, outer>>
  PROVE  NamesInv'
<1>1. Types /\ Placed /\ Nest /\ LetsHere /\ KeysCover /\ Global /\ Earlier
  BY DEF NamesInv
<1>2. prog \in Seq(Statements) /\ open \in Seq(Nat) /\ Len(open) \in Nat
  BY <1>1, LenProperties DEF Types
<1>3. Extends(s) /\ InFunction(s)
  BY <1>2, WriteExtends DEF InFunction
<1>4. Types' /\ Placed' /\ Nest' /\ LetsHere' /\ KeysCover' /\ Global' /\ Earlier'
  <2>1. Types'
    BY <1>1, <1>3 DEF Types, Extends
  <2>2. Placed'
    BY <1>1, <1>2, <1>3, PlacedKept
  <2>3. Nest'
    BY <1>1, <1>2, <1>3, NestSame
  <2>4. LetsHere'
    BY <1>1, <1>2, <1>3, LetsHereKept
  <2>5. KeysCover' /\ Global'
    BY <1>1 DEF KeysCover, Global
  <2>6. Earlier'
    <3>1. tenv' \in Seq(CheckScope)
      BY <1>1 DEF Types
    <3> QED BY <1>1, <1>3, <3>1, EarlierKept
  <2> QED BY <2>1, <2>2, <2>3, <2>4, <2>5, <2>6
<1>5. PICK b, l : InStep(b, l)
  BY DEF NamesInv
<1>6. Levels(b, l, Len(open) + 1)'
  <2>1. \A n, k, q, arms : Claim(n, k, q, arms) => Claim(n, k, q, arms)'
    BY DEF Claim, Decides, Code, Right
  <2>2. Inside("view")' = Inside("view")
    BY <1>1, <1>2, <1>3, NestSame
  <2>3. Levels(b, l, Len(open) + 1)
    BY <1>5 DEF InStep
  <2> DEFINE top == Len(open) + 1
  <2>4. top \in 1..(Len(open) + 1) /\ Len(open') \in Nat /\ Len(open') >= top - 1
    BY <1>2
  <2>5. \A k \in 1..(top - 1) : open'[k] = open[k]
    OBVIOUS
  <2>6. \A k \in top..Len(open) : (k \in top..Len(open') /\ open'[k] = open[k]) \/ prog'[open[k]].end # 0
    BY <1>2
  <2>7. PICK t : t = top
    OBVIOUS
  <2>8. Levels(b, l, t)'
    <3> HIDE DEF top
    <3> QED BY <1>1, <1>3, <2>1, <2>2, <2>3, <2>4, <2>5, <2>6, <2>7, LevelsBelow
  <2> QED BY <2>7, <2>8
<1>7. InStep(b, l)'
  BY <1>5, <1>6 DEF InStep
<1> QED BY <1>4, <1>7 DEF NamesInv

-----------------------------------------------------------------------------
(* A construct begins                                                       *)

LEMMA PopPush ==
  ASSUME NEW S, NEW q \in Seq(S), NEW x \in S
  PROVE  SubSeq(Append(q, x), 1, Len(Append(q, x)) - 1) = q
<1> DEFINE a == Append(q, x)
           t == SubSeq(a, 1, Len(a) - 1)
<1>1. /\ a \in Seq(S) /\ Len(a) = Len(q) + 1 /\ Len(q) \in Nat
      /\ \A i \in 1..Len(q) : a[i] = q[i] /\ a[i] \in S
  BY AppendProperties, LenProperties, ElementOfSeq
<1>2. t \in Seq(S) /\ Len(t) = Len(q) /\ \A i \in 1..Len(q) : t[i] = a[i]
  <2> HIDE DEF a
  <2>1. Len(a) - 1 = Len(q) /\ Len(a) - 1 \in Int /\ 1 \in Int
    BY <1>1
  <2>2. \A i \in 1..(Len(a) - 1) : a[i] \in S
    BY <1>1, <2>1
  <2>3. /\ t \in Seq(S) /\ Len(t) = IF 1 <= Len(q) THEN Len(q) - 1 + 1 ELSE 0
        /\ \A i \in 1..(Len(q) - 1 + 1) : t[i] = a[1 + i - 1]
    BY <2>1, <2>2, SubSeqProperties
  <2> HIDE DEF t
  <2> QED BY <1>1, <2>3
<1> HIDE DEF a, t
<1>3. t = q
  BY <1>1, <1>2, SeqEqual
<1> QED BY <1>3 DEF a, t

\* The construct the next statement begins stands where the grammar has it.
Fits(s) ==
  IF open = <<>> THEN s.kind \in Units
  ELSE s.kind \in Blocks /\ (s.kind = "fn" => ~Inside("fn"))

LEMMA NestOpen ==
  ASSUME Nest, open \in Seq(Nat), prog \in Seq(Statements), NEW s, Extends(s),
         open' = Append(open, Here), Fits(s)
  PROVE  /\ Nest' /\ open' \in Seq(Nat) /\ Len(open') = Len(open) + 1
         /\ \A d \in 1..Len(open) : open'[d] = open[d]
         /\ open'[Len(open) + 1] = Here
         /\ open # <<>> => Inside("view")' = Inside("view")
<1>1. /\ Len(prog) \in Nat /\ Len(prog') = Len(prog) + 1 /\ Here = Len(prog) + 1
      /\ Len(open) \in Nat /\ DOMAIN open = 1..Len(open) /\ Here \in Nat
  BY LenProperties DEF Extends, Here
<1>2. /\ open' \in Seq(Nat) /\ Len(open') = Len(open) + 1
      /\ \A d \in 1..Len(open) : open'[d] = open[d]
      /\ open'[Len(open) + 1] = Here
  BY <1>1, AppendProperties
<1>3. DOMAIN open' = 1..(Len(open) + 1)
  BY <1>2, LenProperties
<1>4. \A d \in 1..Len(open) :
        open[d] \in 1..Len(prog) /\ prog'[open[d]].kind = prog[open[d]].kind
  BY DEF Nest, Extends
<1>5. prog'[Here].kind = s.kind /\ Here \in 1..Len(prog')
  BY <1>1 DEF Extends
<1>6. \A d \in 1..Len(open') : d \in 1..Len(open) \/ d = Len(open) + 1
  BY <1>1, <1>2
<1>7. open # <<>> => Len(open) # 0
  BY EmptySeq
<1>8. Nest'
  <2>1. ASSUME NEW d \in 1..Len(open')
        PROVE  /\ open'[d] \in 1..Len(prog')
               /\ d = 1 => prog'[open'[d]].kind \in Units
               /\ d # 1 => prog'[open'[d]].kind \in Blocks
    <3>1. CASE d \in 1..Len(open)
      <4>1. open'[d] = open[d] /\ open[d] \in 1..Len(prog) /\ prog'[open[d]].kind = prog[open[d]].kind
        BY <1>2, <1>4, <3>1
      <4>2. open[d] \in 1..Len(prog')
        BY <1>1, <4>1
      <4> QED BY <3>1, <4>1, <4>2 DEF Nest
    <3>2. CASE d = Len(open) + 1
      <4>1. d = 1 <=> open = <<>>
        BY <1>1, <1>7, <3>2
      <4> QED BY <1>2, <1>5, <3>2, <4>1 DEF Fits
    <3> QED BY <1>6, <3>1, <3>2
  <2>2. ASSUME NEW d \in 1..Len(open'), NEW e \in 1..Len(open'),
               prog'[open'[d]].kind = "fn", prog'[open'[e]].kind = "fn"
        PROVE  d = e
    <3>1. s.kind = "fn" => \A k \in 1..Len(open) : prog[open[k]].kind # "fn"
      BY <1>1 DEF Fits, Inside, Units
    <3>2. \A k \in 1..Len(open) : prog'[open'[k]].kind = prog[open[k]].kind
      BY <1>2, <1>4
    <3>3. prog'[open'[Len(open) + 1]].kind = s.kind
      BY <1>2, <1>5
    <3>4. CASE d = Len(open) + 1 \/ e = Len(open) + 1
      BY <1>6, <2>2, <3>1, <3>2, <3>3, <3>4
    <3>5. CASE d \in 1..Len(open) /\ e \in 1..Len(open)
      BY <2>2, <3>2, <3>5 DEF Nest
    <3> QED BY <1>6, <3>4, <3>5
  <2> QED BY <2>1, <2>2 DEF Nest
<1>9. open # <<>> => Inside("view")' = Inside("view")
  <2> SUFFICES ASSUME open # <<>> PROVE Inside("view")' = Inside("view")
    OBVIOUS
  <2>1. s.kind # "view"
    BY DEF Fits, Blocks
  <2>2. \A k \in 1..Len(open) : prog'[open'[k]].kind = prog[open[k]].kind
    BY <1>2, <1>4
  <2>3. prog'[open'[Len(open) + 1]].kind = s.kind
    BY <1>2, <1>5
  <2>4. \A k \in 1..Len(open) : k \in 1..Len(open')
    BY <1>1, <1>2
  <2> QED BY <1>1, <1>2, <1>3, <1>6, <2>1, <2>2, <2>3, <2>4 DEF Inside
<1> QED BY <1>2, <1>8, <1>9

LEMMA AddLevel ==
  ASSUME NEW c, NEW m, NEW t \in Nat \ {0}, Levels(c, m, t)', Len(open') = t,
         c[t + 1] \in Nat, m[t + 1] \in [Name -> Seq(Int)],
         c[t + 1] = c[t] + (Depth(prog[open[t]].kind))', Returns(m, t)',
         \A n \in Name : Settles(n, t + 1, c[t + 1], m[t + 1][n])'
  PROVE  Levels(c, m, Len(open) + 1)'
<1>1. \A d \in 1..(t + 1) : d \in 1..t \/ d = t + 1
  OBVIOUS
<1>2. /\ \A d \in 1..t : c[d] \in Nat /\ m[d] \in [Name -> Seq(Int)]
      /\ c[1] = 1 /\ \A d \in 1..t, e \in 1..t : d <= e => c[d] <= c[e]
      /\ \A d \in 1..(t - 1) :
           c[d + 1] = c[d] + (Depth(prog[open[d]].kind))' /\ Returns(m, d)'
      /\ \A d \in 1..t, n \in Name : Settles(n, d, c[d], m[d][n])'
  BY DEF Levels
<1>3. (Depth(prog[open[t]].kind))' \in Nat
  <2>1. \A k : Depth(k)' \in Nat
    <3>1. Len(BlockScopes)' \in Nat
      BY DEF BlockScopes
    <3> QED BY <3>1 DEF Depth
  <2> QED BY <2>1 DEF Depth
<1>4. ASSUME NEW d \in 1..(t + 1), NEW e \in 1..(t + 1), d <= e PROVE c[d] <= c[e]
  <2>1. CASE e = t + 1 /\ d # t + 1
    <3>1. d \in 1..t /\ t \in 1..t /\ d <= t
      BY <1>1, <2>1
    <3>2. c[d] <= c[t] /\ c[d] \in Nat /\ c[t] \in Nat
      BY <1>2, <3>1
    <3> QED BY <1>3, <2>1, <3>2
  <2>2. CASE e = t + 1 /\ d = t + 1
    BY <2>2
  <2>3. CASE e # t + 1
    <3>1. d \in 1..t /\ e \in 1..t
      BY <1>1, <1>4, <2>3
    <3> QED BY <1>2, <1>4, <3>1
  <2> QED BY <2>1, <2>2, <2>3
<1>5. \A d \in 1..(t + 1) : c[d] \in Nat /\ m[d] \in [Name -> Seq(Int)]
  BY <1>1, <1>2
<1>6. \A d \in 1..t : c[d + 1] = c[d] + (Depth(prog[open[d]].kind))' /\ Returns(m, d)'
  <2>1. \A d \in 1..t : d \in 1..(t - 1) \/ d = t
    OBVIOUS
  <2> QED BY <1>2, <2>1
<1>7. \A d \in 1..(t + 1), n \in Name : Settles(n, d, c[d], m[d][n])'
  BY <1>1, <1>2
<1>8. Len(open') + 1 = t + 1 /\ t + 1 - 1 = t
  OBVIOUS
<1> QED BY <1>2, <1>4, <1>5, <1>6, <1>7, <1>8 DEF Levels

\* The arm the statement begins, if the checker does not know of it.
NewArm(s, n, here) ==
  IF s.kind = "match" /\ s.name = n /\ s.unseen THEN {here} ELSE {}

LEMMA OpenLevels ==
  ASSUME Types, Placed, Nest, LetsHere, NEW b, NEW l, InStep(b, l), NEW h, h = Here,
         NEW s, Extends(s), InFunction(s), open' = Append(open, Here), Fits(s),
         outer' = outer \/ ~Inside("fn"),
         tenv' \in Seq(CheckScope), Len(tenv') = Len(tenv) + Depth(s.kind)',
         locals' \in [Name -> Seq(Int)],
         \A d \in 1..(Len(open) + 1), n \in Name : \A arms :
           Claim(n, b[d], l[d][n], arms) => Claim(n, b[d], l[d][n], arms)',
         s.kind = "fn" => outer'.locals = locals,
         s.kind # "fn" => \A n \in Name : locals[n] = Popped(s, n, locals'[n]),
         \A n \in Name : \A arms :
           Claim(n, Len(tenv), locals[n], arms) =>
             Claim(n, Len(tenv), locals[n], arms \cup NewArm(s, n, h))'
  PROVE  \E c, m : InStep(c, m)'
<1>1. /\ prog \in Seq(Statements) /\ open \in Seq(Nat) /\ Len(open) \in Nat
      /\ Len(tenv) \in Nat /\ Len(tenv') \in Nat
      /\ DOMAIN open = 1..Len(open)
  BY LenProperties DEF Types
<1>2. /\ Levels(b, l, Len(open) + 1)
      /\ b[Len(open) + 1] = Len(tenv) /\ l[Len(open) + 1] = locals
  BY DEF InStep
<1>3. PICK t : t = Len(open) + 1
  OBVIOUS
<1>4. PICK k : k = Len(tenv')
  OBVIOUS
<1>5. PICK w : w = locals'
  OBVIOUS
<1>6. PICK c : c = [d \in 1..(t + 1) |-> IF d = t + 1 THEN k ELSE b[d]]
  OBVIOUS
<1>7. PICK m : m = [d \in 1..(t + 1) |-> IF d = t + 1 THEN w ELSE l[d]]
  OBVIOUS
<1>8. /\ t \in Nat \ {0} /\ t \in 1..(Len(open) + 1)
      /\ \A d \in 1..t : c[d] = b[d] /\ m[d] = l[d]
      /\ c[t + 1] = k /\ m[t + 1] = w
  BY <1>1, <1>3, <1>6, <1>7
<1>9. /\ Len(open') = t /\ \A d \in 1..(t - 1) : open'[d] = open[d]
      /\ open'[t] = Here
      /\ t = 1 \/ Inside("view")' = Inside("view")
  BY <1>1, <1>3, NestOpen
<1>10. Levels(c, m, t)'
  <2>1. outer' = outer \/ \A e \in 1..(t - 1) : prog[open[e]].kind # "fn"
    <3>1. t - 1 = Len(open)
      BY <1>1, <1>3
    <3> QED BY <1>1, <3>1 DEF Inside
  <2>2. \A e \in t..Len(open) :
          (e \in t..Len(open') /\ open'[e] = open[e]) \/ prog'[open[e]].end # 0
    BY <1>1, <1>3
  <2>3. \A d \in 1..t, n \in Name : \A arms :
          Claim(n, b[d], l[d][n], arms) =>
            Claim(n, b[d], l[d][n], arms)' \/ LetAbove(n, d)'
    BY <1>3
  <2>4. Levels(b, l, Len(open) + 1)
    BY <1>2
  <2>5. Len(open') \in Nat /\ Len(open') >= t - 1
    BY <1>8, <1>9
  <2>6. t \in 1..(Len(open) + 1)
    BY <1>8
  <2>7. \A e \in 1..(t - 1) : open'[e] = open[e]
    BY <1>9
  <2>8. t = 1 \/ Inside("view")' = Inside("view")
    BY <1>9
  <2>9. \A d \in 1..t : c[d] = b[d] /\ m[d] = l[d]
    BY <1>8
  <2> QED BY <2>1, <2>2, <2>3, <2>4, <2>5, <2>6, <2>7, <2>8, <2>9, LevelsBelow
<1>11. prog'[open'[t]] = s
  BY <1>9 DEF Extends
<1>12. c[t + 1] = c[t] + (Depth(prog[open[t]].kind))'
  <2>1. c[t] = Len(tenv)
    BY <1>2, <1>3, <1>8
  <2>2. (Depth(prog[open[t]].kind))' = Depth(s.kind)'
    BY <1>11 DEF Depth, BlockScopes
  <2> QED BY <1>4, <1>8, <2>1, <2>2
<1>13. Returns(m, t)'
  <2>1. m[t] = locals /\ m[t + 1] = locals'
    BY <1>2, <1>3, <1>5, <1>8
  <2>2. CASE s.kind = "fn"
    BY <1>11, <2>1, <2>2 DEF Returns
  <2>3. CASE s.kind # "fn"
    BY <1>11, <2>1, <2>3 DEF Returns
  <2> QED BY <2>2, <2>3
<1>14. ASSUME NEW n \in Name PROVE Settles(n, t + 1, c[t + 1], m[t + 1][n])'
  <2>1. Settles(n, Len(open) + 1, Len(tenv), locals[n])
    <3>1. Len(open) + 1 \in 1..(Len(open) + 1)
      BY <1>1
    <3> QED BY <1>2, <3>1 DEF Levels
  <2>2. ~LetAbove(n, Len(open) + 1)
    BY <1>1 DEF LetAbove
  <2>3. CASE Leaky(n)
    BY <1>1, <2>3, LeakyKept DEF Settles
  <2>4. CASE Claim(n, Len(tenv), locals[n], Arms(n, Len(open) + 1))
    <3>1. PICK a : a = Arms(n, t)
      OBVIOUS
    <3>2. PICK x : x = a \cup NewArm(s, n, h)
      OBVIOUS
    <3>3. Claim(n, Len(tenv), locals[n], x)'
      BY <1>3, <2>4, <3>1, <3>2
    <3>4. Claim(n, k, w[n], x)'
      BY <1>4, <1>5, <3>3 DEF Claim, Code, Decides, Right
    <3>5. Arms(n, t + 1)' = x
      <4>1. Arms(n, t)' = a
        <5>1. \A e \in 1..(t - 1) : e \in 1..Len(open) /\ open'[e] = open[e]
          BY <1>1, <1>3, <1>9
        <5> QED BY <3>1, <5>1, ArmsKept
      <4>2. t + 1 - 1 = t /\ \A e \in 1..t : e \in 1..(t - 1) \/ e = t
        BY <1>8
      <4>3. t \in 1..t /\ \A e \in 1..(t - 1) : e \in 1..t
        BY <1>8
      <4>4. open'[t] = h /\ prog'[open'[t]] = s
        BY <1>9, <1>11
      <4>6. PICK B : B = {i \in 1..(t - 1) :
              prog'[open'[i]].kind = "match" /\ prog'[open'[i]].name = n
              /\ prog'[open'[i]].unseen}
        OBVIOUS
      <4>7. PICK C : C = {i \in 1..t :
              prog'[open'[i]].kind = "match" /\ prog'[open'[i]].name = n
              /\ prog'[open'[i]].unseen}
        OBVIOUS
      <4>8. Arms(n, t + 1)' = {open'[e] : e \in C} /\ Arms(n, t)' = {open'[e] : e \in B}
        <5>1. Arms(n, t)' = {open'[e] : e \in B}
          BY <4>6, Zenon DEF Arms
        <5>2. PICK d : d = t + 1
          OBVIOUS
        <5>3. PICK D : D = {i \in 1..(d - 1) :
                prog'[open'[i]].kind = "match" /\ prog'[open'[i]].name = n
                /\ prog'[open'[i]].unseen}
          OBVIOUS
        <5>4. Arms(n, d)' = {open'[e] : e \in D}
          BY <5>3, Zenon DEF Arms
        <5>5. D = C
          <6>1. d - 1 = t
            BY <1>8, <5>2
          <6> QED BY <4>7, <5>3, <6>1, Zenon
        <5> QED BY <5>1, <5>2, <5>4, <5>5
      <4>9. C = B \cup (IF t \in C THEN {t} ELSE {})
        BY <4>2, <4>3, <4>6, <4>7
      <4>10. (IF t \in C THEN {h} ELSE {}) = NewArm(s, n, h)
        BY <4>3, <4>4, <4>7 DEF NewArm
      <4>11. Arms(n, t + 1)' = Arms(n, t)' \cup (IF t \in C THEN {h} ELSE {})
        BY <4>4, <4>8, <4>9
      <4> QED BY <3>2, <4>1, <4>10, <4>11
    <3> QED BY <1>8, <3>4, <3>5 DEF Settles
  <2> QED BY <2>1, <2>2, <2>3, <2>4 DEF Settles
<1>15. Levels(c, m, Len(open) + 1)'
  <2>1. c[t + 1] \in Nat /\ m[t + 1] \in [Name -> Seq(Int)]
    BY <1>1, <1>4, <1>5, <1>8
  <2> QED BY <1>8, <1>9, <1>10, <1>12, <1>13, <1>14, <2>1, AddLevel
<1> QED BY <1>4, <1>5, <1>8, <1>9, <1>15 DEF InStep

\* The scopes there were bind what they did, to the same places.  (A narrowed
\* name is bound again, further in.)
KeepsScopes ==
  /\ Len(tenv) <= Len(tenv')
  /\ \A k \in 1..Len(tenv), n \in Name : \A i \in 1..k :
       Decides(tenv', n, k, i) =>
         \E j \in 1..k : Decides(tenv, n, k, j) /\ tenv[j][n].at = tenv'[i][n].at

\* The new ones bind this name, and nothing else.
Adds(n) ==
  /\ n # NoName => Len(tenv) < Len(tenv')
  /\ \A i \in (Len(tenv) + 1)..Len(tenv'), m \in Name :
       IF i = Len(tenv) + 1 /\ m = n
       THEN tenv'[i][m] # Unbound /\ tenv'[i][m].at = Here
       ELSE tenv'[i][m] = Unbound

LEMMA NewScopes ==
  ASSUME tenv \in Seq(CheckScope), tenv' \in Seq(CheckScope), KeepsScopes,
         NEW x \in Name \cup {NoName}, Adds(x)
  PROVE  \A i \in 1..Len(tenv'), n \in Name : tenv'[i][n] # Unbound =>
           \/ n = x /\ tenv'[i][n].at = Here
           \/ \E j \in 1..Len(tenv) : tenv[j][n] # Unbound /\ tenv[j][n].at = tenv'[i][n].at
<1>1. Len(tenv) \in Nat /\ Len(tenv') \in Nat
  BY LenProperties
<1> SUFFICES ASSUME NEW i \in 1..Len(tenv'), NEW n \in Name, tenv'[i][n] # Unbound
             PROVE  \/ n = x /\ tenv'[i][n].at = Here
                    \/ \E j \in 1..Len(tenv) :
                         tenv[j][n] # Unbound /\ tenv[j][n].at = tenv'[i][n].at
  OBVIOUS
<1>2. CASE i \in (Len(tenv) + 1)..Len(tenv')
  BY <1>2 DEF Adds
<1>3. CASE i \in 1..Len(tenv)
  <2>1. i \in 1..i /\ Decides(tenv', n, i, i)
    <3>1. i \in 1..i /\ (i + 1)..i = {}
      BY <1>3
    <3> QED BY <3>1 DEF Decides
  <2>2. PICK j \in 1..i : Decides(tenv, n, i, j) /\ tenv[j][n].at = tenv'[i][n].at
    BY <1>3, <2>1 DEF KeepsScopes
  <2>3. j \in 1..Len(tenv)
    BY <1>1, <1>3
  <2> QED BY <2>2, <2>3 DEF Decides
<1> QED BY <1>1, <1>2, <1>3

LEMMA ClaimKept ==
  ASSUME tenv \in Seq(CheckScope), KeepsScopes, NEW n \in Name, NEW k \in Nat,
         k <= Len(tenv), NEW q, NEW arms, Claim(n, k, q, arms)
  PROVE  Claim(n, k, q, arms)'
<1>1. Len(tenv) \in Nat
  BY LenProperties
<1> SUFFICES ASSUME NEW i \in 1..k, Decides(tenv', n, k, i)
             PROVE  Right(n, q, tenv'[i][n].at, arms)
  BY DEF Claim, Code, Right
<1>2. k \in 1..Len(tenv)
  BY <1>1
<1>3. PICK j \in 1..k : Decides(tenv, n, k, j) /\ tenv[j][n].at = tenv'[i][n].at
  BY <1>2 DEF KeepsScopes
<1> QED BY <1>3 DEF Claim

LEMMA NewClaim ==
  ASSUME tenv \in Seq(CheckScope), tenv' \in Seq(CheckScope), KeepsScopes,
         NEW n \in Name \cup {NoName}, Adds(n),
         NEW m \in Name, NEW p, NEW q, NEW arms,
         IF m = n THEN Code(m, q) = Here
         ELSE \/ Code(m, q) = Code(m, p) \/ Code(m, p) = NoLocal
              \/ m \in Field /\ Code(m, q) = Local0,
         Claim(m, Len(tenv), p, arms)
  PROVE  \A i \in 1..Len(tenv') : Decides(tenv', m, Len(tenv'), i) =>
           Right(m, q, tenv'[i][m].at, arms)
<1>1. Len(tenv) \in Nat /\ Len(tenv') \in Nat
  BY LenProperties
<1> SUFFICES ASSUME NEW i \in 1..Len(tenv'), Decides(tenv', m, Len(tenv'), i)
             PROVE  Right(m, q, tenv'[i][m].at, arms)
  OBVIOUS
<1>2. i \in 1..Len(tenv) \/ i \in (Len(tenv) + 1)..Len(tenv')
  BY <1>1
<1>3. CASE i \in (Len(tenv) + 1)..Len(tenv')
  BY <1>3 DEF Decides, Adds, Right
<1>4. CASE i \in 1..Len(tenv) /\ m = n
  <2>1. n # NoName
    BY <1>4, NamesAssumption
  <2>2. Len(tenv) + 1 \in (Len(tenv) + 1)..Len(tenv') /\ Len(tenv) + 1 \in (i + 1)..Len(tenv')
    BY <1>1, <1>4, <2>1 DEF Adds
  <2> QED BY <1>4, <2>2 DEF Decides, Adds
<1>5. CASE i \in 1..Len(tenv) /\ m # n
  <2>1. Len(tenv) \in 1..Len(tenv) /\ Decides(tenv', m, Len(tenv), i)
    <3>1. \A j \in (i + 1)..Len(tenv) : j \in (i + 1)..Len(tenv')
      BY <1>1 DEF KeepsScopes
    <3>2. Len(tenv) \in 1..Len(tenv)
      BY <1>1, <1>5
    <3> QED BY <1>5, <3>1, <3>2 DEF Decides
  <2>2. PICK j \in 1..Len(tenv) :
          Decides(tenv, m, Len(tenv), j) /\ tenv[j][m].at = tenv'[i][m].at
    BY <1>5, <2>1 DEF KeepsScopes
  <2>3. Right(m, p, tenv[j][m].at, arms)
    BY <2>2 DEF Claim
  <2>4. tenv[j][m].at \in Nat
    <3>1. tenv[j] \in CheckScope
      BY ElementOfSeq
    <3>2. tenv[j][m] \in Binding
      BY <2>2, <3>1 DEF CheckScope, Decides
    <3> QED BY <3>2 DEF Binding
  <2>5. Code(m, p) # NoLocal \/ \E a \in arms : tenv[j][m].at < a
    BY <2>3, <2>4 DEF NoLocal, Local0, Right
  <2> QED BY <1>5, <2>2, <2>3, <2>5 DEF Right
<1> QED BY <1>2, <1>3, <1>4, <1>5

LEMMA BeginKeepsStep ==
  ASSUME NamesInv, NEW h, h = Here,
         NEW s \in Statements, s.kind # "let", s.in < Here,
         prog' = Append(prog, s), open' = Append(open, Here), Fits(s), InFunction(s),
         tenv' \in Seq(CheckScope), Len(tenv') = Len(tenv) + Depth(s.kind)', KeepsScopes,
         NEW x \in Name \cup {NoName}, Adds(x),
         locals' \in [Name -> Seq(Int)], keys' \subseteq Name,
         outer' \in [locals : [Name -> Seq(Int)], keys : SUBSET Name], KeysCover',
         outer' = outer \/ ~Inside("fn"),
         s.kind = "fn" => outer'.locals = locals,
         s.kind # "fn" => \A n \in Name : locals[n] = Popped(s, n, locals'[n]),
         \A n \in Name : \A arms :
           Claim(n, Len(tenv), locals[n], arms) =>
             Claim(n, Len(tenv), locals[n], arms \cup NewArm(s, n, h))'
  PROVE  NamesInv'
<1>1. Types /\ Placed /\ Nest /\ LetsHere /\ KeysCover /\ Global /\ Earlier
  BY DEF NamesInv
<1>2. prog \in Seq(Statements) /\ open \in Seq(Nat) /\ Len(open) \in Nat /\ tenv \in Seq(CheckScope) /\ Len(tenv) \in Nat
  BY <1>1, LenProperties DEF Types
<1>3. Extends(s)
  BY <1>2, WriteExtends
<1>4. Nest' /\ open' \in Seq(Nat) /\ Len(open') = Len(open) + 1
      /\ \A d \in 1..Len(open) : open'[d] = open[d]
  BY <1>1, <1>2, <1>3, NestOpen
<1>5. Types'
  BY <1>1, <1>3, <1>4 DEF Types, Extends
<1>6. Placed'
  BY <1>1, <1>2, <1>3, PlacedKept
<1>7. LetsHere'
  <2>1. \A d \in 1..Len(open') : open'[d] = Here \/ \E e \in 1..Len(open) : open'[d] = open[e]
    <3>1. \A d \in 1..Len(open') : d \in 1..Len(open) \/ d = Len(open) + 1
      BY <1>2, <1>4
    <3>2. open'[Len(open) + 1] = Here
      BY <1>1, <1>2, <1>3, NestOpen
    <3> QED BY <1>4, <3>1, <3>2
  <2> QED BY <1>1, <1>2, <1>3, <2>1, LetsHereKept
<1>8. Global'
  <2>1. 1 \in 1..Len(tenv) /\ Len(tenv) <= Len(tenv')
    BY <1>1, <1>2, EmptySeq DEF Global, KeepsScopes
  <2>2. tenv' # <<>>
    BY <1>2, <2>1, EmptySeq
  <2>3. ASSUME NEW n \in Name, tenv'[1][n] # Unbound
        PROVE  tenv[1][n] # Unbound /\ tenv'[1][n].at = tenv[1][n].at
    <3>1. Decides(tenv', n, 1, 1)
      BY <2>3 DEF Decides
    <3>2. PICK j \in 1..1 : Decides(tenv, n, 1, j) /\ tenv[j][n].at = tenv'[1][n].at
      BY <2>1, <3>1 DEF KeepsScopes
    <3> QED BY <3>2 DEF Decides
  <2> QED BY <1>1, <2>2, <2>3 DEF Global
<1>9. PICK b, l : InStep(b, l)
  BY DEF NamesInv
<1>10. \A d \in 1..(Len(open) + 1), n \in Name : \A arms :
         Claim(n, b[d], l[d][n], arms) => Claim(n, b[d], l[d][n], arms)'
  <2>1. \A d \in 1..(Len(open) + 1) : b[d] \in Nat /\ b[d] <= Len(tenv)
    <3>1. Len(open) + 1 \in 1..(Len(open) + 1) /\ \A d \in 1..(Len(open) + 1) : d <= Len(open) + 1
      BY <1>2
    <3> QED BY <1>9, <3>1 DEF InStep, Levels
  <2> QED BY <1>2, <2>1, ClaimKept
<1>11. \E c, m : InStep(c, m)'
  BY <1>1, <1>3, <1>9, <1>10, OpenLevels
<1>12. Earlier'
  BY <1>1, <1>2, <1>3, NewScopes, EarlierKept
<1> QED BY <1>1, <1>4, <1>5, <1>6, <1>7, <1>8, <1>11, <1>12 DEF NamesInv

LEMMA StatementType ==
  ASSUME prog \in Seq(Statements), open \in Seq(Nat), Nest,
         NEW kind \in Kinds, NEW n \in Name \cup {NoName}
  PROVE  /\ Statement(kind, n) \in Statements
         /\ Statement(kind, n).kind = kind /\ Statement(kind, n).name = n
         /\ Statement(kind, n).in < Here /\ ~Statement(kind, n).unseen
         /\ open # <<>> => /\ Statement(kind, n).in = Innermost
                           /\ Statement(kind, n).in >= 1
<1>1. Len(prog) \in Nat /\ Here = Len(prog) + 1 /\ Len(open) \in Nat
  BY LenProperties DEF Here
<1>2. open # <<>> => Len(open) \in 1..Len(open)
  BY EmptySeq
<1>3. open # <<>> => Innermost \in 1..Len(prog)
  BY <1>2 DEF Nest, Innermost
<1> DEFINE in == IF open = <<>> THEN 0 ELSE Innermost
<1>4. in \in Nat /\ in < Here /\ (open # <<>> => in = Innermost /\ in >= 1)
  BY <1>1, <1>3
<1> HIDE DEF in
<1>5. Statement(kind, n) =
        [kind |-> kind, name |-> n, end |-> 0, in |-> in,
         nullable |-> FALSE, shadows |-> FALSE, unseen |-> FALSE,
         check |-> 0, code |-> 0]
  BY DEF Statement, in
<1> QED BY <1>4, <1>5 DEF Statements

LEMMA SameScopesKept ==
  ASSUME Len(tenv) \in Nat, Len(tenv) <= Len(tenv'),
         \A i \in 1..Len(tenv) : tenv'[i] = tenv[i]
  PROVE  KeepsScopes
<1> SUFFICES ASSUME NEW k \in 1..Len(tenv), NEW n \in Name, NEW i \in 1..k,
                    Decides(tenv', n, k, i)
             PROVE  Decides(tenv, n, k, i) /\ tenv[i][n].at = tenv'[i][n].at
  BY DEF KeepsScopes
<1>1. \A j \in 1..k : j \in 1..Len(tenv)
  OBVIOUS
<1>2. \A j \in (i + 1)..k : j \in 1..k
  OBVIOUS
<1> QED BY <1>1, <1>2 DEF Decides

LEMMA GrowScopes ==
  ASSUME tenv \in Seq(CheckScope), Here \in Nat, NEW n \in Name \cup {NoName},
         \/ tenv' = Append(tenv, Bind(n, Bound))
         \/ tenv' = tenv \o <<Bind(n, Bound), EmptyScope>>
  PROVE  /\ tenv' \in Seq(CheckScope) /\ KeepsScopes /\ Adds(n)
         /\ tenv' = Append(tenv, Bind(n, Bound)) => Len(tenv') = Len(tenv) + 1
         /\ tenv' = tenv \o <<Bind(n, Bound), EmptyScope>> => Len(tenv') = Len(tenv) + 2
<1> DEFINE S == Bind(n, Bound)
<1>1. Bound \in Binding /\ Bound.at = Here /\ Bound # Unbound
  <2>1. Bound \in Binding /\ Bound.at = Here
    BY DEF Bound, Binding
  <2> QED BY <2>1, UnboundBinding
<1>2. S \in CheckScope /\ \A m \in Name : S[m] = IF m = n THEN Bound ELSE Unbound
  BY <1>1, BindType
<1>3. EmptyScope \in CheckScope /\ \A m \in Name : EmptyScope[m] = Unbound
  BY EmptyScopeType
<1>4. Len(tenv) \in Nat
  BY LenProperties
<1> HIDE DEF S
<1>5. CASE tenv' = Append(tenv, S)
  <2>1. /\ tenv' \in Seq(CheckScope) /\ Len(tenv') = Len(tenv) + 1
        /\ \A i \in 1..Len(tenv) : tenv'[i] = tenv[i]
        /\ tenv'[Len(tenv) + 1] = S
    BY <1>2, <1>5, AppendProperties
  <2>2. KeepsScopes
    BY <1>4, <2>1, SameScopesKept
  <2>3. \A i \in (Len(tenv) + 1)..Len(tenv') : i = Len(tenv) + 1
    BY <1>4, <2>1
  <2>4. Adds(n)
    BY <1>1, <1>2, <1>4, <2>1, <2>3 DEF Adds
  <2>5. Len(tenv) + 1 # Len(tenv) + 2
    BY <1>4
  <2>6. tenv' # tenv \o <<S, EmptyScope>>
    <3>1. <<S, EmptyScope>> \in Seq(CheckScope) /\ Len(<<S, EmptyScope>>) = 2
      BY <1>2, <1>3
    <3>2. Len(tenv \o <<S, EmptyScope>>) = Len(tenv) + 2
      BY <3>1, ConcatProperties
    <3> QED BY <2>1, <2>5, <3>2
  <2> QED BY <2>1, <2>2, <2>4, <2>6 DEF S
<1>6. CASE tenv' = tenv \o <<S, EmptyScope>>
  <2>1. <<S, EmptyScope>> \in Seq(CheckScope) /\ Len(<<S, EmptyScope>>) = 2
    BY <1>2, <1>3
  <2>2. /\ tenv' \in Seq(CheckScope) /\ Len(tenv') = Len(tenv) + 2
        /\ \A i \in 1..Len(tenv') :
             tenv'[i] = IF i <= Len(tenv) THEN tenv[i] ELSE <<S, EmptyScope>>[i - Len(tenv)]
    BY <1>6, <2>1, ConcatProperties
  <2>3. /\ \A i \in 1..Len(tenv) : tenv'[i] = tenv[i]
        /\ tenv'[Len(tenv) + 1] = S /\ tenv'[Len(tenv) + 2] = EmptyScope
    BY <1>4, <2>2
  <2>4. KeepsScopes
    BY <1>4, <2>2, <2>3, SameScopesKept
  <2>5. \A i \in (Len(tenv) + 1)..Len(tenv') : i = Len(tenv) + 1 \/ i = Len(tenv) + 2
    BY <1>4, <2>2
  <2>6. Len(tenv) + 2 # Len(tenv) + 1 /\ Len(tenv) < Len(tenv')
    BY <1>4, <2>2
  <2>7. Adds(n)
    BY <1>1, <1>2, <1>3, <2>3, <2>5, <2>6 DEF Adds
  <2>8. tenv' # Append(tenv, S)
    <3>1. Len(Append(tenv, S)) = Len(tenv) + 1
      BY <1>2, AppendProperties
    <3> QED BY <1>4, <2>2, <3>1
  <2> QED BY <2>2, <2>4, <2>7, <2>8 DEF S
<1> QED BY <1>5, <1>6 DEF S

LEMMA PushStacks ==
  ASSUME Types, KeysCover, Here \in Nat, NEW n \in Name \cup {NoName}, PushLocal(n)
  PROVE  /\ locals' \in [Name -> Seq(Int)] /\ keys' \subseteq Name /\ KeysCover'
         /\ \A m \in Name :
              /\ locals[m] \in Seq(Int)
              /\ m # n => locals'[m] = locals[m]
              /\ m = n => /\ locals'[m] = Append(locals[m], Here)
                          /\ locals'[m] # <<>> /\ Code(m, locals'[m]) = Here
<1>1. locals \in [Name -> Seq(Int)] /\ keys \subseteq Name
  BY DEF Types
<1>2. CASE n = NoName
  <2>1. locals' = locals /\ keys' = keys /\ outer' = outer
    BY <1>2 DEF PushLocal
  <2>2. \A m \in Name : m # n
    BY <1>2, NamesAssumption
  <2> QED BY <1>1, <2>1, <2>2 DEF KeysCover
<1>3. CASE n \in Name
  <2>1. n # NoName
    BY <1>3, NamesAssumption
  <2>2. locals' = [locals EXCEPT ![n] = Append(locals[n], Here)]
    BY <2>1 DEF PushLocal
  <2> DEFINE q == Append(locals[n], Here)
  <2>3. q \in Seq(Int) /\ q # <<>> /\ q[Len(q)] = Here
    <3>1. locals[n] \in Seq(Int) /\ Here \in Int
      BY <1>1, <1>3
    <3> QED BY <3>1, AppendProperties
  <2> HIDE DEF q
  <2>4. /\ locals' \in [Name -> Seq(Int)]
        /\ \A m \in Name : locals'[m] = IF m = n THEN q ELSE locals[m]
    BY <1>1, <2>2, <2>3 DEF q
  <2>5. keys' = keys \cup {n} /\ outer' = outer
    BY <2>1 DEF PushLocal
  <2>6. KeysCover'
    BY <2>4, <2>5 DEF KeysCover
  <2> QED BY <1>1, <1>3, <2>3, <2>4, <2>5, <2>6 DEF Code, q
<1> QED BY <1>2, <1>3

\* What the checker knows the name of.
LEMMA BeginKnown ==
  ASSUME NEW kind, NEW n, NEW scopes, Begin(kind, n, scopes)
  PROVE  BeginBlock([Statement(kind, n) EXCEPT !.unseen = ~TRUE], scopes)
<1>1. PICK in : in = IF open = <<>> THEN 0 ELSE Innermost
  OBVIOUS
<1>2. PICK u : u = Statement(kind, n)
  OBVIOUS
<1>3. u = [kind |-> kind, name |-> n, end |-> 0, in |-> in,
           nullable |-> FALSE, shadows |-> FALSE, unseen |-> FALSE,
           check |-> 0, code |-> 0]
  BY <1>1, <1>2 DEF Statement
<1>4. /\ DOMAIN u = {"kind", "name", "end", "in", "nullable", "shadows", "unseen", "check", "code"}
      /\ u.unseen = FALSE
  BY <1>3
<1>5. u = [i \in DOMAIN u |-> u[i]]
  BY <1>3
<1>6. [u EXCEPT !.unseen = ~TRUE] = u
  BY <1>4, <1>5, Zenon
<1> QED BY <1>2, <1>6 DEF Begin

\* Actions, epilogues, views that join the others, loops and arms.
LEMMA PushBegins ==
  ASSUME NamesInv, NEW kind \in Units \cup {"for", "match"}, NEW n \in Name \cup {NoName},
         NEW known \in BOOLEAN, ~known => kind = "match",
         NEW x, x = IF known THEN n ELSE NoName, NEW scopes,
         BeginBlock([Statement(kind, n) EXCEPT !.unseen = ~known], scopes), PushLocal(n),
         scopes = IF kind = "action" THEN tenv \o <<Bind(x, Bound), EmptyScope>>
                  ELSE Append(tenv, Bind(x, Bound)),
         IF open = <<>> THEN kind \in Units ELSE kind \in Blocks,
         kind # "view" \/ InView(Len(prog))
  PROVE  NamesInv'
<1>1. Types /\ Placed /\ Nest /\ LetsHere /\ KeysCover /\ Global /\ Earlier
  BY DEF NamesInv
<1>2. prog \in Seq(Statements) /\ open \in Seq(Nat) /\ tenv \in Seq(CheckScope) /\ Here \in Nat
  BY <1>1, LenProperties DEF Types, Here
<1>3. kind \in Kinds /\ kind # "let" /\ kind # "fn" /\ kind # "if" /\ kind # "else"
  BY DEF Kinds, Units, Blocks
<1>4. PICK s : s = [[Statement(kind, n) EXCEPT !.unseen = ~known]
                      EXCEPT !.shadows = n # NoName /\ IsBound(tenv, n)]
  OBVIOUS
<1>5. /\ s \in Statements /\ s.kind = kind /\ s.name = n /\ s.in < Here
      /\ s.unseen = ~known
  <2>1. /\ Statement(kind, n) \in Statements
        /\ Statement(kind, n).kind = kind /\ Statement(kind, n).name = n
        /\ Statement(kind, n).in < Here
    BY <1>1, <1>2, <1>3, StatementType
  <2>2. (n # NoName /\ IsBound(tenv, n)) \in BOOLEAN
    BY DEF IsBound
  <2> QED BY <1>4, <2>1, <2>2 DEF Statements
<1>6. prog' = Append(prog, s) /\ open' = Append(open, Here) /\ tenv' = scopes
  <2>1. PICK u : u = [Statement(kind, n) EXCEPT !.unseen = ~known]
    OBVIOUS
  <2>2. u.name = n
    <3>1. Statement(kind, n).name = n
      BY <1>1, <1>2, <1>3, StatementType
    <3> QED BY <2>1, <3>1 DEF Statement
  <2>3. BeginBlock(u, scopes) /\ s = [u EXCEPT !.shadows = u.name # NoName /\ IsBound(tenv, u.name)]
    BY <1>4, <2>1, <2>2
  <2> QED BY <2>3 DEF BeginBlock, Write
<1>7. /\ tenv' \in Seq(CheckScope) /\ KeepsScopes /\ Adds(x) /\ x \in Name \cup {NoName}
      /\ Len(tenv') = Len(tenv) + IF kind = "action" THEN 2 ELSE 1
  <2>1. x \in Name \cup {NoName}
    OBVIOUS
  <2> QED BY <1>2, <1>6, <2>1, GrowScopes
<1>8. /\ locals' \in [Name -> Seq(Int)] /\ keys' \subseteq Name /\ KeysCover'
      /\ \A m \in Name :
           /\ locals[m] \in Seq(Int)
           /\ m # n => locals'[m] = locals[m]
           /\ m = n => /\ locals'[m] = Append(locals[m], Here)
                       /\ locals'[m] # <<>> /\ Code(m, locals'[m]) = Here
  BY <1>1, <1>2, PushStacks
<1>9. outer' = outer
  BY DEF PushLocal
<1>10. Depth(s.kind)' = IF kind = "action" THEN 2 ELSE 1
  BY <1>3, <1>5 DEF Depth
<1>11. ASSUME NEW m \in Name PROVE locals[m] = Popped(s, m, locals'[m])
  <2>1. CASE m = n
    <3>1. Popped(s, m, locals'[m]) = SubSeq(locals'[m], 1, Len(locals'[m]) - 1)
      BY <1>3, <1>5, <1>8, <2>1 DEF Popped
    <3>2. locals'[m] = Append(locals[m], Here) /\ locals[m] \in Seq(Int)
      BY <1>8, <2>1
    <3>3. Here \in Int
      BY <1>2
    <3> QED BY <3>1, <3>2, <3>3, PopPush
  <2>2. CASE m # n
    BY <1>5, <1>8, <2>2 DEF Popped
  <2> QED BY <2>1, <2>2
<1>12. PICK h : h = Here
  OBVIOUS
<1>13. ASSUME NEW m \in Name, NEW arms, Claim(m, Len(tenv), locals[m], arms)
       PROVE  Claim(m, Len(tenv), locals[m], arms \cup NewArm(s, m, h))'
  <2>1. PICK q : q = locals'[m]
    OBVIOUS
  <2>2. CASE m = n /\ ~known
    <3>1. h \in NewArm(s, m, h)
      BY <1>3, <1>5, <2>2 DEF NewArm
    <3>2. m # x
      BY <2>2, NamesAssumption
    <3>3. \A i \in 1..Len(tenv') : tenv'[i][m] # Unbound => tenv'[i][m].at < h
      BY <1>1, <1>2, <1>7, <1>12, <3>2, NewScopes DEF Earlier
    <3> QED BY <3>1, <3>3 DEF Claim, Right, Decides
  <2>3. CASE m # n \/ known
    <3>1. IF m = x THEN Code(m, q) = Here ELSE Code(m, q) = Code(m, locals[m])
      <4>1. CASE m = n
        BY <1>8, <2>1, <2>3, <4>1
      <4>2. CASE m # n
        <5>1. m # x
          BY <4>2, NamesAssumption
        <5> QED BY <1>8, <2>1, <4>2, <5>1
      <4> QED BY <4>1, <4>2
    <3>2. \A i \in 1..Len(tenv') : Decides(tenv', m, Len(tenv'), i) =>
            Right(m, q, tenv'[i][m].at, arms)
      BY <1>2, <1>7, <1>13, <3>1, NewClaim
    <3>3. Claim(m, Len(tenv), locals[m], arms)'
      BY <2>1, <3>2 DEF Claim, Right, Code
    <3>4. PICK k : k = Len(tenv')
      OBVIOUS
    <3>5. PICK more : more = arms \cup NewArm(s, m, h)
      OBVIOUS
    <3>6. Claim(m, k, q, arms)'
      BY <2>1, <3>3, <3>4 DEF Claim, Right, Code, Decides
    <3>7. Claim(m, k, q, more)'
      BY <3>5, <3>6, ClaimMore
    <3> QED BY <2>1, <3>4, <3>5, <3>7 DEF Claim, Right, Code, Decides
  <2> QED BY <2>2, <2>3
<1>14. Fits(s) /\ InFunction(s)
  BY <1>3, <1>5 DEF Fits, InFunction
<1> QED
  <2>1. Len(tenv') = Len(tenv) + Depth(s.kind)'
    BY <1>7, <1>10
  <2>2. outer' \in [locals : [Name -> Seq(Int)], keys : SUBSET Name]
    BY <1>1, <1>9 DEF Types
  <2>3. s.kind # "let" /\ s.kind # "fn"
    BY <1>3, <1>5
  <2> QED BY <1>5, <1>6, <1>7, <1>8, <1>9, <1>11, <1>12, <1>13, <1>14, <2>1, <2>2, <2>3, BeginKeepsStep

\* An `if` narrows a name in place, and opens a scope outside the views.
LEMMA BeginIfKeeps ==
  ASSUME NamesInv, NEW n \in Name \cup {NoName}, BeginIf(n)
  PROVE  NamesInv'
<1>1. Types /\ Placed /\ Nest /\ LetsHere /\ KeysCover /\ Global /\ Earlier
  BY DEF NamesInv
<1>2. prog \in Seq(Statements) /\ open \in Seq(Nat) /\ tenv \in Seq(CheckScope) /\ tenv # <<>>
  BY <1>1 DEF Types, Global
<1>3. open # <<>>
  BY DEF BeginIf, InBody
<1>4. PICK s : s = [Statement("if", n) EXCEPT !.shadows = n # NoName /\ IsBound(tenv, n)]
  OBVIOUS
<1>5. s \in Statements /\ s.kind = "if" /\ s.name = n /\ s.in < Here
  <2>1. /\ Statement("if", n) \in Statements
        /\ Statement("if", n).kind = "if" /\ Statement("if", n).name = n
        /\ Statement("if", n).in < Here
    <3>1. "if" \in Kinds
      BY DEF Kinds, Blocks
    <3> QED BY <1>1, <1>2, <3>1, StatementType
  <2>2. (n # NoName /\ IsBound(tenv, n)) \in BOOLEAN
    BY DEF IsBound
  <2> QED BY <1>4, <2>1, <2>2 DEF Statements
<1>6. /\ prog' = Append(prog, s) /\ open' = Append(open, Here)
      /\ tenv' = Narrow(n) \o BlockScopes
      /\ UNCHANGED <<locals, keys, outer>>
  <2>1. Statement("if", n).name = n
    BY DEF Statement
  <2> QED BY <1>4, <2>1 DEF BeginIf, Begin, BeginBlock, Write
<1>7. Fits(s) /\ InFunction(s) /\ Extends(s)
  BY <1>2, <1>3, <1>5, <1>6, WriteExtends DEF Fits, InFunction, Blocks
<1>8. Len(BlockScopes)' = Len(BlockScopes)
  <2>1. Inside("view")' = Inside("view")
    BY <1>1, <1>2, <1>3, <1>6, <1>7, NestOpen
  <2> QED BY <2>1 DEF BlockScopes
<1>9. /\ Narrow(n) \in Seq(CheckScope) /\ Len(Narrow(n)) = Len(tenv)
      /\ \A k \in 1..Len(tenv), m \in Name : \A i \in 1..k :
           Decides(Narrow(n), m, k, i) =>
             \E j \in 1..k : Decides(tenv, m, k, j) /\ tenv[j][m].at = Narrow(n)[i][m].at
  <2>1. CASE n # NoName /\ Lookup(tenv, n).nullable
    <3>1. n \in Name /\ IsBound(tenv, n)
      BY <2>1 DEF BeginIf
    <3> DEFINE v == [Lookup(tenv, n) EXCEPT !.nullable = FALSE]
    <3>2. Narrow(n) = Define(tenv, n, v)
      BY <2>1 DEF Narrow
    <3>3. PICK p : p = Binder(tenv, n)
      OBVIOUS
    <3>4. /\ Decides(tenv, n, Len(tenv), p)
          /\ Lookup(tenv, n) = tenv[p][n] /\ Lookup(tenv, n) \in Binding
      BY <1>2, <3>1, <3>3, LookupFinds
    <3>5. v \in Binding /\ v.at = tenv[p][n].at
      BY <3>4 DEF Binding
    <3> HIDE DEF v
    <3>6. PICK e : e = Narrow(n)
      OBVIOUS
    <3>7. /\ e \in Seq(CheckScope) /\ Len(e) = Len(tenv)
          /\ \A j \in 1..Len(tenv), m \in Name :
               e[j][m] = IF j = Len(tenv) /\ m = n THEN v ELSE tenv[j][m]
      BY <1>2, <3>1, <3>2, <3>5, <3>6, DefineSlot
    <3>8. ASSUME NEW k \in 1..Len(tenv), NEW m \in Name, NEW i \in 1..k,
                 Decides(e, m, k, i)
          PROVE  \E j \in 1..k : Decides(tenv, m, k, j) /\ tenv[j][m].at = e[i][m].at
      <4>1. Len(tenv) \in Nat
        BY <1>2, LenProperties
      <4>2. CASE i = Len(tenv) /\ m = n
        <5>1. k = Len(tenv) /\ p \in 1..k
          BY <3>4, <4>1, <4>2 DEF Decides
        <5> QED BY <3>4, <3>5, <3>7, <4>1, <4>2, <5>1
      <4>3. CASE ~(i = Len(tenv) /\ m = n)
        <5>1. \A j \in (i + 1)..k : j \in 1..Len(tenv)
          BY <4>1
        <5>2. i \in 1..Len(tenv) /\ e[i][m] = tenv[i][m]
          BY <3>7, <4>1, <4>3
        <5>3. \A j \in (i + 1)..k : tenv[j][m] = Unbound
          <6> SUFFICES ASSUME NEW j \in (i + 1)..k PROVE tenv[j][m] = Unbound
            OBVIOUS
          <6>1. e[j][m] = Unbound
            BY <3>8 DEF Decides
          <6>2. v # Unbound
            BY <3>5, UnboundBinding
          <6> QED BY <3>7, <5>1, <6>1, <6>2
        <5> QED BY <3>8, <5>2, <5>3 DEF Decides
      <4> QED BY <4>2, <4>3
    <3> QED BY <3>6, <3>7, <3>8
  <2>2. CASE ~(n # NoName /\ Lookup(tenv, n).nullable)
    BY <1>2, <2>2 DEF Narrow
  <2> QED BY <2>1, <2>2
<1>10. tenv' \in Seq(CheckScope) /\ KeepsScopes /\ Adds(NoName)
       /\ Len(tenv') = Len(tenv) + Len(BlockScopes)
  <2>1. PICK e : e = Narrow(n)
    OBVIOUS
  <2>2. PICK x : x = BlockScopes
    OBVIOUS
  <2>3. x \in Seq(CheckScope) /\ \A i \in 1..Len(x), m \in Name : x[i][m] = Unbound
    BY <2>2, EmptyScopeType DEF BlockScopes
  <2>4. /\ tenv' \in Seq(CheckScope) /\ Len(tenv') = Len(e) + Len(x)
        /\ \A i \in 1..Len(tenv') : tenv'[i] = IF i <= Len(e) THEN e[i] ELSE x[i - Len(e)]
    <3>1. tenv' = e \o x
      BY <1>6, <2>1, <2>2
    <3>2. e \in Seq(CheckScope)
      BY <1>9, <2>1
    <3> QED BY <2>3, <3>1, <3>2, ConcatProperties
  <2>5. Len(e) = Len(tenv) /\ Len(tenv) \in Nat /\ Len(x) \in Nat
    BY <1>2, <1>9, <2>1, <2>3, LenProperties
  <2>6. \A i \in 1..Len(tenv) : tenv'[i] = e[i]
    BY <2>4, <2>5
  <2>7. \A i \in (Len(tenv) + 1)..Len(tenv') : tenv'[i] = x[i - Len(tenv)] /\ i - Len(tenv) \in 1..Len(x)
    BY <2>4, <2>5
  <2>8. KeepsScopes
    <3>1. Len(tenv) <= Len(tenv')
      BY <2>4, <2>5
    <3>2. ASSUME NEW k \in 1..Len(tenv), NEW m \in Name, NEW i \in 1..k,
                 Decides(tenv', m, k, i)
          PROVE  Decides(e, m, k, i) /\ tenv'[i][m].at = e[i][m].at
      <4>1. \A j \in (i + 1)..k : j \in 1..Len(tenv)
        BY <2>5
      <4>2. i \in 1..Len(tenv)
        BY <2>5
      <4> QED BY <2>6, <3>2, <4>1, <4>2 DEF Decides
    <3> QED BY <1>9, <2>1, <3>1, <3>2 DEF KeepsScopes
  <2>9. Adds(NoName)
    BY <2>3, <2>7, NamesAssumption DEF Adds
  <2> QED BY <2>2, <2>4, <2>5, <2>8, <2>9
<1>11. Len(tenv') = Len(tenv) + Depth(s.kind)'
  <2>1. Depth(s.kind)' = Len(BlockScopes)'
    BY <1>5 DEF Depth
  <2> QED BY <1>8, <1>10, <2>1
<1>12. PICK h : h = Here
  OBVIOUS
<1>13. ASSUME NEW m \in Name, NEW arms, Claim(m, Len(tenv), locals[m], arms)
       PROVE  Claim(m, Len(tenv), locals[m], arms \cup NewArm(s, m, h))'
  <2>1. m # NoName
    BY NamesAssumption
  <2>2. \A i \in 1..Len(tenv') : Decides(tenv', m, Len(tenv'), i) =>
           Right(m, locals[m], tenv'[i][m].at, arms)
    BY <1>2, <1>10, <1>13, <2>1, NewClaim
  <2>3. arms \cup NewArm(s, m, h) = arms
    BY <1>5 DEF NewArm
  <2>4. Claim(m, Len(tenv), locals[m], arms)'
    BY <1>6, <2>2 DEF Claim, Code, Right
  <2> QED BY <2>3, <2>4
<1>14. /\ locals' \in [Name -> Seq(Int)] /\ keys' \subseteq Name /\ KeysCover'
       /\ outer' \in [locals : [Name -> Seq(Int)], keys : SUBSET Name]
  BY <1>1, <1>6 DEF Types, KeysCover
<1>15. \A m \in Name : locals[m] = Popped(s, m, locals'[m])
  BY <1>5, <1>6 DEF Popped
<1> QED
  <2>1. s.kind # "let" /\ s.kind # "fn" /\ outer' = outer
    BY <1>5, <1>6
  <2> QED BY <1>5, <1>6, <1>7, <1>10, <1>11, <1>12, <1>13, <1>14, <1>15, <2>1, BeginKeepsStep

\* The body of a lambda starts from the captures: the code that reads a name
\* is as right or wrong as outside, save a field captured as local 0.
LEMMA BeginLambdaKeeps ==
  ASSUME NamesInv, NEW n \in Name, BeginLambda(n)
  PROVE  NamesInv'
<1>1. Types /\ Placed /\ Nest /\ LetsHere /\ KeysCover /\ Global /\ Earlier
  BY DEF NamesInv
<1>2. prog \in Seq(Statements) /\ open \in Seq(Nat) /\ tenv \in Seq(CheckScope) /\ Here \in Nat
      /\ locals \in [Name -> Seq(Int)] /\ keys \subseteq Name
  BY <1>1, LenProperties DEF Types, Here
<1>3. open # <<>> /\ ~Inside("fn")
  BY DEF BeginLambda, InBody
<1>4. PICK s : s = [Statement("fn", n) EXCEPT !.shadows = n # NoName /\ IsBound(tenv, n)]
  OBVIOUS
<1>5. s \in Statements /\ s.kind = "fn" /\ s.name = n /\ s.in < Here
  <2>1. /\ Statement("fn", n) \in Statements
        /\ Statement("fn", n).kind = "fn" /\ Statement("fn", n).name = n
        /\ Statement("fn", n).in < Here
    <3>1. "fn" \in Kinds
      BY DEF Kinds, Blocks
    <3> QED BY <1>1, <1>2, <3>1, StatementType
  <2>2. (n # NoName /\ IsBound(tenv, n)) \in BOOLEAN
    BY DEF IsBound
  <2> QED BY <1>4, <2>1, <2>2 DEF Statements
<1>6. /\ prog' = Append(prog, s) /\ open' = Append(open, Here)
      /\ tenv' = Append(tenv, Bind(n, Bound))
      /\ EnterLambda(n)
  <2>1. Statement("fn", n).name = n
    BY DEF Statement
  <2> QED BY <1>4, <2>1 DEF BeginLambda, Begin, BeginBlock, Write
<1>7. Fits(s) /\ InFunction(s)
  BY <1>3, <1>5 DEF Fits, InFunction, Blocks
<1>8. /\ tenv' \in Seq(CheckScope) /\ KeepsScopes /\ Adds(n)
      /\ Len(tenv') = Len(tenv) + 1
  BY <1>2, <1>6, GrowScopes
<1>9. Len(tenv') = Len(tenv) + Depth(s.kind)'
  BY <1>5, <1>8 DEF Depth
<1>10. \A m \in Name : Len(locals[m]) \in Nat /\ (locals[m] # <<>> => Top(m) \in Int)
  <2>1. \A m \in Name : locals[m] \in Seq(Int)
    BY <1>2
  <2> QED BY <2>1, ElementOfSeq, EmptySeq, LenProperties DEF Top
<1>11. \A m \in Name :
         /\ locals'[m] \in Seq(Int)
         /\ m = n => locals'[m] = <<Here>>
         /\ m # n /\ m \in keys => locals'[m] = <<IF locals[m] = <<>> THEN Local0 ELSE Top(m)>>
         /\ m # n /\ m \notin keys => locals'[m] = <<>>
  BY <1>2, <1>6, <1>10 DEF EnterLambda, Local0
<1>12. locals' \in [Name -> Seq(Int)]
  <2>1. DOMAIN locals' = Name /\ locals' = [m \in Name |-> locals'[m]]
    BY <1>6 DEF EnterLambda
  <2> QED BY <1>11, <2>1
<1>13. /\ keys' = keys \cup {n} /\ outer' = [locals |-> locals, keys |-> keys]
  BY <1>6, NamesAssumption DEF EnterLambda
<1>14. /\ keys' \subseteq Name /\ outer'.locals = locals
       /\ outer' \in [locals : [Name -> Seq(Int)], keys : SUBSET Name]
  BY <1>2, <1>13
<1>15. KeysCover'
  BY <1>1, <1>11, <1>13 DEF KeysCover
<1>16. PICK h : h = Here
  OBVIOUS
<1>17. ASSUME NEW m \in Name, NEW arms, Claim(m, Len(tenv), locals[m], arms)
       PROVE  Claim(m, Len(tenv), locals[m], arms \cup NewArm(s, m, h))'
  <2>1. \A x : <<x>> # <<>> /\ Len(<<x>>) = 1 /\ <<x>>[1] = x
    OBVIOUS
  <2>2. IF m = n THEN Code(m, locals'[m]) = Here
        ELSE \/ Code(m, locals'[m]) = Code(m, locals[m]) \/ Code(m, locals[m]) = NoLocal
             \/ m \in Field /\ Code(m, locals'[m]) = Local0
    <3>1. CASE m = n
      BY <1>11, <2>1, <3>1 DEF Code
    <3>2. CASE m # n /\ m \in keys /\ locals[m] # <<>>
      BY <1>11, <2>1, <3>2 DEF Code, Top
    <3>3. CASE m # n /\ m \in keys /\ locals[m] = <<>>
      BY <1>11, <2>1, <3>3 DEF Code
    <3>4. CASE m # n /\ m \notin keys
      BY <1>1, <1>11, <3>4 DEF Code, KeysCover
    <3> QED BY <3>1, <3>2, <3>3, <3>4
  <2>3. \A i \in 1..Len(tenv') : Decides(tenv', m, Len(tenv'), i) =>
           Right(m, locals'[m], tenv'[i][m].at, arms)
    <3>1. PICK p : p = locals[m]
      OBVIOUS
    <3>2. PICK q : q = locals'[m]
      OBVIOUS
    <3>3. IF m = n THEN Code(m, q) = Here
          ELSE \/ Code(m, q) = Code(m, p) \/ Code(m, p) = NoLocal
               \/ m \in Field /\ Code(m, q) = Local0
      BY <2>2, <3>1, <3>2
    <3>4. Claim(m, Len(tenv), p, arms)
      BY <1>17, <3>1
    <3>5. n \in Name \cup {NoName} /\ tenv \in Seq(CheckScope)
      BY <1>2
    <3>6. \A i \in 1..Len(tenv') : Decides(tenv', m, Len(tenv'), i) =>
           Right(m, q, tenv'[i][m].at, arms)
      BY <1>8, <3>3, <3>4, <3>5, NewClaim
    <3> QED BY <3>2, <3>6
  <2>4. Claim(m, Len(tenv), locals[m], arms)'
    BY <2>3 DEF Claim, Right, Code
  <2>5. arms \cup NewArm(s, m, h) = arms
    BY <1>5 DEF NewArm
  <2> QED BY <2>4, <2>5
<1> QED
  <2>1. s.kind # "let"
    BY <1>5
  <2> QED BY <1>3, <1>5, <1>6, <1>7, <1>8, <1>9, <1>12, <1>14, <1>15, <1>16, <1>17, <2>1, BeginKeepsStep

-----------------------------------------------------------------------------
(* A `let`                                                                  *)

LEMMA DefineClaims ==
  ASSUME tenv \in Seq(CheckScope), tenv # <<>>, Here \in Nat, NEW n \in Name, NEW nullable \in BOOLEAN,
         tenv' = Define(tenv, n, [at |-> Here, nullable |-> nullable])
  PROVE  /\ tenv' \in Seq(CheckScope) /\ Len(tenv') = Len(tenv)
         /\ \A i \in 1..Len(tenv), m \in Name :
              i # Len(tenv) \/ m # n => tenv'[i][m] = tenv[i][m]
         /\ \A m \in Name, k \in 0..Len(tenv) : \A q, arms :
              m # n /\ Claim(m, k, q, arms) => Claim(m, k, q, arms)'
         /\ \A i \in 1..Len(tenv') :
              Decides(tenv', n, Len(tenv'), i) => tenv'[i][n].at = Here
<1>1. PICK v : v = [at |-> Here, nullable |-> nullable]
  OBVIOUS
<1>2. v \in Binding /\ v.at = Here /\ v # Unbound
  <2>1. v \in Binding /\ v.at = Here
    BY <1>1 DEF Binding
  <2> QED BY <2>1, UnboundBinding
<1>3. Len(tenv) \in Nat /\ Len(tenv) # 0
  BY EmptySeq
<1>4. /\ tenv' \in Seq(CheckScope) /\ Len(tenv') = Len(tenv)
      /\ \A j \in 1..Len(tenv), m \in Name :
           tenv'[j][m] = IF j = Len(tenv) /\ m = n THEN v ELSE tenv[j][m]
  <2>1. tenv' = Define(tenv, n, v)
    BY <1>1
  <2>2. PICK e : e = Define(tenv, n, v)
    OBVIOUS
  <2>3. v \in Binding
    BY <1>2
  <2>4. /\ e \in Seq(CheckScope) /\ Len(e) = Len(tenv)
        /\ \A j \in 1..Len(tenv), m \in Name :
             e[j][m] = IF j = Len(tenv) /\ m = n THEN v ELSE tenv[j][m]
    BY <2>2, <2>3, DefineSlot
  <2> QED BY <2>1, <2>2, <2>4
<1>5. ASSUME NEW m \in Name, m # n, NEW k \in 0..Len(tenv), NEW q, NEW arms,
             Claim(m, k, q, arms)
      PROVE  Claim(m, k, q, arms)'
  <2> SUFFICES ASSUME NEW i \in 1..k, Decides(tenv', m, k, i)
               PROVE  Right(m, q, tenv'[i][m].at, arms)
    BY DEF Claim, Code, Right
  <2>1. \A j \in 1..k : tenv'[j][m] = tenv[j][m]
    BY <1>3, <1>4, <1>5
  <2>2. \A j \in (i + 1)..k : j \in 1..k
    OBVIOUS
  <2> QED BY <1>5, <2>1, <2>2 DEF Claim, Decides
<1>6. ASSUME NEW i \in 1..Len(tenv'), Decides(tenv', n, Len(tenv'), i)
      PROVE  tenv'[i][n].at = Here
  <2>1. i # Len(tenv) => Len(tenv) \in (i + 1)..Len(tenv')
    BY <1>3, <1>4
  <2>2. Len(tenv) \in 1..Len(tenv)
    BY <1>3
  <2> QED BY <1>2, <1>4, <1>6, <2>1, <2>2 DEF Decides
<1>7. \A i \in 1..Len(tenv), m \in Name :
        i # Len(tenv) \/ m # n => tenv'[i][m] = tenv[i][m]
  BY <1>4
<1> QED BY <1>4, <1>5, <1>6, <1>7

\* Outside a unit there is one scope; inside there are more.
LEMMA Inner ==
  ASSUME Types, Nest, open # <<>>, NEW b, NEW l, InStep(b, l)
  PROVE  Len(tenv) >= 2
<1>1. Len(open) \in Nat \ {0} /\ Len(tenv) \in Nat
  BY EmptySeq, LenProperties DEF Types
<1>2. PICK t \in Nat \ {0} : t = Len(open)
  BY <1>1
<1>3. Levels(b, l, t + 1) /\ b[t + 1] = Len(tenv)
  BY <1>2 DEF InStep
<1>4. prog[open[1]].kind \in Units
  BY <1>1 DEF Nest
<1>5. /\ 1 \in 1..(t + 1) /\ 2 \in 1..(t + 1) /\ t + 1 \in 1..(t + 1) /\ 1 \in 1..(t + 1 - 1)
      /\ 2 <= t + 1 /\ 1 + 1 = 2
  BY <1>2
<1>6. b[1] = 1 /\ b[2] = b[1] + Depth(prog[open[1]].kind) /\ b[2] <= b[t + 1]
  <2>1. \A d \in 1..(t + 1 - 1) : b[d + 1] = b[d] + Depth(prog[open[d]].kind)
    BY <1>3 DEF Levels
  <2>2. b[1] = 1 /\ \A d, e \in 1..(t + 1) : d <= e => b[d] <= b[e]
    BY <1>3 DEF Levels
  <2> QED BY <1>5, <2>1, <2>2
<1>7. PICK k : k = Depth(prog[open[1]].kind)
  OBVIOUS
<1>8. k \in Nat /\ k >= 1
  BY <1>4, <1>7, DepthType
<1> QED BY <1>1, <1>3, <1>6, <1>7, <1>8

LEMMA LetKeeps ==
  ASSUME NamesInv, NEW n \in Name, NEW nullable \in BOOLEAN, Let(n, nullable)
  PROVE  NamesInv'
<1>1. Types /\ Placed /\ Nest /\ LetsHere /\ KeysCover /\ Global /\ Earlier
  BY DEF NamesInv
<1>2. /\ prog \in Seq(Statements) /\ open \in Seq(Nat) /\ Len(open) \in Nat
      /\ tenv \in Seq(CheckScope) /\ Len(tenv) \in Nat /\ tenv # <<>>
      /\ Here \in Nat /\ Here = Len(prog) + 1 /\ Len(prog) \in Nat
      /\ locals \in [Name -> Seq(Int)]
  BY <1>1, LenProperties DEF Types, Global, Here
<1>3. open # <<>> /\ n # NoName /\ Len(open) # 0
  BY <1>2, NamesAssumption, EmptySeq DEF Let
<1>4. PICK s : s = [Statement("let", n) EXCEPT !.nullable = nullable, !.shadows = IsBound(tenv, n)]
  OBVIOUS
<1>5. /\ s \in Statements /\ s.kind = "let" /\ s.name = n /\ s.in < Here
      /\ s.in = Innermost /\ s.in >= 1
  <2>1. /\ Statement("let", n) \in Statements
        /\ Statement("let", n).kind = "let" /\ Statement("let", n).name = n
        /\ Statement("let", n).in < Here
        /\ Statement("let", n).in = Innermost /\ Statement("let", n).in >= 1
    <3>1. "let" \in Kinds
      BY DEF Kinds
    <3> QED BY <1>1, <1>2, <1>3, <3>1, StatementType
  <2>2. IsBound(tenv, n) \in BOOLEAN
    BY DEF IsBound
  <2> QED BY <1>4, <2>1, <2>2 DEF Statements
<1>6. /\ prog' = Append(prog, s) /\ open' = open
      /\ tenv' = Define(tenv, n, [at |-> Here, nullable |-> nullable])
      /\ PushLocal(n)
  BY <1>4 DEF Let, Write
<1>7. Extends(s) /\ InFunction(s)
  BY <1>2, <1>5, <1>6, WriteExtends DEF InFunction
<1>8. /\ tenv' \in Seq(CheckScope) /\ Len(tenv') = Len(tenv)
      /\ \A i \in 1..Len(tenv), m \in Name :
           i # Len(tenv) \/ m # n => tenv'[i][m] = tenv[i][m]
      /\ \A m \in Name, k \in 0..Len(tenv) : \A q, arms :
           m # n /\ Claim(m, k, q, arms) => Claim(m, k, q, arms)'
      /\ \A i \in 1..Len(tenv') :
           Decides(tenv', n, Len(tenv'), i) => tenv'[i][n].at = Here
  BY <1>2, <1>6, DefineClaims
<1>9. /\ locals' \in [Name -> Seq(Int)] /\ keys' \subseteq Name /\ KeysCover'
      /\ \A m \in Name : m # n => locals'[m] = locals[m]
      /\ Code(n, locals'[n]) = Here
  BY <1>1, <1>2, <1>6, PushStacks
<1>10. outer' = outer
  BY <1>6 DEF PushLocal
<1>11. PICK b, l : InStep(b, l)
  BY DEF NamesInv
<1>12. Len(tenv) >= 2
  BY <1>1, <1>3, <1>11, Inner
<1>13. Types' /\ Placed' /\ Nest' /\ LetsHere' /\ KeysCover' /\ Global' /\ Earlier'
  <2>1. Types'
    BY <1>1, <1>6, <1>7, <1>8, <1>9, <1>10 DEF Types, Extends
  <2>2. Placed'
    BY <1>1, <1>2, <1>5, <1>7, PlacedKept
  <2>3. Nest'
    BY <1>1, <1>2, <1>6, <1>7, NestSame
  <2>4. LetsHere'
    BY <1>1, <1>2, <1>6, <1>7, LetsHereKept
  <2>5. Global'
    <3>1. 1 \in 1..Len(tenv) /\ 1 # Len(tenv)
      <4>1. Len(tenv) \in Nat
        BY <1>2
      <4>2. PICK k : k = Len(tenv)
        OBVIOUS
      <4>3. k \in Nat /\ k >= 2
        BY <1>12, <4>1, <4>2
      <4> QED BY <4>2, <4>3
    <3>2. \A m \in Name : tenv'[1][m] = tenv[1][m]
      BY <1>8, <3>1
    <3>3. tenv' # <<>>
      BY <1>2, <1>8, <1>12, EmptySeq
    <3> QED BY <1>1, <3>2, <3>3 DEF Global
  <2>6. Earlier'
    <3>1. ASSUME NEW i \in 1..Len(tenv'), NEW m \in Name, tenv'[i][m] # Unbound
          PROVE  \/ tenv'[i][m].at = Here
                 \/ \E j \in 1..Len(tenv) :
                      tenv[j][m] # Unbound /\ tenv[j][m].at = tenv'[i][m].at
      <4>1. CASE i = Len(tenv) /\ m = n
        <5>1. Decides(tenv', n, Len(tenv'), i)
          <6>1. (i + 1)..Len(tenv') = {}
            BY <1>2, <1>8, <4>1
          <6> QED BY <3>1, <4>1, <6>1 DEF Decides
        <5> QED BY <1>8, <4>1, <5>1
      <4>2. CASE ~(i = Len(tenv) /\ m = n)
        <5>1. i \in 1..Len(tenv) /\ tenv'[i][m] = tenv[i][m]
          BY <1>8, <4>2
        <5> QED BY <3>1, <5>1
      <4> QED BY <4>1, <4>2
    <3> QED BY <1>1, <1>7, <1>8, <3>1, EarlierKept
  <2> QED BY <1>9, <2>1, <2>2, <2>3, <2>4, <2>5, <2>6
<1>14. Inside("view")' = Inside("view")
  BY <1>1, <1>2, <1>6, <1>7, NestSame
<1>15. PICK t \in Nat \ {0} : t = Len(open)
  BY <1>2, <1>3
<1>16. PICK w : w = locals'
  OBVIOUS
<1>17. PICK k : k = Len(tenv')
  OBVIOUS
<1>18. PICK m : m = [d \in 1..(t + 1) |-> IF d = t + 1 THEN w ELSE l[d]]
  OBVIOUS
<1>19. /\ \A d \in 1..t : m[d] = l[d] /\ d \in 1..(t + 1) /\ d # t + 1
       /\ m[t + 1] = w
  BY <1>15, <1>18
<1>20. LetIn(n, open[t])'
  <2>1. Here \in Lets(n)' /\ prog'[Here].in = open[t]
    <3>1. prog'[Here] = s /\ Len(prog') = Len(prog) + 1 /\ prog' \in Seq(Statements)
      BY <1>7 DEF Extends
    <3>2. Here \in DOMAIN prog'
      BY <1>2, <3>1, LenProperties
    <3>3. Here \in Lets(n)'
      BY <1>5, <3>1, <3>2 DEF Lets
    <3> QED BY <1>5, <1>15, <3>1, <3>3 DEF Innermost
  <2> QED BY <1>6, <2>1 DEF LetIn
<1>21. Levels(b, l, t + 1) /\ b[t + 1] = Len(tenv) /\ l[t + 1] = locals
  BY <1>11, <1>15 DEF InStep
<1>22. \A d \in 1..(t + 1) : b[d] \in 0..Len(tenv)
  <2>1. \A d \in 1..(t + 1) : b[d] \in Nat /\ d <= t + 1 /\ t + 1 \in 1..(t + 1)
    BY <1>21 DEF Levels
  <2>2. \A d \in 1..(t + 1), e \in 1..(t + 1) : d <= e => b[d] <= b[e]
    BY <1>21 DEF Levels
  <2> QED BY <1>2, <1>21, <2>1, <2>2
<1>23. \A d \in 1..t : LetAbove(n, d)'
  <2> SUFFICES ASSUME NEW d \in 1..t PROVE LetAbove(n, d)'
    OBVIOUS
  <2>1. t \in d..Len(open')
    BY <1>2, <1>6, <1>15
  <2> QED BY <1>20, <2>1 DEF LetAbove
<1>24. Levels(b, m, t)'
  <2>1. t \in 1..(Len(open) + 1) /\ Len(open') \in Nat /\ Len(open') >= t - 1
    BY <1>2, <1>6, <1>15
  <2>2. \A e \in 1..(t - 1) : open'[e] = open[e]
    BY <1>6
  <2>3. \A e \in t..Len(open) : (e \in t..Len(open') /\ open'[e] = open[e]) \/ prog'[open[e]].end # 0
    BY <1>6
  <2>4. \A d \in 1..t, i \in Name : \A arms :
          Claim(i, b[d], l[d][i], arms) =>
            Claim(i, b[d], l[d][i], arms)' \/ LetAbove(i, d)'
    <3> SUFFICES ASSUME NEW d \in 1..t, NEW i \in Name, NEW arms, Claim(i, b[d], l[d][i], arms)
                 PROVE  Claim(i, b[d], l[d][i], arms)' \/ LetAbove(i, d)'
      OBVIOUS
    <3>1. CASE i = n
      <4>1. PICK e \in (d..Len(open))' : LetIn(n, open[e])'
        BY <1>23 DEF LetAbove
      <4> QED BY <3>1, <4>1 DEF LetAbove
    <3>2. CASE i # n
      <4>1. b[d] \in 0..Len(tenv)
        BY <1>19, <1>22
      <4> QED BY <1>8, <3>2, <4>1
    <3> QED BY <3>1, <3>2
  <2>5. Levels(b, l, Len(open) + 1)
    BY <1>15, <1>21
  <2>6. \A d \in 1..t : b[d] = b[d] /\ m[d] = l[d]
    BY <1>19
  <2> QED BY <1>1, <1>7, <1>10, <1>14, <2>1, <2>2, <2>3, <2>4, <2>5, <2>6, LevelsBelow
<1>25. /\ prog'[open'[t]].kind = prog[open[t]].kind
       /\ prog'[open'[t]].name = prog[open[t]].name
  <2>1. open[t] \in 1..Len(prog)
    BY <1>1, <1>15 DEF Nest
  <2> QED BY <1>6, <1>7, <2>1 DEF Extends
<1>26. b[t + 1] = b[t] + Depth(prog[open[t]].kind) /\ Returns(l, t)
  <2>1. t \in 1..(t + 1 - 1)
    OBVIOUS
  <2> QED BY <1>21, <2>1 DEF Levels
<1>27. b[t + 1] = b[t] + (Depth(prog[open[t]].kind))'
  <2>1. (Depth(prog[open[t]].kind))' = Depth(prog[open[t]].kind)
    BY <1>14, <1>25 DEF Depth, BlockScopes
  <2> QED BY <1>26, <2>1
<1>28. m[t] = l[t] /\ m[t + 1] = locals' /\ l[t + 1] = locals
  BY <1>15, <1>16, <1>19, <1>21
<1>29. Returns(m, t)'
  <2>1. CASE prog[open[t]].kind = "fn"
    BY <1>10, <1>25, <1>26, <1>28, <2>1 DEF Returns
  <2>2. CASE prog[open[t]].kind # "fn"
    <3>1. ASSUME NEW i \in Name
          PROVE  \/ Leaky(i)' \/ LetIn(i, open[t])'
                 \/ m[t][i] = Popped(prog'[open'[t]], i, m[t + 1][i])
      <4>1. CASE i = n
        BY <1>20, <4>1 DEF LetIn
      <4>2. CASE i # n
        <5>1. \/ Leaky(i) \/ LetIn(i, open[t])
              \/ l[t][i] = Popped(prog[open[t]], i, l[t + 1][i])
          BY <1>26, <2>2 DEF Returns
        <5>2. Leaky(i) => Leaky(i)'
          BY <1>1, <1>2, <1>7, LeakyKept
        <5>3. LetIn(i, open[t]) => LetIn(i, open[t])'
          <6> SUFFICES ASSUME LetIn(i, open[t]) PROVE LetIn(i, open[t])'
            OBVIOUS
          <6>1. PICK j \in Lets(i) : prog[j].in = open[t]
            BY DEF LetIn
          <6>2. j \in Lets(i)' /\ prog'[j].in = open'[t]
            BY <1>2, <1>6, <1>7, <6>1, LetsGrow DEF Extends
          <6> QED BY <6>2 DEF LetIn
        <5>4. Popped(prog[open[t]], i, l[t + 1][i]) = Popped(prog'[open'[t]], i, m[t + 1][i])
          BY <1>9, <1>25, <1>28, <4>2 DEF Popped
        <5> QED BY <1>28, <5>1, <5>2, <5>3, <5>4
      <4> QED BY <4>1, <4>2
    <3> QED BY <1>25, <2>2, <3>1 DEF Returns
  <2> QED BY <2>1, <2>2
<1>30. ASSUME NEW i \in Name PROVE Settles(i, t + 1, b[t + 1], m[t + 1][i])'
  <2>1. CASE i = n
    <3>1. PICK a : a = Arms(n, t + 1)'
      OBVIOUS
    <3>2. Claim(n, k, w[n], a)'
      BY <1>8, <1>9, <1>16, <1>17 DEF Claim, Code, Right
    <3>3. b[t + 1] = k /\ m[t + 1] = w
      BY <1>8, <1>17, <1>19, <1>21
    <3> QED BY <2>1, <3>1, <3>2, <3>3 DEF Settles
  <2>2. CASE i # n
    <3>1. Settles(i, t + 1, b[t + 1], l[t + 1][i])
      <4>1. t + 1 \in 1..(t + 1)
        OBVIOUS
      <4> QED BY <1>21, <4>1 DEF Levels
    <3>2. ~LetAbove(i, t + 1)
      BY <1>2, <1>15 DEF LetAbove
    <3>3. CASE Leaky(i)
      BY <1>1, <1>2, <1>7, <3>3, LeakyKept DEF Settles
    <3>4. CASE Claim(i, b[t + 1], l[t + 1][i], Arms(i, t + 1))
      <4> PICK a : a = Arms(i, t + 1)
        OBVIOUS
      <4>0. Arms(i, t + 1)' = a
        <5>1. t + 1 - 1 = t
          OBVIOUS
        <5>2. \A e \in 1..(t + 1 - 1) : e \in 1..Len(open) /\ open'[e] = open[e]
          BY <1>6, <1>15, <5>1
        <5> QED BY <1>1, <1>7, <5>2, ArmsKept
      <4>1. l[t + 1][i] = m[t + 1][i]
        BY <1>9, <1>28, <2>2
      <4>2. t + 1 \in 1..(t + 1)
        OBVIOUS
      <4>3. Claim(i, b[t + 1], l[t + 1][i], a)'
        BY <1>8, <1>22, <2>2, <3>4, <4>2
      <4> QED BY <4>0, <4>1, <4>3 DEF Settles
    <3> QED BY <3>1, <3>2, <3>3, <3>4 DEF Settles
  <2> QED BY <2>1, <2>2
<1>31. Levels(b, m, Len(open) + 1)'
  <2>1. b[t + 1] \in Nat /\ m[t + 1] \in [Name -> Seq(Int)]
    BY <1>2, <1>9, <1>16, <1>19, <1>21
  <2>2. Len(open') = t
    BY <1>6, <1>15
  <2> QED BY <1>24, <1>27, <1>29, <1>30, <2>1, <2>2, AddLevel
<1>32. InStep(b, m)'
  BY <1>6, <1>8, <1>15, <1>21, <1>28, <1>31 DEF InStep
<1> QED BY <1>13, <1>32 DEF NamesInv

-----------------------------------------------------------------------------
(* A construct ends                                                         *)

\* Back to the first k scopes, with empty ones behind them or none.
LEMMA BackTo ==
  ASSUME tenv \in Seq(CheckScope), tenv' \in Seq(CheckScope), NEW k \in 1..Len(tenv),
         k <= Len(tenv'), \A i \in 1..k : tenv'[i] = tenv[i],
         \A i \in (k + 1)..Len(tenv'), n \in Name : tenv'[i][n] = Unbound,
         NEW n \in Name, NEW q, NEW arms
  PROVE  /\ \A j \in 0..k : Claim(n, j, q, arms) => Claim(n, j, q, arms)'
         /\ Claim(n, k, q, arms) =>
              \A i \in 1..Len(tenv') : Decides(tenv', n, Len(tenv'), i) =>
                Right(n, q, tenv'[i][n].at, arms)
<1>1. Len(tenv) \in Nat /\ Len(tenv') \in Nat /\ k \in Nat
  BY LenProperties
<1>2. ASSUME NEW j \in 0..k, Claim(n, j, q, arms) PROVE Claim(n, j, q, arms)'
  <2> SUFFICES ASSUME NEW i \in 1..j, Decides(tenv', n, j, i)
               PROVE  Right(n, q, tenv'[i][n].at, arms)
    BY DEF Claim, Code, Right
  <2>1. \A d \in 1..j : d \in 1..k
    BY <1>1
  <2>2. \A d \in (i + 1)..j : d \in 1..j
    OBVIOUS
  <2> QED BY <1>2, <2>1, <2>2 DEF Claim, Decides
<1>3. ASSUME Claim(n, k, q, arms), NEW i \in 1..Len(tenv'), Decides(tenv', n, Len(tenv'), i)
      PROVE  Right(n, q, tenv'[i][n].at, arms)
  <2>1. i \in 1..k
    <3>1. tenv'[i][n] # Unbound
      BY <1>3 DEF Decides
    <3>2. i \notin (k + 1)..Len(tenv')
      BY <3>1
    <3> QED BY <1>1, <3>2
  <2>2. \A d \in (i + 1)..k : d \in (i + 1)..Len(tenv') /\ d \in 1..k
    BY <1>1, <2>1
  <2>3. Decides(tenv, n, k, i) /\ tenv'[i] = tenv[i]
    BY <1>3, <2>1, <2>2 DEF Decides
  <2> QED BY <1>3, <2>1, <2>3 DEF Claim
<1> QED BY <1>2, <1>3

\* What has leaked no longer matters.
LEMMA ReplaceTop ==
  ASSUME NEW b, NEW l, NEW t \in Nat \ {0}, Levels(b, l, t)',
         NEW w \in [Name -> Seq(Int)], \A n \in Name : w[n] = l[t][n] \/ Leaky(n)'
  PROVE  \E m : m[t] = w /\ Levels(b, m, t)'
<1>1. PICK m : m = [d \in 1..t |-> IF d = t THEN w ELSE l[d]]
  OBVIOUS
<1>2. /\ m[t] = w /\ \A d \in 1..t : d # t => m[d] = l[d]
  BY <1>1
<1>3. /\ \A d \in 1..t : b[d] \in Nat /\ l[d] \in [Name -> Seq(Int)]
      /\ b[1] = 1 /\ \A d \in 1..t, e \in 1..t : d <= e => b[d] <= b[e]
      /\ \A d \in 1..(t - 1) :
           b[d + 1] = b[d] + (Depth(prog[open[d]].kind))' /\ Returns(l, d)'
      /\ \A d \in 1..t, n \in Name : Settles(n, d, b[d], l[d][n])'
  BY DEF Levels
<1>4. \A d \in 1..t : m[d] \in [Name -> Seq(Int)]
  BY <1>2, <1>3
<1>5. \A d \in 1..t, n \in Name : m[d][n] = l[d][n] \/ Leaky(n)'
  BY <1>2
<1>6. ASSUME NEW d \in 1..(t - 1) PROVE Returns(m, d)'
  <2>1. m[d] = l[d] /\ d + 1 \in 1..t /\ Returns(l, d)'
    BY <1>2, <1>3
  <2>2. CASE prog'[open'[d]].kind = "fn"
    BY <2>1, <2>2 DEF Returns
  <2>3. CASE prog'[open'[d]].kind # "fn"
    <3>1. \A n \in Name :
            \/ Leaky(n)' \/ LetIn(n, open[d])'
            \/ l[d][n] = Popped(prog'[open'[d]], n, l[d + 1][n])
      BY <2>1, <2>3 DEF Returns
    <3>2. \A n \in Name :
            \/ Leaky(n)' \/ LetIn(n, open[d])'
            \/ m[d][n] = Popped(prog'[open'[d]], n, m[d + 1][n])
      BY <1>5, <2>1, <3>1
    <3> QED BY <2>3, <3>2 DEF Returns
  <2> QED BY <2>2, <2>3
<1>7. \A d \in 1..t, n \in Name : Settles(n, d, b[d], m[d][n])'
  <2> SUFFICES ASSUME NEW d \in 1..t, NEW n \in Name PROVE Settles(n, d, b[d], m[d][n])'
    OBVIOUS
  <2>1. Settles(n, d, b[d], l[d][n])'
    BY <1>3
  <2> QED BY <1>5, <2>1 DEF Settles
<1> QED BY <1>2, <1>3, <1>4, <1>6, <1>7 DEF Levels

LEMMA TopLevel ==
  ASSUME Types, NEW b, NEW l, InStep(b, l), NEW t \in Nat \ {0}, t = Len(open)
  PROVE  /\ b[t] \in 1..Len(tenv) /\ b[t] \in Nat
         /\ Len(tenv) = b[t] + Depth(prog[open[t]].kind)
<1>1. Levels(b, l, t + 1) /\ b[t + 1] = Len(tenv)
  BY DEF InStep
<1>2. /\ t \in 1..(t + 1) /\ t + 1 \in 1..(t + 1) /\ 1 \in 1..(t + 1) /\ t \in 1..(t + 1 - 1)
      /\ t <= t + 1 /\ 1 <= t
  OBVIOUS
<1>3. b[t] \in 1..Len(tenv) /\ b[t] \in Nat
  <2>1. b[t] \in Nat /\ b[1] = 1 /\ b[1] <= b[t] /\ b[t] <= b[t + 1]
    BY <1>1, <1>2 DEF Levels
  <2>2. Len(tenv) \in Nat
    BY LenProperties DEF Types
  <2> QED BY <1>1, <2>1, <2>2
<1>4. Len(tenv) = b[t] + Depth(prog[open[t]].kind)
  BY <1>1, <1>2 DEF Levels
<1> QED BY <1>3, <1>4

\* Below the construct that ends, all is as it was.
LEMMA CloseLevels ==
  ASSUME Types, Placed, Nest, LetsHere, NEW b, NEW l, InStep(b, l),
         NEW t \in Nat \ {0}, t = Len(open), NEW s, Extends(s), InFunction(s),
         prog'[open[t]].end # 0, Inside("view")' = Inside("view") \/ t = 1,
         Len(open') \in Nat, Len(open') >= t - 1,
         \A d \in 1..(t - 1) : open'[d] = open[d],
         outer' = outer \/ prog[open[t]].kind = "fn",
         tenv' \in Seq(CheckScope), b[t] <= Len(tenv'),
         \A i \in 1..b[t] : tenv'[i] = tenv[i],
         \A i \in (b[t] + 1)..Len(tenv'), n \in Name : tenv'[i][n] = Unbound
  PROVE  /\ Levels(b, l, t)'
         /\ prog[open[t]].kind = "fn" => l[t] = outer.locals
         /\ prog[open[t]].kind # "fn" =>
              \A n \in Name : l[t][n] = Popped(prog[open[t]], n, locals[n]) \/ Leaky(n)'
         /\ \A n \in Name : Leaky(n)' \/ Claim(n, b[t], l[t][n], Arms(n, t))
<1>1. Levels(b, l, t + 1) /\ b[t + 1] = Len(tenv) /\ l[t + 1] = locals
  BY DEF InStep
<1>2. /\ t \in 1..(t + 1) /\ t + 1 \in 1..(t + 1) /\ 1 \in 1..(t + 1) /\ t \in 1..(t + 1 - 1)
      /\ t <= t + 1 /\ 1 <= t
  OBVIOUS
<1>3. b[t] \in 1..Len(tenv) /\ b[t] \in Nat
  BY TopLevel
<1>4. Returns(l, t)
  BY <1>1, <1>2 DEF Levels
<1>5. \A d \in 1..t : b[d] \in 0..b[t]
  <2>1. \A d \in 1..t : d \in 1..(t + 1) /\ d <= t
    OBVIOUS
  <2>2. \A d \in 1..(t + 1) : b[d] \in Nat
    BY <1>1 DEF Levels
  <2>3. \A d \in 1..(t + 1), e \in 1..(t + 1) : d <= e => b[d] <= b[e]
    BY <1>1 DEF Levels
  <2> QED BY <1>2, <1>3, <2>1, <2>2, <2>3
<1>6. Levels(b, l, t)'
  <2>1. t \in 1..(Len(open) + 1)
    BY <1>2
  <2>2. \A e \in t..Len(open) : (e \in t..Len(open') /\ open'[e] = open[e]) \/ prog'[open[e]].end # 0
    <3>1. \A e \in t..Len(open) : e = t
      OBVIOUS
    <3> QED BY <3>1
  <2>3. outer' = outer \/ \A e \in 1..(t - 1) : prog[open[e]].kind # "fn"
    <3>1. \A e \in 1..(t - 1) : e \in 1..Len(open) /\ e # t /\ t \in 1..Len(open)
      BY <1>2
    <3> QED BY <3>1 DEF Nest
  <2>4. \A d \in 1..t, n \in Name : \A arms :
          Claim(n, b[d], l[d][n], arms) =>
            Claim(n, b[d], l[d][n], arms)' \/ LetAbove(n, d)'
    <3> SUFFICES ASSUME NEW d \in 1..t, NEW n \in Name, NEW arms, Claim(n, b[d], l[d][n], arms)
                 PROVE  Claim(n, b[d], l[d][n], arms)'
      OBVIOUS
    <3>1. PICK q : q = l[d][n]
      OBVIOUS
    <3>2. \A j \in 0..b[t] : Claim(n, j, q, arms) => Claim(n, j, q, arms)'
      <4>1. tenv \in Seq(CheckScope)
        BY DEF Types
      <4> QED BY <1>3, <4>1, BackTo
    <3> QED BY <1>5, <3>1, <3>2
  <2>5. Levels(b, l, Len(open) + 1)
    BY <1>1
  <2>6. \A d \in 1..t : b[d] = b[d] /\ l[d] = l[d]
    OBVIOUS
  <2>7. t = 1 \/ Inside("view")' = Inside("view")
    OBVIOUS
  <2> QED BY <2>1, <2>2, <2>3, <2>4, <2>5, <2>6, <2>7, LevelsBelow
<1>7. prog[open[t]].kind = "fn" => l[t] = outer.locals
  BY <1>4 DEF Returns
<1>8. \A n \in Name : Leaky(n) => Leaky(n)'
  <2>1. prog \in Seq(Statements)
    BY DEF Types
  <2> QED BY <2>1, LeakyKept
<1>9. ASSUME NEW n \in Name, LetIn(n, open[t]) PROVE Leaky(n)'
  <2>1. PICK j \in Lets(n) : prog[j].in = open[t]
    BY <1>9 DEF LetIn
  <2>2. t \in 1..Len(open) /\ open[t] \in 1..Len(prog)
    BY <1>2 DEF Nest
  <2>3. InView(j) = InView(Len(prog))
    BY <2>1, <2>2 DEF LetsHere
  <2>4. prog \in Seq(Statements)
    BY DEF Types
  <2> QED BY <2>1, <2>2, <2>3, <2>4, EndLeaks
<1>10. ASSUME prog[open[t]].kind # "fn", NEW n \in Name
       PROVE  l[t][n] = Popped(prog[open[t]], n, locals[n]) \/ Leaky(n)'
  <2>1. \/ Leaky(n) \/ LetIn(n, open[t])
        \/ l[t][n] = Popped(prog[open[t]], n, locals[n])
    BY <1>1, <1>4, <1>10 DEF Returns
  <2> QED BY <1>8, <1>9, <2>1
<1>11. ASSUME NEW n \in Name PROVE Leaky(n)' \/ Claim(n, b[t], l[t][n], Arms(n, t))
  <2>1. Settles(n, t, b[t], l[t][n])
    BY <1>1, <1>2 DEF Levels
  <2>2. LetAbove(n, t) => LetIn(n, open[t])
    <3>1. \A e \in t..Len(open) : e = t
      OBVIOUS
    <3> QED BY <3>1 DEF LetAbove
  <2> QED BY <1>8, <1>9, <2>1, <2>2 DEF Settles
<1> QED BY <1>6, <1>7, <1>10, <1>11

LEMMA Prefix ==
  ASSUME NEW S, NEW q \in Seq(S), NEW k \in 0..Len(q)
  PROVE  /\ SubSeq(q, 1, k) \in Seq(S) /\ Len(SubSeq(q, 1, k)) = k
         /\ \A i \in 1..k : SubSeq(q, 1, k)[i] = q[i]
<1>1. Len(q) \in Nat /\ k \in Nat /\ k <= Len(q)
  BY LenProperties
<1>2. 1 \in Int /\ k \in Int /\ \A i \in 1..k : q[i] \in S
  BY <1>1, ElementOfSeq
<1>3. PICK r : r = SubSeq(q, 1, k)
  OBVIOUS
<1>4. /\ r \in Seq(S) /\ Len(r) = IF 1 <= k THEN k - 1 + 1 ELSE 0
      /\ \A i \in 1..(k - 1 + 1) : r[i] = q[1 + i - 1]
  BY <1>2, <1>3, SubSeqProperties
<1> QED BY <1>1, <1>3, <1>4

LEMMA ElseKeeps ==
  ASSUME NamesInv, Else
  PROVE  NamesInv'
<1>1. Types /\ Placed /\ Nest /\ LetsHere /\ KeysCover /\ Global /\ Earlier
  BY DEF NamesInv
<1>2. /\ prog \in Seq(Statements) /\ open \in Seq(Nat) /\ Len(open) \in Nat
      /\ tenv \in Seq(CheckScope) /\ Len(tenv) \in Nat
      /\ Here \in Nat /\ Here = Len(prog) + 1 /\ Len(prog) \in Nat
      /\ locals \in [Name -> Seq(Int)]
  BY <1>1, LenProperties DEF Types, Here
<1>3. open # <<>> /\ Len(open) # 0 /\ prog[Innermost].kind = "if"
  BY <1>2, EmptySeq DEF Else
<1>4. PICK t \in Nat \ {0} : t = Len(open)
  BY <1>2, <1>3
<1>5. /\ t \in 1..Len(open) /\ open[t] = Innermost /\ open[t] \in 1..Len(prog)
      /\ prog[open[t]].kind = "if" /\ t # 1
  <2>1. t \in 1..Len(open) /\ open[t] = Innermost
    BY <1>4 DEF Innermost
  <2>2. "if" \notin Units
    BY DEF Units
  <2> QED BY <1>1, <1>3, <2>1, <2>2 DEF Nest
<1>6. PICK s : s = [Statement("else", NoName) EXCEPT !.in = prog[Innermost].in]
  OBVIOUS
<1>7. s \in Statements /\ s.kind = "else" /\ s.name = NoName /\ s.in < open[t]
  <2>1. /\ Statement("else", NoName) \in Statements
        /\ Statement("else", NoName).kind = "else" /\ Statement("else", NoName).name = NoName
    <3>1. "else" \in Kinds
      BY DEF Kinds, Blocks
    <3> QED BY <1>1, <1>2, <3>1, StatementType
  <2>2. prog[Innermost].in \in Nat /\ prog[Innermost].in < open[t]
    <3>1. prog[Innermost] \in Statements
      BY <1>2, <1>5, ElementOfSeq
    <3> QED BY <1>1, <1>5, <3>1 DEF Placed, Statements
  <2> QED BY <1>6, <2>1, <2>2 DEF Statements
<1>8. /\ prog' = Append([prog EXCEPT ![open[t]].end = Here], s)
      /\ open' = [open EXCEPT ![t] = Here]
      /\ tenv' = Leave(tenv, "if") \o BlockScopes
      /\ UNCHANGED <<locals, keys, outer>>
  BY <1>4, <1>5, <1>6 DEF Else
<1>9. Extends(s) /\ prog'[open[t]].end # 0
  BY <1>2, <1>5, <1>7, <1>8, CloseExtends
<1>10. InFunction(s)
  BY <1>7 DEF InFunction
<1>11. /\ open' \in Seq(Nat) /\ Len(open') = Len(open)
       /\ \A d \in 1..Len(open) : open'[d] = IF d = t THEN Here ELSE open[d]
  BY <1>2, <1>5, <1>8, ExceptSeq
<1>12. prog'[Here] = s /\ Len(prog') = Len(prog) + 1 /\ prog' \in Seq(Statements)
  BY <1>9 DEF Extends
<1>13. \A d \in 1..Len(open) :
         /\ d # t => prog'[open'[d]].kind = prog[open[d]].kind
         /\ d = t => prog'[open'[d]].kind = "else"
  <2> SUFFICES ASSUME NEW d \in 1..Len(open)
               PROVE  /\ d # t => prog'[open'[d]].kind = prog[open[d]].kind
                      /\ d = t => prog'[open'[d]].kind = "else"
    OBVIOUS
  <2>1. open[d] \in 1..Len(prog)
    BY <1>1 DEF Nest
  <2> QED BY <1>7, <1>9, <1>11, <1>12, <2>1 DEF Extends
<1>14. Inside("view")' = Inside("view")
  <2>1. DOMAIN open = 1..Len(open) /\ DOMAIN open' = 1..Len(open)
    BY <1>2, <1>11, LenProperties
  <2> QED BY <1>5, <1>13, <2>1 DEF Inside
<1>15. PICK b, l : InStep(b, l)
  BY DEF NamesInv
<1>16. PICK k : k = b[t]
  OBVIOUS
<1>17. PICK x : x = BlockScopes
  OBVIOUS
<1>18. k \in 1..Len(tenv) /\ k \in Nat /\ Len(tenv) = k + Len(x) /\ Len(x) \in Nat
  <2>1. b[t] \in 1..Len(tenv) /\ b[t] \in Nat /\ Len(tenv) = b[t] + Depth(prog[open[t]].kind)
    BY <1>1, <1>4, <1>15, TopLevel
  <2>2. Depth("if") = Len(x)
    BY <1>17 DEF Depth
  <2>3. Len(x) \in Nat
    BY <1>17 DEF BlockScopes
  <2> QED BY <1>5, <1>16, <2>1, <2>2, <2>3
<1>19. Len(BlockScopes)' = Len(x)
  BY <1>14, <1>17 DEF BlockScopes
<1>20. /\ tenv' \in Seq(CheckScope) /\ Len(tenv') = Len(tenv)
       /\ \A i \in 1..k : tenv'[i] = tenv[i]
       /\ \A i \in (k + 1)..Len(tenv'), n \in Name : tenv'[i][n] = Unbound
  <2>1. x \in Seq(CheckScope) /\ \A i \in 1..Len(x), n \in Name : x[i][n] = Unbound
    BY <1>17, EmptyScopeType DEF BlockScopes
  <2>2. PICK e : e = SubSeq(tenv, 1, k)
    OBVIOUS
  <2>3. e \in Seq(CheckScope) /\ Len(e) = k /\ \A i \in 1..k : e[i] = tenv[i]
    BY <1>2, <1>18, <2>2, Prefix
  <2>4. tenv' = e \o x
    <3>1. Len(tenv) - Len(x) = k
      BY <1>18
    <3> QED BY <1>8, <1>17, <2>2, <3>1 DEF Leave, Depth
  <2>5. /\ tenv' \in Seq(CheckScope) /\ Len(tenv') = Len(e) + Len(x)
        /\ \A i \in 1..Len(tenv') : tenv'[i] = IF i <= Len(e) THEN e[i] ELSE x[i - Len(e)]
    BY <2>1, <2>3, <2>4, ConcatProperties
  <2>6. \A i \in 1..k : tenv'[i] = e[i]
    BY <1>18, <2>3, <2>5
  <2>7. \A i \in (k + 1)..Len(tenv') : tenv'[i] = x[i - k] /\ i - k \in 1..Len(x)
    BY <1>18, <2>3, <2>5
  <2>8. Len(tenv') = Len(tenv)
    BY <1>18, <2>3, <2>5
  <2>9. \A i \in 1..k : tenv'[i] = tenv[i]
    BY <2>3, <2>6
  <2>10. \A i \in (k + 1)..Len(tenv'), n \in Name : tenv'[i][n] = Unbound
    BY <2>1, <2>7
  <2> QED BY <2>5, <2>8, <2>9, <2>10
<1>21. Types' /\ Placed' /\ Nest' /\ LetsHere' /\ KeysCover' /\ Global' /\ Earlier'
  <2>1. Placed'
    <3>1. s.in < Here /\ s.kind # "let"
      <4>1. s.in \in Nat
        BY <1>7 DEF Statements
      <4> QED BY <1>2, <1>5, <1>7, <4>1
    <3> QED BY <1>1, <1>2, <1>9, <3>1, PlacedKept
  <2>2. Nest'
    <3>1. \A d \in 1..Len(open) : open'[d] \in 1..Len(prog')
      <4>1. \A d \in 1..Len(open) : open[d] \in 1..Len(prog)
        BY <1>1 DEF Nest
      <4>2. Here \in 1..Len(prog') /\ \A d \in 1..Len(prog) : d \in 1..Len(prog')
        BY <1>2, <1>12
      <4> QED BY <1>11, <4>1, <4>2
    <3>2. "else" \in Blocks /\ "else" # "fn"
      BY DEF Blocks
    <3> QED BY <1>1, <1>5, <1>11, <1>13, <3>1, <3>2 DEF Nest
  <2>3. LetsHere'
    <3>1. \A d \in 1..Len(open') : open'[d] = Here \/ \E e \in 1..Len(open) : open'[d] = open[e]
      BY <1>11
    <3> QED BY <1>1, <1>2, <1>9, <1>10, <3>1, LetsHereKept
  <2>4. KeysCover'
    BY <1>1, <1>8 DEF KeysCover
  <2>5. Global'
    <3>1. tenv'[1] = tenv[1] /\ tenv' # <<>>
      <4>1. 1 \in 1..k /\ Len(tenv') # 0
        BY <1>18, <1>20
      <4> QED BY <1>20, <4>1, EmptySeq
    <3> QED BY <1>1, <3>1 DEF Global
  <2>6. Earlier'
    <3>1. ASSUME NEW i \in 1..Len(tenv'), NEW n \in Name, tenv'[i][n] # Unbound
          PROVE  i \in 1..Len(tenv) /\ tenv'[i] = tenv[i]
      <4>1. i \in 1..k \/ i \in (k + 1)..Len(tenv')
        BY <1>2, <1>18, <1>20
      <4>2. \A j \in 1..k : j \in 1..Len(tenv)
        BY <1>2, <1>18
      <4> QED BY <1>20, <3>1, <4>1, <4>2
    <3> QED BY <1>1, <1>9, <1>20, <3>1, EarlierKept
  <2> QED BY <1>1, <1>8, <1>11, <1>12, <1>20, <2>1, <2>2, <2>3, <2>4, <2>5, <2>6 DEF Types
<1>22. /\ Levels(b, l, t)'
       /\ \A n \in Name : l[t][n] = Popped(prog[open[t]], n, locals[n]) \/ Leaky(n)'
       /\ \A n \in Name : Leaky(n)' \/ Claim(n, b[t], l[t][n], Arms(n, t))
  <2>1. Len(open') \in Nat /\ Len(open') >= t - 1 /\ \A d \in 1..(t - 1) : open'[d] = open[d]
    BY <1>2, <1>4, <1>11
  <2>2. b[t] <= Len(tenv')
    BY <1>16, <1>18, <1>20
  <2>3. \A i \in 1..b[t] : tenv'[i] = tenv[i]
    BY <1>16, <1>20
  <2>4. \A i \in (b[t] + 1)..Len(tenv'), n \in Name : tenv'[i][n] = Unbound
    BY <1>16, <1>20
  <2>5. outer' = outer /\ prog[open[t]].kind # "fn"
    BY <1>5, <1>8
  <2> QED BY <1>1, <1>4, <1>9, <1>10, <1>14, <1>15, <1>20, <2>1, <2>2, <2>3, <2>4, <2>5, CloseLevels
<1>23. b[t + 1] = Len(tenv) /\ l[t + 1] = locals
  BY <1>4, <1>15 DEF InStep
<1>24. \A n \in Name : l[t][n] = locals[n] \/ Leaky(n)'
  BY <1>5, <1>22 DEF Popped
<1>25. Levels(b, l, Len(open) + 1)'
  <2>1. b[t + 1] \in Nat /\ l[t + 1] \in [Name -> Seq(Int)] /\ Len(open') = t
    BY <1>2, <1>4, <1>11, <1>23
  <2>2. open'[t] = Here
    BY <1>5, <1>11
  <2>3. b[t + 1] = b[t] + (Depth(prog[open[t]].kind))'
    <3>1. (Depth(prog[open[t]].kind))' = Len(BlockScopes)'
      BY <1>7, <1>12, <2>2 DEF Depth, BlockScopes
    <3> QED BY <1>16, <1>18, <1>19, <1>23, <3>1
  <2>4. Returns(l, t)'
    <3>1. \A n \in Name : l[t][n] = Popped(prog'[open'[t]], n, l[t + 1][n]) \/ Leaky(n)'
      BY <1>7, <1>12, <1>23, <1>24, <2>2 DEF Popped
    <3>2. prog'[open'[t]].kind # "fn"
      BY <1>7, <1>12, <2>2
    <3> QED BY <3>1, <3>2 DEF Returns
  <2>5. ASSUME NEW n \in Name PROVE Settles(n, t + 1, b[t + 1], l[t + 1][n])'
    <3>1. CASE Leaky(n)'
      BY <3>1 DEF Settles
    <3>2. CASE Claim(n, k, locals[n], Arms(n, t)) /\ ~Leaky(n)'
      <4>1. PICK q : q = locals[n]
        OBVIOUS
      <4>2. PICK j : j = Len(tenv')
        OBVIOUS
      <4>3. k <= Len(tenv')
        BY <1>18, <1>20
      <4>4. PICK a : a = Arms(n, t)
        OBVIOUS
      <4>5. Claim(n, k, q, a) =>
              \A i \in 1..Len(tenv') : Decides(tenv', n, Len(tenv'), i) =>
                Right(n, q, tenv'[i][n].at, a)
        BY <1>2, <1>18, <1>20, <4>3, BackTo
      <4>6. Claim(n, j, q, a)'
        BY <3>2, <4>1, <4>2, <4>4, <4>5 DEF Claim, Code, Right
      <4>7. PICK more : more = Arms(n, t + 1)'
        OBVIOUS
      <4>8. a \subseteq more
        <5>1. \A e \in 1..(t - 1) : e \in 1..Len(open) /\ open'[e] = open[e]
          BY <1>4, <1>11
        <5>2. Arms(n, t)' = a
          BY <1>1, <1>9, <4>4, <5>1, ArmsKept
        <5>3. \A e \in 1..(t - 1) : e \in 1..(t + 1 - 1)
          OBVIOUS
        <5>4. Arms(n, t)' \subseteq Arms(n, t + 1)'
          BY <5>3 DEF Arms
        <5> QED BY <4>7, <5>2, <5>4
      <4>9. Claim(n, j, q, more)'
        BY <4>6, <4>8, ClaimMore
      <4>10. l[t + 1][n] = q /\ b[t + 1] = j
        BY <1>20, <1>23, <4>1, <4>2
      <4> QED BY <4>7, <4>9, <4>10 DEF Settles
    <3> QED BY <1>16, <1>22, <1>24, <3>1, <3>2
  <2> QED BY <1>22, <2>1, <2>3, <2>4, <2>5, AddLevel
<1>26. InStep(b, l)'
  BY <1>4, <1>8, <1>11, <1>20, <1>23, <1>25 DEF InStep
<1> QED BY <1>21, <1>26 DEF NamesInv

\* PopLocal is what the end of a construct that has pushed makes of a stack.
LEMMA PopStacks ==
  ASSUME Types, KeysCover, NEW block, block.name \in Name \cup {NoName},
         block.kind \notin {"if", "else"}, PopLocal(block.name)
  PROVE  /\ locals' \in [Name -> Seq(Int)] /\ KeysCover'
         /\ \A m \in Name : locals'[m] = Popped(block, m, locals[m])
<1>1. locals \in [Name -> Seq(Int)] /\ keys' = keys /\ outer' = outer
  BY DEF Types, PopLocal
<1>2. CASE block.name = NoName \/ locals[block.name] = <<>>
  <2>1. locals' = locals
    BY <1>2 DEF PopLocal
  <2>2. \A m \in Name : Popped(block, m, locals[m]) = locals[m]
    BY <1>2, NamesAssumption DEF Popped
  <2> QED BY <1>1, <2>1, <2>2 DEF KeysCover
<1>3. CASE block.name \in Name /\ locals[block.name] # <<>>
  <2>1. PICK n \in Name : n = block.name
    BY <1>3
  <2>2. n # NoName /\ locals[n] \in Seq(Int) /\ locals[n] # <<>>
    BY <1>1, <1>3, <2>1, NamesAssumption
  <2>3. PICK q : q = SubSeq(locals[n], 1, Len(locals[n]) - 1)
    OBVIOUS
  <2>4. q \in Seq(Int)
    <3>1. Len(locals[n]) \in Nat /\ Len(locals[n]) # 0
      BY <2>2, EmptySeq, LenProperties
    <3>2. Len(locals[n]) - 1 \in 0..Len(locals[n])
      BY <3>1
    <3> QED BY <2>2, <2>3, <3>2, Prefix
  <2>5. locals' = [locals EXCEPT ![n] = q]
    BY <2>1, <2>2, <2>3 DEF PopLocal
  <2>6. /\ locals' \in [Name -> Seq(Int)]
        /\ \A m \in Name : locals'[m] = IF m = n THEN q ELSE locals[m]
    BY <1>1, <2>4, <2>5
  <2>7. KeysCover'
    BY <1>1, <2>2, <2>6 DEF KeysCover
  <2>8. \A m \in Name : locals'[m] = Popped(block, m, locals[m])
    BY <2>1, <2>2, <2>3, <2>6 DEF Popped
  <2> QED BY <2>6, <2>7, <2>8
<1> QED BY <1>2, <1>3

LEMMA EndKeeps ==
  ASSUME NamesInv, End
  PROVE  NamesInv'
<1>1. Types /\ Placed /\ Nest /\ LetsHere /\ KeysCover /\ Global /\ Earlier
  BY DEF NamesInv
<1>2. /\ prog \in Seq(Statements) /\ open \in Seq(Nat) /\ Len(open) \in Nat
      /\ tenv \in Seq(CheckScope) /\ Len(tenv) \in Nat
      /\ Here \in Nat /\ Here = Len(prog) + 1 /\ Len(prog) \in Nat
      /\ locals \in [Name -> Seq(Int)]
  BY <1>1, LenProperties DEF Types, Here
<1>3. open # <<>> /\ Len(open) # 0
  BY <1>2, EmptySeq DEF End
<1>4. PICK t \in Nat \ {0} : t = Len(open)
  BY <1>2, <1>3
<1>5. /\ t \in 1..Len(open) /\ open[t] = Innermost /\ open[t] \in 1..Len(prog)
      /\ prog[open[t]] \in Statements
  <2>1. t \in 1..Len(open) /\ open[t] = Innermost
    BY <1>4 DEF Innermost
  <2>2. open[t] \in 1..Len(prog)
    BY <1>1, <2>1 DEF Nest
  <2> QED BY <1>2, <2>1, <2>2, ElementOfSeq
<1>6. PICK s : s = [Statement("end", NoName) EXCEPT !.in = open[t]]
  OBVIOUS
<1>7. s \in Statements /\ s.kind = "end" /\ s.in = open[t]
  <2>1. /\ Statement("end", NoName) \in Statements
        /\ Statement("end", NoName).kind = "end"
    <3>1. "end" \in Kinds
      BY DEF Kinds
    <3> QED BY <1>1, <1>2, <3>1, StatementType
  <2>2. open[t] \in Nat
    BY <1>5
  <2> QED BY <1>6, <2>1, <2>2 DEF Statements
<1>8. PICK block : block = prog[open[t]]
  OBVIOUS
<1>9. /\ prog' = Append([prog EXCEPT ![open[t]].end = Here], s)
      /\ open' = SubSeq(open, 1, t - 1)
      /\ tenv' = Leave(tenv, block.kind)
      /\ block.kind \in {"if", "else"} => UNCHANGED <<locals, keys, outer>>
      /\ block.kind = "fn" => LeaveLambda
      /\ block.kind \notin {"if", "else", "fn"} => PopLocal(block.name)
  BY <1>4, <1>5, <1>6, <1>8 DEF End
<1>10. Extends(s) /\ prog'[open[t]].end # 0 /\ InFunction(s)
  BY <1>2, <1>5, <1>7, <1>9, CloseExtends DEF InFunction
<1>11. /\ open' \in Seq(Nat) /\ Len(open') = t - 1 /\ t - 1 \in Nat
       /\ \A d \in 1..(t - 1) : open'[d] = open[d]
  <2>1. t - 1 \in 0..Len(open) /\ t - 1 \in Nat
    BY <1>4
  <2>2. PICK k : k = t - 1
    OBVIOUS
  <2>3. PICK q : q = SubSeq(open, 1, k)
    OBVIOUS
  <2>4. /\ q \in Seq(Nat) /\ Len(q) = k /\ \A d \in 1..k : q[d] = open[d]
    BY <1>2, <2>1, <2>2, <2>3, Prefix
  <2> QED BY <1>9, <2>1, <2>2, <2>3, <2>4
<1>12. Len(prog') = Len(prog) + 1 /\ prog' \in Seq(Statements)
  BY <1>10 DEF Extends
<1>13. \A d \in 1..(t - 1) :
         d \in 1..Len(open) /\ prog'[open'[d]].kind = prog[open[d]].kind
  <2>1. \A d \in 1..(t - 1) : d \in 1..Len(open)
    BY <1>4
  <2>2. \A d \in 1..Len(open) : open[d] \in 1..Len(prog)
    BY <1>1 DEF Nest
  <2> QED BY <1>10, <1>11, <2>1, <2>2 DEF Extends
<1>14. Inside("view")' = Inside("view") \/ t = 1
  <2> SUFFICES ASSUME t # 1 PROVE Inside("view")' = Inside("view")
    OBVIOUS
  <2>1. block.kind # "view"
    BY <1>1, <1>5, <1>8 DEF Nest, Blocks
  <2>2. DOMAIN open = 1..Len(open) /\ DOMAIN open' = 1..(t - 1)
    BY <1>2, <1>11, LenProperties
  <2>3. \A d \in 1..Len(open) : d \in 1..(t - 1) \/ d = t
    BY <1>4
  <2> QED BY <1>8, <1>13, <2>1, <2>2, <2>3 DEF Inside
<1>15. PICK b, l : InStep(b, l)
  BY DEF NamesInv
<1>16. PICK k : k = b[t]
  OBVIOUS
<1>17. k \in 1..Len(tenv) /\ k \in Nat /\ Len(tenv) = k + Depth(block.kind)
  BY <1>1, <1>4, <1>8, <1>15, <1>16, TopLevel
<1>18. /\ tenv' \in Seq(CheckScope) /\ Len(tenv') = k
       /\ \A i \in 1..k : tenv'[i] = tenv[i]
  <2>1. PICK x : x = Depth(block.kind)
    OBVIOUS
  <2>2. x \in Nat
    BY <2>1, DepthType
  <2>3. Len(tenv) - x = k
    BY <1>17, <2>1, <2>2
  <2>4. tenv' = SubSeq(tenv, 1, k)
    BY <1>9, <2>1, <2>3 DEF Leave
  <2>5. k \in 0..Len(tenv)
    BY <1>17
  <2> QED BY <1>2, <2>4, <2>5, Prefix
<1>19. /\ Levels(b, l, t)'
       /\ block.kind = "fn" => l[t] = outer.locals
       /\ block.kind # "fn" =>
            \A n \in Name : l[t][n] = Popped(block, n, locals[n]) \/ Leaky(n)'
  <2>1. Len(open') \in Nat /\ Len(open') >= t - 1 /\ \A d \in 1..(t - 1) : open'[d] = open[d]
    BY <1>11
  <2>2. b[t] <= Len(tenv')
    BY <1>16, <1>17, <1>18
  <2>3. \A i \in 1..b[t] : tenv'[i] = tenv[i]
    BY <1>16, <1>18
  <2>4. \A i \in (b[t] + 1)..Len(tenv'), n \in Name : tenv'[i][n] = Unbound
    BY <1>16, <1>17, <1>18
  <2>5. outer' = outer \/ prog[open[t]].kind = "fn"
    BY <1>8, <1>9 DEF PopLocal
  <2> QED BY <1>1, <1>4, <1>8, <1>10, <1>14, <1>15, <1>18, <2>1, <2>2, <2>3, <2>4, <2>5, CloseLevels
<1>20. /\ locals' \in [Name -> Seq(Int)] /\ keys' \subseteq Name /\ KeysCover'
       /\ outer' \in [locals : [Name -> Seq(Int)], keys : SUBSET Name]
       /\ \A n \in Name : locals'[n] = l[t][n] \/ Leaky(n)'
  <2>1. CASE block.kind \in {"if", "else"}
    <3>1. locals' = locals /\ keys' = keys /\ outer' = outer /\ block.kind # "fn"
      BY <1>9, <2>1
    <3>2. \A n \in Name : locals'[n] = l[t][n] \/ Leaky(n)'
      BY <1>19, <2>1, <3>1 DEF Popped
    <3> QED BY <1>1, <3>1, <3>2 DEF Types, KeysCover
  <2>2. CASE block.kind = "fn"
    <3>1. locals' = outer.locals /\ keys' = outer.keys /\ outer' = NoOuter
      BY <1>9, <2>2 DEF LeaveLambda
    <3>2. <<>> \in Seq(Int)
      OBVIOUS
    <3>3. /\ NoOuter \in [locals : [Name -> Seq(Int)], keys : SUBSET Name]
          /\ \A n \in Name : NoOuter.locals[n] = <<>>
      BY <3>2 DEF NoOuter
    <3>4. KeysCover'
      BY <1>1, <3>1, <3>3 DEF KeysCover
    <3> QED BY <1>1, <1>19, <2>2, <3>1, <3>3, <3>4 DEF Types
  <2>3. CASE block.kind \notin {"if", "else", "fn"}
    <3>1. PopLocal(block.name) /\ block.kind \notin {"if", "else"}
      BY <1>9, <2>3
    <3>2. block.name \in Name \cup {NoName}
      BY <1>5, <1>8 DEF Statements
    <3>3. /\ locals' \in [Name -> Seq(Int)] /\ KeysCover'
          /\ \A m \in Name : locals'[m] = Popped(block, m, locals[m])
      BY <1>1, <3>1, <3>2, PopStacks
    <3>4. keys' = keys /\ outer' = outer
      BY <3>1 DEF PopLocal
    <3>5. \A n \in Name : locals'[n] = l[t][n] \/ Leaky(n)'
      BY <1>19, <2>3, <3>3
    <3> QED BY <1>1, <3>3, <3>4, <3>5 DEF Types
  <2> QED BY <2>1, <2>2, <2>3
<1>21. Types' /\ Placed' /\ Nest' /\ LetsHere' /\ Global' /\ Earlier'
  <2>1. Types'
    BY <1>11, <1>12, <1>18, <1>20 DEF Types
  <2>2. Placed'
    <3>1. s.in < Here /\ s.kind # "let"
      BY <1>2, <1>5, <1>7
    <3> QED BY <1>1, <1>2, <1>10, <3>1, PlacedKept
  <2>3. Nest'
    <3>1. \A d \in 1..(t - 1) : open'[d] \in 1..Len(prog')
      <4>1. \A d \in 1..Len(open) : open[d] \in 1..Len(prog)
        BY <1>1 DEF Nest
      <4>2. \A d \in 1..Len(prog) : d \in 1..Len(prog')
        BY <1>2, <1>12
      <4> QED BY <1>11, <1>13, <4>1, <4>2
    <3> QED BY <1>1, <1>11, <1>13, <3>1 DEF Nest
  <2>4. LetsHere'
    <3>1. \A d \in 1..Len(open') : open'[d] = Here \/ \E e \in 1..Len(open) : open'[d] = open[e]
      BY <1>11, <1>13
    <3> QED BY <1>1, <1>2, <1>10, <3>1, LetsHereKept
  <2>5. Global'
    <3>1. tenv'[1] = tenv[1] /\ tenv' # <<>>
      <4>1. 1 \in 1..k /\ Len(tenv') # 0
        BY <1>17, <1>18
      <4> QED BY <1>18, <4>1, EmptySeq
    <3> QED BY <1>1, <3>1 DEF Global
  <2>6. Earlier'
    <3>1. \A i \in 1..Len(tenv') : i \in 1..Len(tenv) /\ tenv'[i] = tenv[i]
      BY <1>2, <1>17, <1>18
    <3> QED BY <1>1, <1>10, <1>18, <3>1, EarlierKept
  <2> QED BY <2>1, <2>2, <2>3, <2>4, <2>5, <2>6
<1>22. PICK w \in [Name -> Seq(Int)] : w = locals'
  BY <1>20
<1>23. PICK m : m[t] = w /\ Levels(b, m, t)'
  <2>1. Levels(b, l, t)'
    BY <1>19
  <2>2. \A n \in Name : w[n] = l[t][n] \/ Leaky(n)'
    BY <1>20, <1>22
  <2> QED BY <2>1, <2>2, ReplaceTop
<1>24. InStep(b, m)'
  <2>1. Len(open') + 1 = t
    BY <1>11
  <2>2. Levels(b, m, Len(open) + 1)'
    BY <1>23, <2>1 DEF Levels
  <2>3. b[Len(open') + 1] = Len(tenv') /\ m[Len(open') + 1] = locals'
    BY <1>16, <1>18, <1>22, <1>23, <2>1
  <2> QED BY <2>2, <2>3 DEF InStep
<1> QED BY <1>20, <1>21, <1>24 DEF NamesInv

-----------------------------------------------------------------------------
(* The first view: another function, where nothing of this one is left      *)

LEMMA FirstViewKeeps ==
  ASSUME NamesInv, NEW n \in Name \cup {NoName}, BeginView(n), Before({"view"})
  PROVE  NamesInv'
<1>1. Types /\ Placed /\ Nest /\ LetsHere /\ KeysCover /\ Global /\ Earlier
  BY DEF NamesInv
<1>2. /\ prog \in Seq(Statements) /\ open \in Seq(Nat) /\ open = <<>> /\ Len(open) = 0
      /\ tenv \in Seq(CheckScope) /\ Here \in Nat
  BY <1>1, LenProperties DEF Types, Here, Before
<1>3. Len(tenv) = 1
  <2>1. PICK b, l : InStep(b, l)
    BY DEF NamesInv
  <2>2. Len(open) + 1 = 1
    BY <1>2
  <2> QED BY <2>1, <2>2 DEF InStep, Levels
<1>4. PICK s : s = [Statement("view", n) EXCEPT !.shadows = n # NoName /\ IsBound(tenv, n)]
  OBVIOUS
<1>5. s \in Statements /\ s.kind = "view" /\ s.name = n /\ s.in < Here
  <2>1. /\ Statement("view", n) \in Statements
        /\ Statement("view", n).kind = "view" /\ Statement("view", n).name = n
        /\ Statement("view", n).in < Here
    <3>1. "view" \in Kinds
      BY DEF Kinds, Units
    <3> QED BY <1>1, <1>2, <3>1, StatementType
  <2>2. (n # NoName /\ IsBound(tenv, n)) \in BOOLEAN
    BY DEF IsBound
  <2> QED BY <1>4, <2>1, <2>2 DEF Statements
<1>6. /\ prog' = Append(prog, s) /\ open' = Append(open, Here)
      /\ tenv' = Append(tenv, Bind(n, Bound))
      /\ locals' = [m \in Name |-> IF m = n THEN <<Here>> ELSE <<>>]
      /\ keys' = {n} \ {NoName} /\ outer' = outer
  <2>1. Statement("view", n).name = n
    BY DEF Statement
  <2> QED BY <1>4, <2>1 DEF BeginView, Begin, BeginBlock, Write
<1>7. Extends(s) /\ Fits(s)
  BY <1>2, <1>5, <1>6, WriteExtends DEF Fits, Units
<1>8. /\ tenv' \in Seq(CheckScope) /\ KeepsScopes /\ Adds(n) /\ Len(tenv') = Len(tenv) + 1
  BY <1>2, <1>6, GrowScopes
<1>9. /\ Nest' /\ open' \in Seq(Nat) /\ Len(open') = 1 /\ open'[1] = Here
  <2>1. /\ Nest' /\ open' \in Seq(Nat) /\ Len(open') = Len(open) + 1
        /\ open'[Len(open) + 1] = Here
    BY <1>1, <1>2, <1>6, <1>7, NestOpen
  <2> QED BY <1>2, <2>1
<1>10. /\ locals' \in [Name -> Seq(Int)]
       /\ \A m \in Name : locals'[m] = IF m = n THEN <<Here>> ELSE <<>>
  <2>1. <<Here>> \in Seq(Int) /\ <<>> \in Seq(Int)
    BY <1>2
  <2> QED BY <1>6, <2>1
<1>11. Types' /\ Placed' /\ LetsHere' /\ KeysCover' /\ Global' /\ Earlier'
  <2>1. Types'
    BY <1>1, <1>6, <1>7, <1>8, <1>9, <1>10 DEF Types, Extends
  <2>2. Placed'
    <3>1. s.kind # "let"
      BY <1>5
    <3> QED BY <1>1, <1>2, <1>5, <1>7, <3>1, PlacedKept
  <2>3. LetsHere'
    <3>1. \A d \in 1..Len(open') : open'[d] = Here \/ \E e \in 1..Len(open) : open'[d] = open[e]
      <4>1. \A d \in 1..Len(open') : d = 1
        BY <1>9
      <4> QED BY <1>9, <4>1
    <3> QED BY <1>1, <1>2, <1>7, <3>1, LetsHereKept
  <2>4. KeysCover'
    BY <1>1, <1>6, <1>10, NamesAssumption DEF KeysCover
  <2>5. Global'
    <3>1. tenv'[1] = tenv[1] /\ tenv' # <<>>
      <4>1. 1 \in 1..Len(tenv) /\ Len(tenv') # 0
        BY <1>3, <1>8
      <4>2. Bind(n, Bound) \in CheckScope
        <5>1. Bound \in Binding
          BY <1>2 DEF Bound, Binding
        <5> QED BY <5>1, BindType
      <4>3. \A i \in 1..Len(tenv) : tenv'[i] = tenv[i]
        BY <1>2, <1>6, <4>2, AppendProperties
      <4> QED BY <1>8, <4>1, <4>3, EmptySeq
    <3> QED BY <1>1, <3>1 DEF Global
  <2>6. Earlier'
    BY <1>1, <1>2, <1>7, <1>8, NewScopes, EarlierKept
  <2> QED BY <2>1, <2>2, <2>3, <2>4, <2>5, <2>6
<1>12. PICK w : w = locals'
  OBVIOUS
<1>13. PICK z : z = [m \in Name |-> <<>>]
  OBVIOUS
<1>14. PICK c : c = [d \in 1..2 |-> d]
  OBVIOUS
<1>15. PICK m : m = [d \in 1..2 |-> IF d = 2 THEN w ELSE z]
  OBVIOUS
<1>16. c[1] = 1 /\ c[2] = 2 /\ m[1] = z /\ m[2] = w
  BY <1>14, <1>15
<1>17. z \in [Name -> Seq(Int)] /\ \A i \in Name : z[i] = <<>>
  BY <1>13
<1>18. ASSUME NEW i \in Name, NEW arms
       PROVE  Claim(i, 1, <<>>, arms) /\ Claim(i, 1, <<>>, arms)'
  <2>1. tenv[1][i] # Unbound => i \in Field /\ tenv[1][i].at = 0
    BY <1>1 DEF Global
  <2>2. tenv'[1][i] # Unbound => i \in Field /\ tenv'[1][i].at = 0
    BY <1>11 DEF Global
  <2>3. \A d \in 1..1 : d = 1
    OBVIOUS
  <2> QED BY <2>1, <2>2, <2>3 DEF Claim, Decides, Code, Right
<1>19. Levels(c, m, 1)'
  <2>1. \A d \in 1..1 : d = 1
    OBVIOUS
  <2>2. 1..(1 - 1) = {}
    OBVIOUS
  <2>3. \A i \in Name : Settles(i, 1, c[1], m[1][i])'
    <3> SUFFICES ASSUME NEW i \in Name PROVE Settles(i, 1, c[1], m[1][i])'
      OBVIOUS
    <3>1. PICK a : a = Arms(i, 1)'
      OBVIOUS
    <3>2. Claim(i, 1, <<>>, a)'
      BY <1>18
    <3> QED BY <1>16, <1>17, <3>1, <3>2 DEF Settles
  <2> QED BY <1>16, <1>17, <2>1, <2>2, <2>3 DEF Levels
<1>20. prog'[open'[1]] = s
  BY <1>7, <1>9 DEF Extends
<1>21. (Depth(prog[open[1]].kind))' = 1
  BY <1>5, <1>20 DEF Depth
<1>22. Returns(m, 1)'
  <2>1. ASSUME NEW i \in Name PROVE z[i] = Popped(s, i, w[i])
    <3>1. CASE i = n
      <4>1. w[i] = <<Here>> /\ <<Here>> # <<>>
        BY <1>10, <1>12, <3>1
      <4>2. SubSeq(<<Here>>, 1, Len(<<Here>>) - 1) = <<>>
        <5>1. SubSeq(Append(<<>>, Here), 1, Len(Append(<<>>, Here)) - 1) = <<>>
          <6>1. <<>> \in Seq(Nat)
            OBVIOUS
          <6> QED BY <1>2, <6>1, PopPush
        <5>2. Append(<<>>, Here) = <<Here>>
          OBVIOUS
        <5> QED BY <5>1, <5>2
      <4> QED BY <1>5, <1>17, <3>1, <4>1, <4>2 DEF Popped
    <3>2. CASE i # n
      BY <1>5, <1>10, <1>12, <1>17, <3>2 DEF Popped
    <3> QED BY <3>1, <3>2
  <2>2. \A i \in Name : m[1][i] = Popped(prog'[open'[1]], i, m[1 + 1][i])
    <3>1. 1 + 1 = 2
      OBVIOUS
    <3> QED BY <1>16, <1>20, <2>1, <3>1
  <2>3. prog'[open'[1]].kind # "fn"
    BY <1>5, <1>20
  <2> QED BY <2>2, <2>3 DEF Returns
<1>23. ASSUME NEW i \in Name PROVE Settles(i, 2, c[2], m[2][i])'
  <2>1. PICK q : q = locals'[i]
    OBVIOUS
  <2>2. PICK p : p = <<>>
    OBVIOUS
  <2>3. IF i = n THEN Code(i, q) = Here ELSE Code(i, q) = Code(i, p)
    <3>1. <<Here>> # <<>> /\ <<Here>>[Len(<<Here>>)] = Here
      OBVIOUS
    <3>2. CASE i = n
      BY <1>10, <2>1, <3>1, <3>2 DEF Code
    <3>3. CASE i # n
      <4>1. q = p
        BY <1>10, <2>1, <2>2, <3>3
      <4> QED BY <3>3, <4>1
    <3> QED BY <3>2, <3>3
  <2> PICK a : a = Arms(i, 2)'
    OBVIOUS
  <2>4. Claim(i, Len(tenv), p, a)
    BY <1>3, <1>18, <2>2
  <2>5. \A d \in 1..Len(tenv') : Decides(tenv', i, Len(tenv'), d) =>
          Right(i, q, tenv'[d][i].at, a)
    BY <1>2, <1>8, <2>3, <2>4, NewClaim
  <2>6. Len(tenv') = 2
    BY <1>3, <1>8
  <2>7. Claim(i, 2, q, a)'
    BY <2>5, <2>6 DEF Claim, Code, Right
  <2>8. m[2][i] = q
    BY <1>12, <1>16, <2>1
  <2> QED BY <1>16, <2>7, <2>8 DEF Settles
<1>24. Levels(c, m, Len(open) + 1)'
  <2>1. PICK t \in Nat \ {0} : t = 1
    OBVIOUS
  <2>2. t + 1 = 2
    BY <2>1
  <2>3. c[t + 1] \in Nat /\ m[t + 1] \in [Name -> Seq(Int)]
    BY <1>10, <1>12, <1>16, <2>2
  <2>4. c[t + 1] = c[t] + (Depth(prog[open[t]].kind))'
    <3>1. (Depth(prog[open[t]].kind))' = 1
      BY <1>21, <2>1
    <3> QED BY <1>16, <2>1, <2>2, <3>1
  <2>5. Levels(c, m, t)' /\ Returns(m, t)' /\ Len(open') = t
    BY <1>9, <1>19, <1>22, <2>1
  <2>6. \A i \in Name : Settles(i, t + 1, c[t + 1], m[t + 1][i])'
    BY <1>23, <2>2
  <2> QED BY <2>3, <2>4, <2>5, <2>6, AddLevel
<1>25. InStep(c, m)'
  <2>1. Len(open') + 1 = 2 /\ Len(tenv') = 2
    BY <1>3, <1>8, <1>9
  <2> QED BY <1>12, <1>16, <1>24, <2>1 DEF InStep
<1> QED BY <1>9, <1>11, <1>25 DEF NamesInv

-----------------------------------------------------------------------------
(* Every step                                                               *)

LEMMA InitNames == Init => NamesInv /\ GeneratorAgrees
<1> SUFFICES ASSUME Init PROVE NamesInv /\ GeneratorAgrees
  OBVIOUS
<1>1. /\ prog = <<>> /\ open = <<>> /\ keys = {} /\ outer = NoOuter
      /\ locals = [n \in Name |-> <<>>]
      /\ tenv = <<[n \in Name |-> IF n \in Field THEN [at |-> 0, nullable |-> FALSE]
                                  ELSE Unbound]>>
  BY DEF Init
<1>2. PICK S : S = [n \in Name |-> IF n \in Field THEN [at |-> 0, nullable |-> FALSE] ELSE Unbound]
  OBVIOUS
<1>3. /\ S \in CheckScope
      /\ \A n \in Name : S[n] # Unbound => n \in Field /\ S[n].at = 0
  <2>1. [at |-> 0, nullable |-> FALSE] \in Binding
    BY DEF Binding
  <2> QED BY <1>2, <2>1 DEF CheckScope
<1>4. /\ tenv \in Seq(CheckScope) /\ Len(tenv) = 1 /\ tenv[1] = S /\ tenv # <<>>
  BY <1>1, <1>2, <1>3
<1>5. Len(prog) = 0 /\ Len(open) = 0 /\ DOMAIN prog = {} /\ 1..0 = {}
  BY <1>1
<1>6. \A n : Lets(n) = {}
  BY <1>5 DEF Lets
<1>7. Types
  <2>1. <<>> \in Seq(Int) /\ <<>> \in Seq(Statements) /\ <<>> \in Seq(Nat)
    OBVIOUS
  <2>2. /\ locals \in [Name -> Seq(Int)] /\ keys \subseteq Name
        /\ outer \in [locals : [Name -> Seq(Int)], keys : SUBSET Name]
    BY <1>1, <2>1 DEF NoOuter
  <2> QED BY <1>1, <1>4, <2>1, <2>2 DEF Types
<1>8. Placed /\ Nest /\ LetsHere
  BY <1>5, <1>6 DEF Placed, Nest, LetsHere
<1>9. KeysCover
  BY <1>1 DEF KeysCover, NoOuter
<1>10. Global
  BY <1>3, <1>4 DEF Global
<1>11. InStep([d \in 1..1 |-> 1], [d \in 1..1 |-> locals])
  <2>1. PICK b : b = [d \in 1..1 |-> 1]
    OBVIOUS
  <2>2. PICK l : l = [d \in 1..1 |-> locals]
    OBVIOUS
  <2>3. /\ \A d \in 1..1 : d = 1
        /\ b[1] = 1 /\ l[1] = locals /\ Len(open) + 1 = 1 /\ 1..(1 - 1) = {}
    BY <1>5, <2>1, <2>2
  <2>4. ASSUME NEW n \in Name PROVE Settles(n, 1, b[1], l[1][n])
    <3>1. Claim(n, 1, <<>>, Arms(n, 1))
      BY <1>3, <1>4, <2>3 DEF Claim, Decides, Code, Right
    <3>2. l[1][n] = <<>>
      BY <1>1, <2>3
    <3> QED BY <2>3, <3>1, <3>2 DEF Settles
  <2>5. locals \in [Name -> Seq(Int)]
    BY <1>7 DEF Types
  <2>6. Levels(b, l, 1)
    BY <2>3, <2>4, <2>5 DEF Levels
  <2> QED BY <1>4, <2>1, <2>2, <2>3, <2>6 DEF InStep
<1>12. GeneratorAgrees
  BY <1>5 DEF GeneratorAgrees
<1>13. Earlier
  <2>1. Here = 1
    BY <1>5 DEF Here
  <2>2. \A i \in 1..Len(tenv) : i = 1
    BY <1>4
  <2> QED BY <1>3, <1>4, <2>1, <2>2 DEF Earlier
<1> QED BY <1>7, <1>8, <1>9, <1>10, <1>11, <1>12, <1>13 DEF NamesInv

\* What the statements written already read does not change, nor that a `let`
\* before them leaked.
LEMMA AgreesKept ==
  ASSUME prog \in Seq(Statements), Placed, GeneratorAgrees, NEW s, Extends(s),
         NEW h, h = Here,
         s.kind = "use" /\ s.code # s.check =>
           Leaked(h)' \/ s.unseen \/ (s.name \in Field /\ s.code = Local0)
  PROVE  GeneratorAgrees'
<1>1. Len(prog) \in Nat /\ Len(prog') = Len(prog) + 1 /\ h = Len(prog) + 1
      /\ DOMAIN prog = 1..Len(prog) /\ prog' \in Seq(Statements) /\ prog'[h] = s
  BY LenProperties DEF Extends, Here
<1>2. DOMAIN prog' = 1..Len(prog')
  BY <1>1, LenProperties
<1> SUFFICES ASSUME NEW i \in DOMAIN prog', prog'[i].kind = "use", prog'[i].code # prog'[i].check
             PROVE  Leaked(i)' \/ prog'[i].unseen \/ (prog'[i].name \in Field /\ prog'[i].code = Local0)
  BY DEF GeneratorAgrees
<1>3. CASE i = h
  BY <1>1, <1>3
<1>4. CASE i \in 1..Len(prog)
  <2>1. /\ prog'[i].kind = prog[i].kind /\ prog'[i].name = prog[i].name
        /\ prog'[i].check = prog[i].check /\ prog'[i].code = prog[i].code
        /\ prog'[i].unseen = prog[i].unseen
    BY <1>4 DEF Extends
  <2>2. Leaked(i) \/ prog[i].unseen \/ (prog[i].name \in Field /\ prog[i].code = Local0)
    BY <1>1, <1>4, <2>1 DEF GeneratorAgrees
  <2>3. CASE Leaked(i)
    <3>1. PICK n : n = prog[i].name
      OBVIOUS
    <3>2. PICK j \in Lets(n) :
            j < i /\ InView(i) = InView(j) /\ prog[prog[j].in].end # 0
      BY <2>3, <3>1 DEF Leaked
    <3>3. j \in 1..Len(prog) /\ j \in Lets(n)' /\ prog[j].kind = "let"
      BY LetsGrow DEF Lets
    <3>4. prog[j].in \in 1..Len(prog)
      <4>1. prog[j] \in Statements
        BY <3>3, ElementOfSeq
      <4>2. prog[j].in \in Nat /\ prog[j].in < j /\ prog[j].in >= 1
        BY <3>3, <4>1 DEF Placed, Statements
      <4> QED BY <1>1, <3>3, <4>2
    <3>5. prog'[prog'[j].in].end # 0
      BY <3>2, <3>3, <3>4 DEF Extends
    <3>6. InView(i)' = InView(j)'
      <4>1. InView(i)' = InView(i) /\ InView(j)' = InView(j)
        BY <1>4, <3>3, SameView
      <4> QED BY <3>2, <4>1
    <3>7. Leaked(i)'
      <4>1. prog'[i].name = n
        BY <2>1, <3>1
      <4>2. j < i /\ InView(i)' = InView(j)' /\ prog'[prog'[j].in].end # 0
        BY <3>2, <3>5, <3>6
      <4>3. PICK e : e = j
        OBVIOUS
      <4>4. e \in Lets(prog[i].name)'
        BY <3>3, <4>1, <4>3 DEF Lets
      <4> QED BY <4>2, <4>3, <4>4 DEF Leaked
    <3> QED BY <3>7
  <2> QED BY <2>1, <2>2, <2>3
<1> QED BY <1>1, <1>2, <1>3, <1>4

LEMMA UseAgrees ==
  ASSUME NamesInv, NEW n \in Name, IsBound(tenv, n), NEW s, Extends(s), s.kind = "use",
         s.name = n, s.check = Lookup(tenv, n).at, s.code = Resolve(n),
         s.unseen = Unseen(n), NEW h, h = Here
  PROVE  s.code # s.check =>
           Leaked(h)' \/ s.unseen \/ (s.name \in Field /\ s.code = Local0)
<1>1. Types /\ Placed
  BY DEF NamesInv
<1>2. /\ prog \in Seq(Statements) /\ tenv \in Seq(CheckScope) /\ Len(open) \in Nat
      /\ Len(prog) \in Nat /\ h = Len(prog) + 1
  BY <1>1, LenProperties DEF Types, Here
<1>3. PICK b, l : InStep(b, l)
  BY DEF NamesInv
<1>4. Settles(n, Len(open) + 1, Len(tenv), locals[n])
  <2>1. Len(open) + 1 \in 1..(Len(open) + 1)
    BY <1>2
  <2> QED BY <1>3, <2>1 DEF InStep, Levels
<1>5. ~LetAbove(n, Len(open) + 1)
  BY <1>2 DEF LetAbove
<1>6. CASE Claim(n, Len(tenv), locals[n], Arms(n, Len(open) + 1))
  <2>1. /\ Decides(tenv, n, Len(tenv), Binder(tenv, n))
        /\ Lookup(tenv, n) = tenv[Binder(tenv, n)][n]
    BY <1>2, LookupFinds
  <2>2. Binder(tenv, n) \in 1..Len(tenv)
    BY <2>1 DEF Decides
  <2>3. Code(n, locals[n]) = Resolve(n)
    BY DEF Code, Resolve, Top
  <2>4. Right(n, locals[n], Lookup(tenv, n).at, Arms(n, Len(open) + 1))
    BY <1>6, <2>1, <2>2 DEF Claim
  <2>5. (\E a \in Arms(n, Len(open) + 1) : Lookup(tenv, n).at < a) => Unseen(n)
    <3>1. Len(open) + 1 - 1 = Len(open) /\ DOMAIN open = 1..Len(open)
      BY <1>1, <1>2, LenProperties DEF Types
    <3> QED BY <3>1 DEF Arms, Unseen
  <2> QED BY <2>3, <2>4, <2>5 DEF Right
<1>7. CASE Leaky(n)
  <2>1. Leaky(n)'
    BY <1>1, <1>2, <1>7, LeakyKept DEF InFunction
  <2>2. PICK j \in Lets(n)' :
          InView(j)' = InView(Len(prog))' /\ prog'[prog'[j].in].end # 0
    BY <2>1 DEF Leaky
  <2>3. j < h
    <3>1. j \in 1..Len(prog)
      BY <1>2, LetsGrow
    <3> QED BY <1>2, <3>1
  <2>4. Len(prog') = h /\ prog'[h] = s
    BY <1>2 DEF Extends, Here
  <2>5. InView(h)' = InView(j)'
    BY <2>2, <2>4 DEF InView
  <2>6. j \in Lets(prog[h].name)'
    BY <2>4 DEF Lets
  <2>7. Leaked(h)'
    BY <2>2, <2>3, <2>5, <2>6 DEF Leaked
  <2> QED BY <2>7
<1> QED BY <1>4, <1>5, <1>6, <1>7 DEF Settles

LEMMA BeginExtends ==
  ASSUME NamesInv, NEW kind \in Units \cup Blocks, NEW n \in Name \cup {NoName},
         NEW known \in BOOLEAN, NEW scopes,
         BeginBlock([Statement(kind, n) EXCEPT !.unseen = ~known], scopes)
  PROVE  \E s \in Statements : Extends(s) /\ s.kind # "use"
<1>1. prog \in Seq(Statements) /\ open \in Seq(Nat) /\ Nest
  BY DEF NamesInv, Types
<1>2. PICK s : s = [[Statement(kind, n) EXCEPT !.unseen = ~known]
                      EXCEPT !.shadows = n # NoName /\ IsBound(tenv, n)]
  OBVIOUS
<1>3. kind \in Kinds /\ kind # "use"
  BY DEF Kinds, Units, Blocks
<1>4. s \in Statements /\ s.kind # "use"
  <2>1. Statement(kind, n) \in Statements /\ Statement(kind, n).kind = kind
    BY <1>1, <1>3, StatementType
  <2>2. (n # NoName /\ IsBound(tenv, n)) \in BOOLEAN
    BY DEF IsBound
  <2> QED BY <1>2, <1>3, <2>1, <2>2 DEF Statements
<1>5. prog' = Append(prog, s)
  <2>1. [Statement(kind, n) EXCEPT !.unseen = ~known].name = n
    BY DEF Statement
  <2> QED BY <1>2, <2>1 DEF BeginBlock, Write
<1> QED BY <1>1, <1>4, <1>5, WriteExtends

LEMMA OtherAgrees ==
  ASSUME NamesInv, GeneratorAgrees, NEW s, Extends(s), s.kind # "use"
  PROVE  GeneratorAgrees'
<1>1. prog \in Seq(Statements) /\ Placed
  BY DEF NamesInv, Types
<1>2. PICK h : h = Here
  OBVIOUS
<1> QED BY <1>1, <1>2, AgreesKept

LEMMA BeginStep ==
  ASSUME NamesInv, NEW n \in Name \cup {NoName},
         \/ BeginAction(n) \/ BeginView(n) \/ BeginEpilogue \/ BeginIf(n)
         \/ n \in Name /\ (BeginFor(n) \/ BeginLambda(n) \/ \E known \in BOOLEAN : BeginMatch(n, known))
  PROVE  NamesInv' /\ \E s \in Statements : Extends(s) /\ s.kind # "use"
<1>1. /\ "action" \in Units /\ "view" \in Units /\ "epilogue" \in Units
      /\ {"if", "for", "match", "fn"} \subseteq Blocks
  BY DEF Units, Blocks
<1>2. CASE BeginAction(n)
  <2>1. /\ Begin("action", n, tenv \o <<Bind(n, Bound), EmptyScope>>)
        /\ PushLocal(n) /\ open = <<>>
    BY <1>2 DEF BeginAction, Before
  <2>2. PICK q : q = tenv \o <<Bind(n, Bound), EmptyScope>>
    OBVIOUS
  <2>3. Begin("action", n, q)
    BY <2>1, <2>2
  <2>4. PICK k \in Units \cup {"for", "match"} : k = "action"
    BY <1>1
  <2>5. q = IF k = "action" THEN tenv \o <<Bind(n, Bound), EmptyScope>>
            ELSE Append(tenv, Bind(n, Bound))
    BY <2>2, <2>4
  <2>6. /\ BeginBlock([Statement(k, n) EXCEPT !.unseen = ~TRUE], q)
        /\ PushLocal(n) /\ k # "view" /\ k \in Units /\ open = <<>>
    BY <1>1, <2>1, <2>3, <2>4, BeginKnown
  <2>7. NamesInv'
    BY <2>5, <2>6, PushBegins
  <2> QED BY <2>6, <2>7, BeginExtends
<1>3. CASE BeginView(n)
  <2>1. /\ BeginBlock([Statement("view", n) EXCEPT !.unseen = ~TRUE], Append(tenv, Bind(n, Bound)))
        /\ open = <<>>
    BY <1>3, BeginKnown DEF BeginView, Before
  <2>2. CASE Before({"view"})
    BY <1>1, <1>3, <2>1, <2>2, FirstViewKeeps, BeginExtends
  <2>3. CASE ~Before({"view"})
    <3>1. PushLocal(n)
      BY <1>3, <2>3 DEF BeginView
    <3>2. InView(Len(prog))
      <4>1. DOMAIN prog = 1..Len(prog)
        BY LenProperties DEF NamesInv, Types
      <4> QED BY <2>1, <2>3, <4>1 DEF Before, InView
    <3> QED BY <1>1, <2>1, <3>1, <3>2, PushBegins, BeginExtends
  <2> QED BY <2>2, <2>3
<1>4. CASE BeginEpilogue
  <2>1. /\ Begin("epilogue", NoName, Append(tenv, EmptyScope)) /\ open = <<>>
        /\ UNCHANGED <<locals, keys, outer>>
    BY <1>4 DEF BeginEpilogue, Before
  <2>2. PushLocal(NoName)
    BY <2>1 DEF PushLocal
  <2>3. Bind(NoName, Bound) = EmptyScope
    BY DEF Bind
  <2>4. PICK q : q = Append(tenv, EmptyScope)
    OBVIOUS
  <2>5. Begin("epilogue", NoName, q) /\ q = Append(tenv, Bind(NoName, Bound))
    BY <2>1, <2>3, <2>4
  <2>6. "epilogue" # "view" /\ "epilogue" # "action" /\ NoName \in Name \cup {NoName}
    OBVIOUS
  <2>7. PICK k \in Units \cup {"for", "match"} : k = "epilogue"
    BY <1>1
  <2>8. PICK m \in Name \cup {NoName} : m = NoName
    OBVIOUS
  <2>9. q = IF k = "action" THEN tenv \o <<Bind(m, Bound), EmptyScope>>
            ELSE Append(tenv, Bind(m, Bound))
    BY <2>5, <2>6, <2>7, <2>8
  <2>10. /\ BeginBlock([Statement(k, m) EXCEPT !.unseen = ~TRUE], q)
         /\ PushLocal(m) /\ k # "view" /\ k \in Units
    BY <1>1, <2>2, <2>5, <2>6, <2>7, <2>8, BeginKnown
  <2>11. NamesInv'
    BY <2>1, <2>9, <2>10, PushBegins
  <2> QED BY <2>10, <2>11, BeginExtends
<1>5. CASE BeginIf(n)
  <2>1. NamesInv'
    BY <1>5, BeginIfKeeps
  <2>2. BeginBlock([Statement("if", n) EXCEPT !.unseen = ~TRUE], Narrow(n) \o BlockScopes)
    BY <1>5, BeginKnown DEF BeginIf
  <2> QED BY <1>1, <2>1, <2>2, BeginExtends
<1>6. CASE n \in Name /\ BeginFor(n)
  <2>1. /\ BeginBlock([Statement("for", n) EXCEPT !.unseen = ~TRUE], Append(tenv, Bind(n, Bound)))
        /\ open # <<>> /\ PushLocal(n)
    BY <1>6, BeginKnown DEF BeginFor, InBody
  <2>2. PICK k \in Units \cup {"for", "match"} : k = "for"
    OBVIOUS
  <2>3. PICK q : q = Append(tenv, Bind(n, Bound))
    OBVIOUS
  <2>4. /\ BeginBlock([Statement(k, n) EXCEPT !.unseen = ~TRUE], q) /\ PushLocal(n)
        /\ k \in Blocks /\ k # "view" /\ k # "action"
    BY <1>1, <2>1, <2>2, <2>3
  <2>5. NamesInv'
    BY <2>1, <2>2, <2>3, <2>4, PushBegins
  <2> QED BY <2>4, <2>5, BeginExtends
<1>7. ASSUME n \in Name, NEW known \in BOOLEAN, BeginMatch(n, known)
      PROVE  NamesInv' /\ \E s \in Statements : Extends(s) /\ s.kind # "use"
  <2>1. PICK x : x = IF known THEN n ELSE NoName
    OBVIOUS
  <2>2. /\ BeginBlock([Statement("match", n) EXCEPT !.unseen = ~known], Append(tenv, Bind(x, Bound)))
        /\ open # <<>> /\ PushLocal(n)
    BY <1>7, <2>1 DEF BeginMatch, InBody
  <2>3. PICK k \in Units \cup {"for", "match"} : k = "match"
    OBVIOUS
  <2>4. PICK q : q = Append(tenv, Bind(x, Bound))
    OBVIOUS
  <2>5. /\ BeginBlock([Statement(k, n) EXCEPT !.unseen = ~known], q) /\ PushLocal(n)
        /\ k \in Blocks /\ k # "view" /\ k # "action"
    BY <1>1, <2>2, <2>3, <2>4
  <2>6. NamesInv'
    BY <1>7, <2>1, <2>2, <2>3, <2>4, <2>5, PushBegins
  <2> QED BY <2>5, <2>6, BeginExtends
<1>8. CASE n \in Name /\ BeginLambda(n)
  <2>1. NamesInv'
    BY <1>8, BeginLambdaKeeps
  <2>2. BeginBlock([Statement("fn", n) EXCEPT !.unseen = ~TRUE], Append(tenv, Bind(n, Bound)))
    BY <1>8, BeginKnown DEF BeginLambda
  <2> QED BY <1>1, <2>1, <2>2, BeginExtends
<1> QED BY <1>2, <1>3, <1>4, <1>5, <1>6, <1>7, <1>8

LEMMA PlainStep ==
  ASSUME NamesInv, NEW kind \in {"set", "use", "return"}, NEW n \in Name \cup {NoName},
         NEW s, s \in Statements, s.kind = kind, s.in = Statement(kind, n).in, Write(s),
         UNCHANGED <<open, tenv, locals, keys, outer>>
  PROVE  NamesInv' /\ Extends(s)
<1>1. prog \in Seq(Statements) /\ open \in Seq(Nat) /\ Nest
  BY DEF NamesInv, Types
<1>2. kind \in Kinds
  BY DEF Kinds
<1>3. s.in < Here
  BY <1>1, <1>2, StatementType
<1>4. prog' = Append(prog, s)
  BY DEF Write
<1>5. Extends(s)
  BY <1>1, <1>4, WriteExtends
<1>6. s.kind \in {"set", "use", "return"}
  OBVIOUS
<1>7. NamesInv'
  BY <1>3, <1>4, <1>6, PlainKeepsStep
<1> QED BY <1>5, <1>7

LEMMA CompileKeeps ==
  ASSUME NamesInv, GeneratorAgrees, Compile
  PROVE  NamesInv' /\ GeneratorAgrees'
<1>1. prog \in Seq(Statements) /\ open \in Seq(Nat) /\ Nest /\ Placed
      /\ tenv \in Seq(CheckScope) /\ Len(prog) \in Nat
  BY LenProperties DEF NamesInv, Types
<1>2. ASSUME NEW n \in Name \cup {NoName},
             \/ BeginAction(n) \/ BeginView(n) \/ BeginEpilogue \/ BeginIf(n)
             \/ n \in Name /\ (BeginFor(n) \/ BeginLambda(n) \/ \E known \in BOOLEAN : BeginMatch(n, known))
      PROVE  NamesInv' /\ GeneratorAgrees'
  BY <1>2, BeginStep, OtherAgrees
<1>3. ASSUME NEW n \in Name, NEW nullable \in BOOLEAN, Let(n, nullable)
      PROVE  NamesInv' /\ GeneratorAgrees'
  <2>1. NamesInv'
    BY <1>3, LetKeeps
  <2>2. PICK s : s = [Statement("let", n) EXCEPT !.nullable = nullable, !.shadows = IsBound(tenv, n)]
    OBVIOUS
  <2>3. s \in Statements /\ s.kind # "use"
    <3>1. Statement("let", n) \in Statements /\ Statement("let", n).kind = "let"
      <4>1. "let" \in Kinds
        BY DEF Kinds
      <4> QED BY <1>1, <4>1, StatementType
    <3>2. IsBound(tenv, n) \in BOOLEAN
      BY DEF IsBound
    <3> QED BY <2>2, <3>1, <3>2 DEF Statements
  <2>4. prog' = Append(prog, s)
    BY <1>3, <2>2 DEF Let, Write
  <2> QED BY <1>1, <2>1, <2>3, <2>4, WriteExtends, OtherAgrees
<1>4. ASSUME Else PROVE NamesInv' /\ GeneratorAgrees'
  <2>1. NamesInv'
    BY <1>4, ElseKeeps
  <2>2. open # <<>> /\ Innermost \in 1..Len(prog) /\ prog[Innermost] \in Statements
    <3>1. open # <<>>
      BY <1>4 DEF Else
    <3>2. Len(open) \in 1..Len(open)
      BY <1>1, <3>1, EmptySeq, LenProperties
    <3>3. Innermost \in 1..Len(prog)
      BY <1>1, <3>2 DEF Nest, Innermost
    <3> QED BY <1>1, <3>1, <3>3, ElementOfSeq
  <2>3. PICK s : s = [Statement("else", NoName) EXCEPT !.in = prog[Innermost].in]
    OBVIOUS
  <2>4. s \in Statements /\ s.kind # "use"
    <3>1. Statement("else", NoName) \in Statements /\ Statement("else", NoName).kind = "else"
      <4>1. "else" \in Kinds
        BY DEF Kinds, Blocks
      <4> QED BY <1>1, <4>1, StatementType
    <3>2. prog[Innermost].in \in Nat
      BY <2>2 DEF Statements
    <3> QED BY <2>3, <3>1, <3>2 DEF Statements
  <2>5. prog' = Append([prog EXCEPT ![Innermost].end = Here], s)
    BY <1>4, <2>3 DEF Else
  <2>6. Extends(s)
    BY <1>1, <2>2, <2>4, <2>5, CloseExtends
  <2> QED BY <2>1, <2>4, <2>6, OtherAgrees
<1>5. ASSUME End PROVE NamesInv' /\ GeneratorAgrees'
  <2>1. NamesInv'
    BY <1>5, EndKeeps
  <2>2. open # <<>> /\ Innermost \in 1..Len(prog)
    <3>1. open # <<>>
      BY <1>5 DEF End
    <3>2. Len(open) \in 1..Len(open)
      BY <1>1, <3>1, EmptySeq, LenProperties
    <3> QED BY <1>1, <3>1, <3>2 DEF Nest, Innermost
  <2>3. PICK s : s = [Statement("end", NoName) EXCEPT !.in = Innermost]
    OBVIOUS
  <2>4. s \in Statements /\ s.kind # "use"
    <3>1. Statement("end", NoName) \in Statements /\ Statement("end", NoName).kind = "end"
      <4>1. "end" \in Kinds
        BY DEF Kinds
      <4> QED BY <1>1, <4>1, StatementType
    <3>2. Innermost \in Nat
      BY <1>1, <2>2
    <3> QED BY <2>3, <3>1, <3>2 DEF Statements
  <2>5. prog' = Append([prog EXCEPT ![Innermost].end = Here], s)
    BY <1>5, <2>3 DEF End
  <2>6. Extends(s)
    BY <1>1, <2>2, <2>4, <2>5, CloseExtends
  <2> QED BY <2>1, <2>4, <2>6, OtherAgrees
<1>6. ASSUME NEW f \in Field, Set(f) PROVE NamesInv' /\ GeneratorAgrees'
  <2>1. PICK s : s = [Statement("set", f) EXCEPT !.shadows = Lookup(tenv, f).at # 0,
                                               !.unseen = Unseen(f)]
    OBVIOUS
  <2>2. f \in Name \cup {NoName}
    BY DEF Name
  <2>3. s \in Statements /\ s.kind = "set" /\ s.in = Statement("set", f).in
    <3>1. Statement("set", f) \in Statements /\ Statement("set", f).kind = "set"
      <4>1. "set" \in Kinds
        BY DEF Kinds
      <4> QED BY <1>1, <2>2, <4>1, StatementType
    <3>2. (Lookup(tenv, f).at # 0) \in BOOLEAN /\ Unseen(f) \in BOOLEAN
      BY DEF Unseen
    <3> QED BY <2>1, <3>1, <3>2 DEF Statements
  <2>4. Write(s) /\ UNCHANGED <<open, tenv, locals, keys, outer>>
    BY <1>6, <2>1 DEF Set
  <2>5. NamesInv' /\ Extends(s)
    BY <2>2, <2>3, <2>4, PlainStep
  <2> QED BY <2>3, <2>5, OtherAgrees
<1>7. ASSUME NEW n \in Name, Use(n) PROVE NamesInv' /\ GeneratorAgrees'
  <2>1. PICK s : s = [Statement("use", n) EXCEPT !.check = Lookup(tenv, n).at,
                                                 !.nullable = Lookup(tenv, n).nullable,
                                                 !.unseen = Unseen(n),
                                                 !.code = Resolve(n)]
    OBVIOUS
  <2>2. IsBound(tenv, n)
    BY <1>7 DEF Use
  <2>3. Lookup(tenv, n).at \in Nat /\ Lookup(tenv, n).nullable \in BOOLEAN
    <3>1. Lookup(tenv, n) \in Binding
      BY <1>1, <2>2, LookupFinds
    <3> QED BY <3>1 DEF Binding
  <2>4. Resolve(n) \in Int
    <3>1. locals[n] \in Seq(Int)
      BY DEF NamesInv, Types
    <3>2. locals[n] # <<>> => locals[n][Len(locals[n])] \in Int
      BY <3>1, EmptySeq, ElementOfSeq, LenProperties
    <3>3. 0 \in Int /\ NoLocal \in Int
      BY DEF NoLocal
    <3> QED BY <3>2, <3>3 DEF Resolve, Top
  <2>5. /\ s \in Statements /\ s.kind = "use" /\ s.in = Statement("use", n).in
        /\ s.name = n /\ s.check = Lookup(tenv, n).at /\ s.code = Resolve(n)
        /\ s.unseen = Unseen(n)
    <3>0. Unseen(n) \in BOOLEAN
      BY DEF Unseen
    <3>1. /\ Statement("use", n) \in Statements /\ Statement("use", n).kind = "use"
          /\ Statement("use", n).name = n
      <4>1. "use" \in Kinds
        BY DEF Kinds
      <4> QED BY <1>1, <4>1, StatementType
    <3> QED BY <2>1, <2>3, <2>4, <3>0, <3>1 DEF Statements
  <2>6. Write(s) /\ UNCHANGED <<open, tenv, locals, keys, outer>>
    BY <1>7, <2>1 DEF Use
  <2>7. NamesInv' /\ Extends(s)
    BY <2>5, <2>6, PlainStep
  <2>8. PICK h : h = Here
    OBVIOUS
  <2>9. s.code # s.check => Leaked(h)' \/ s.unseen \/ (s.name \in Field /\ s.code = Local0)
    BY <2>2, <2>5, <2>7, <2>8, UseAgrees
  <2>10. GeneratorAgrees'
    BY <1>1, <2>7, <2>8, <2>9, AgreesKept
  <2> QED BY <2>7, <2>10
<1>8. ASSUME Return PROVE NamesInv' /\ GeneratorAgrees'
  <2>1. PICK s : s = Statement("return", NoName)
    OBVIOUS
  <2>2. s \in Statements /\ s.kind = "return" /\ s.in = Statement("return", NoName).in
    <3>1. "return" \in Kinds
      BY DEF Kinds
    <3> QED BY <1>1, <2>1, <3>1, StatementType
  <2>3. Write(s) /\ UNCHANGED <<open, tenv, locals, keys, outer>>
    BY <1>8, <2>1 DEF Return
  <2>4. NamesInv' /\ Extends(s)
    BY <2>2, <2>3, PlainStep
  <2> QED BY <2>2, <2>4, OtherAgrees
<1>9. NoName \in Name \cup {NoName} /\ Name \subseteq Name \cup {NoName} /\ Local \subseteq Name
  BY DEF Name
<1> QED
  <2>1. \/ \E n \in Name \cup {NoName} :
             \/ BeginAction(n) \/ BeginView(n) \/ BeginEpilogue \/ BeginIf(n)
             \/ n \in Name /\ (BeginFor(n) \/ BeginLambda(n) \/ \E known \in BOOLEAN : BeginMatch(n, known))
        \/ \E n \in Name, nullable \in BOOLEAN : Let(n, nullable)
        \/ Else \/ End \/ (\E f \in Field : Set(f)) \/ (\E n \in Name : Use(n)) \/ Return
    BY <1>9, Zenon DEF Compile
  <2> QED BY <1>2, <1>3, <1>4, <1>5, <1>6, <1>7, <1>8, <2>1

\* A run of the program changes neither it nor what was made of it.
LEMMA RunKeeps ==
  ASSUME NamesInv, GeneratorAgrees, UNCHANGED compilation
  PROVE  NamesInv' /\ GeneratorAgrees'
<1>1. UNCHANGED <<prog, open, tenv, locals, keys, outer>>
  BY DEF compilation
<1>2. Types' /\ Placed' /\ Nest' /\ LetsHere' /\ KeysCover' /\ Global' /\ Earlier'
  BY <1>1 DEF NamesInv, Types, Placed, Nest, LetsHere, KeysCover, Global, Earlier, Here, Lets,
     InView
<1>3. PICK b, l : InStep(b, l)
  BY DEF NamesInv
<1>4. InStep(b, l)'
  BY <1>1, <1>3 DEF InStep, Levels, Settles, Returns, Popped, Claim, Decides, Code, Leaky,
     LetAbove, LetIn, Lets, InView, Depth, BlockScopes, Inside, Arms, Right
<1>5. GeneratorAgrees'
  BY <1>1 DEF GeneratorAgrees, Leaked, Lets, InView
<1> QED BY <1>2, <1>4, <1>5 DEF NamesInv

\* In every accepted program, whatever its names and however its actions,
\* loops, arms, lambdas, branches and `let`s nest, the generated code reads
\* the local or the field the checker means, unless a `let` of the name has
\* leaked from a block that is over, or the checker does not know of the arm
\* that binds it, or a lambda captured the field as local 0 (GeneratorAgrees:
\* emit_identifier and the name stacks of FuncContext against the checker's
\* scopes and check_match_expr).
THEOREM GeneratorReads == Spec => []GeneratorAgrees
<1>1. Init => NamesInv /\ GeneratorAgrees
  BY InitNames
<1>2. NamesInv /\ GeneratorAgrees /\ [Next]_vars => (NamesInv /\ GeneratorAgrees)'
  <2> SUFFICES ASSUME NamesInv, GeneratorAgrees, [Next]_vars
               PROVE  NamesInv' /\ GeneratorAgrees'
    OBVIOUS
  <2>1. CASE Compile
    BY <2>1, CompileKeeps
  <2>2. CASE Evaluate
    BY <2>2, RunKeeps DEF Evaluate
  <2>3. CASE UNCHANGED vars
    BY <2>3, RunKeeps DEF vars, compilation
  <2> QED BY <2>1, <2>2, <2>3 DEF Next
<1> QED BY <1>1, <1>2, PTL DEF Spec

=============================================================================
