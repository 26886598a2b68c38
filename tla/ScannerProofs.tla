---------------------------- MODULE ScannerProofs ----------------------------
(***************************************************************************)
(* What the scanner keeps right on sources of any length: its mode stack,  *)
(* whose bottom is never popped and whose brace depths never go below      *)
(* zero, the end of the token stream, and how the tokens of interpolated   *)
(* strings nest.                                                           *)
(***************************************************************************)
EXTENDS Scanner, SequenceTheorems, TLAPS

\* Only a string is continued, and only the top of the stack is one.
ScanInv ==
  /\ TypeOK
  /\ at = "continuation" => current_mode = String
  /\ EndsWithEof

\* A sequence without its last element begins as it did.
LEMMA FrontOfSeq ==
  ASSUME NEW S, NEW s \in Seq(S), Len(s) > 1
  PROVE  Front(s) \in Seq(S) /\ Front(s) # <<>> /\ Head(Front(s)) = Head(s)
<1> DEFINE n == Len(s) - 1
<1>1. n \in Nat /\ 1 <= n /\ n <= Len(s) /\ n \in 1..Len(s)
  BY LenProperties
<1>2. Front(s) = SubSeq(s, 1, n)
  BY DEF Front
<1>3. \A i \in 1..n : s[i] \in S
  BY <1>1, ElementOfSeq
<1>4. /\ SubSeq(s, 1, n) \in Seq(S)
      /\ Len(SubSeq(s, 1, n)) = n - 1 + 1
      /\ \A i \in 1..(n - 1 + 1) : SubSeq(s, 1, n)[i] = s[1 + i - 1]
  BY <1>1, <1>3, SubSeqProperties
<1>5. Len(SubSeq(s, 1, n)) = n /\ SubSeq(s, 1, n)[1] = s[1]
  BY <1>1, <1>4
<1> HIDE DEF n
<1> QED
  BY <1>1, <1>2, <1>4, <1>5

\* The mode stack without its top, where the top is not the bottom.
LEMMA Popped ==
  ASSUME TypeOK, current_mode # Normal
  PROVE  /\ Front(mode_stack) \in Seq(Mode)
         /\ Front(mode_stack) # <<>>
         /\ Head(Front(mode_stack)) = Normal
<1>1. mode_stack \in Seq(Mode) /\ mode_stack # <<>> /\ Head(mode_stack) = Normal
  BY DEF TypeOK
<1>2. Len(mode_stack) > 1
  BY <1>1 DEF current_mode, Last
<1> QED
  BY <1>1, <1>2, FrontOfSeq

\* A mode in the place of the top.
LEMMA ModeSet ==
  ASSUME TypeOK, current_mode # Normal, NEW mode \in Mode, SetMode(mode)
  PROVE  /\ mode_stack' \in Seq(Mode) /\ mode_stack' # <<>>
         /\ Head(mode_stack') = Normal
<1> DEFINE below == Front(mode_stack)
<1>1. below \in Seq(Mode) /\ below # <<>> /\ Head(below) = Normal
  BY Popped
<1>2. mode_stack' = Append(below, mode)
  BY DEF SetMode
<1> HIDE DEF below
<1> QED
  BY <1>1, <1>2

\* A mode on top of the others.
LEMMA ModePushed ==
  ASSUME TypeOK, NEW mode \in Mode, mode_stack' = Append(mode_stack, mode)
  PROVE  /\ mode_stack' \in Seq(Mode) /\ mode_stack' # <<>>
         /\ Head(mode_stack') = Normal
BY DEF TypeOK

\* Both ways to advance keep the characters in sight well-typed.
LEMMA Advanced ==
  ASSUME TypeOK, Advance \/ Advance2
  PROVE  /\ peek' \in Char \cup {"end"} /\ peek_1' \in Char \cup {"end"}
         /\ taken' \in 0..(MaxChars + 2)
BY ScannerAssumption DEF TypeOK, Advance, Advance2

\* The top is one of the modes; the three kinds differ.
LEMMA TopMode ==
  ASSUME TypeOK
  PROVE  /\ current_mode \in Mode
         /\ Normal # String /\ Normal \in Mode /\ String \in Mode
         /\ \A d \in Nat : Interpolation(d) \in Mode
                             /\ Interpolation(d) # Normal
<1>1. current_mode \in Mode
  BY DEF TypeOK, current_mode, Last
<1>2. Normal.kind # String.kind /\ \A d : Interpolation(d).kind # Normal.kind
  BY DEF Normal, String, Interpolation
<1>3. Normal # String /\ \A d : Interpolation(d) # Normal
  BY <1>2
<1>4. Normal \in Mode /\ String \in Mode /\ \A d \in Nat : Interpolation(d) \in Mode
  BY DEF Mode, Normal, String, Interpolation
<1> QED
  BY <1>1, <1>3, <1>4

LEMMA ErrorsTyped ==
  ASSUME TypeOK, emit_error
  PROVE  errors' \in 0..MaxErrors
BY ScannerAssumption DEF TypeOK, emit_error, too_many_errors

LEMMA InitInv == Init => ScanInv
<1> SUFFICES ASSUME Init PROVE ScanInv
  OBVIOUS
<1>1. Normal \in Mode
  BY DEF Normal, Mode
<1>2. mode_stack \in Seq(Mode) /\ mode_stack # <<>> /\ Head(mode_stack) = Normal
  BY <1>1 DEF Init
<1>3. TypeOK
  <2>1. peek \in Char \cup {"end"} /\ peek_1 \in Char \cup {"end"}
    BY ScannerAssumption DEF Init
  <2>2. taken \in 0..(MaxChars + 2) /\ errors \in 0..MaxErrors
    BY ScannerAssumption DEF Init
  <2>3. at \in Place /\ last \in Token /\ pending \in BOOLEAN
          /\ commented \in BOOLEAN
    BY DEF Init, Place, Token
  <2> QED
    BY <1>2, <2>1, <2>2, <2>3 DEF TypeOK
<1>4. at = "lex"
  BY DEF Init
<1> QED
  BY <1>3, <1>4 DEF ScanInv, EndsWithEof

-----------------------------------------------------------------------------
\* Every step keeps the types.

LEMMA Unchanged ==
  ASSUME TypeOK, mode_stack' = mode_stack
  PROVE  /\ mode_stack' \in Seq(Mode) /\ mode_stack' # <<>>
         /\ Head(mode_stack') = Normal
BY DEF TypeOK

\* What each action does to the mode stack and the errors.
LEMMA StackTyped ==
  ASSUME TypeOK, at = "continuation" => current_mode = String, Next
  PROVE  /\ mode_stack' \in Seq(Mode) /\ mode_stack' # <<>>
         /\ Head(mode_stack') = Normal
<1> USE TopMode
<1>1. CASE OpenBrace
  <2>1. CASE current_mode.kind = "Interpolation"
    <3>1. current_mode # Normal /\ current_mode.brace_depth + 1 \in Nat
      BY <2>1 DEF Normal, Mode
    <3>2. SetMode(Interpolation(current_mode.brace_depth + 1))
      BY <1>1, <2>1 DEF OpenBrace
    <3> QED
      BY <3>1, <3>2, ModeSet
  <2>2. CASE current_mode.kind # "Interpolation"
    BY <1>1, <2>2, Unchanged DEF OpenBrace
  <2> QED
    BY <2>1, <2>2
<1>2. CASE CloseBrace
  <2>1. CASE current_mode = Interpolation(0)
    BY <1>2, <2>1, ModeSet DEF CloseBrace
  <2>2. CASE current_mode # Interpolation(0) /\ current_mode.kind = "Interpolation"
    <3>1. current_mode # Normal /\ current_mode.brace_depth # 0
      BY <2>2 DEF Normal, Mode, Interpolation
    <3>2. current_mode.brace_depth - 1 \in Nat
      BY <3>1 DEF Mode
    <3>3. SetMode(Interpolation(current_mode.brace_depth - 1))
      BY <1>2, <2>2 DEF CloseBrace
    <3> QED
      BY <3>1, <3>2, <3>3, ModeSet
  <2>3. CASE current_mode # Interpolation(0) /\ current_mode.kind # "Interpolation"
    BY <1>2, <2>3, Unchanged DEF CloseBrace
  <2> QED
    BY <2>1, <2>2, <2>3
<1>3. CASE CloseString
  <2>1. CASE at = "string"
    BY <1>3, <2>1, Unchanged DEF CloseString
  <2>2. CASE at # "string"
    <3>1. current_mode # Normal /\ mode_stack' = Front(mode_stack)
      BY <1>3, <2>2 DEF CloseString, InString
    <3> QED
      BY <3>1, Popped
  <2> QED
    BY <2>1, <2>2
<1>4. CASE BeginInterpolation
  <2>1. CASE at = "string"
    BY <1>4, <2>1, ModePushed DEF BeginInterpolation
  <2>2. CASE at # "string"
    <3>1. current_mode # Normal /\ SetMode(Interpolation(0))
      BY <1>4, <2>2 DEF BeginInterpolation, InString
    <3> QED
      BY <3>1, ModeSet
  <2> QED
    BY <2>1, <2>2
<1>5. CASE \/ Stop \/ Drain \/ Scan \/ Skip \/ Capped \/ AtEnd \/ BeginComment
           \/ BlockComment \/ Comment \/ Punctuation \/ Word \/ Unexpected
           \/ Escape \/ Text
  <2>1. mode_stack' = mode_stack
    BY <1>5 DEF Stop, Drain, Scan, Skip, Capped, AtEnd, BeginComment,
       BlockComment, Comment, Punctuation, Word, Unexpected, Escape, Text
  <2> QED
    BY <2>1, Unchanged
<1> QED
  BY <1>1, <1>2, <1>3, <1>4, <1>5 DEF Next

\* The characters in sight and the errors, which only Advance, Advance2 and
\* emit_error change.
LEMMA SourceTyped ==
  ASSUME TypeOK, Next
  PROVE  /\ peek' \in Char \cup {"end"} /\ peek_1' \in Char \cup {"end"}
         /\ taken' \in 0..(MaxChars + 2)
         /\ errors' \in 0..MaxErrors
<1>1. Advance \/ Advance2 \/ UNCHANGED source
  BY DEF Next, Stop, Drain, Scan, Skip, Capped, AtEnd, BeginComment,
     BlockComment, Comment, Punctuation, Word, OpenBrace, CloseBrace,
     Unexpected, CloseString, BeginInterpolation, Escape, Text
<1>2. emit_error \/ UNCHANGED errors
  BY DEF Next, Stop, Drain, Scan, Skip, Capped, AtEnd, BeginComment,
     BlockComment, Comment, Punctuation, Word, OpenBrace, CloseBrace,
     Unexpected, CloseString, BeginInterpolation, Escape, Text
<1>3. errors' \in 0..MaxErrors
  BY <1>2, ErrorsTyped DEF TypeOK
<1>4. CASE UNCHANGED source
  BY <1>4, <1>3 DEF TypeOK, source
<1> QED
  BY <1>1, <1>3, <1>4, Advanced

\* Where the scanner is, and the token emitted last.
LEMMA PlaceTyped ==
  ASSUME TypeOK, Next
  PROVE  /\ at' \in Place /\ last' \in Token
         /\ pending' \in BOOLEAN /\ commented' \in BOOLEAN
<1>1. CASE Stop \/ Drain \/ Scan \/ Skip \/ Capped \/ AtEnd
  BY <1>1 DEF TypeOK, Place, Token, emitted, Emit, Return, Stop, Drain, Scan,
     Skip, Capped, AtEnd
<1>2. CASE BeginComment \/ BlockComment \/ Comment \/ Unexpected
  BY <1>2 DEF TypeOK, Place, Token, emitted, Emit, Return, BeginComment,
     BlockComment, Comment, Unexpected
<1>3. CASE Punctuation \/ Word \/ OpenBrace \/ CloseBrace
  BY <1>3 DEF TypeOK, Place, Token, emitted, Emit, Return, Punctuation, Word,
     OpenBrace, CloseBrace
<1>4. CASE CloseString \/ BeginInterpolation \/ Escape \/ Text
  BY <1>4 DEF TypeOK, Place, Token, emitted, Emit, Return, CloseString,
     BeginInterpolation, Escape, Text
<1> QED
  BY <1>1, <1>2, <1>3, <1>4 DEF Next

\* A continuation begins in a string and leaves lex again before the mode
\* changes; the scan is done only behind an eof, early only after an error.
LEMMA PlaceKept ==
  ASSUME ScanInv, Next
  PROVE  (at' = "continuation" => current_mode' = String) /\ EndsWithEof'
<1> USE ScannerAssumption
<1>1. CASE Stop \/ Capped \/ AtEnd
  BY <1>1 DEF ScanInv, TypeOK, EndsWithEof, source, Stop, Capped, AtEnd,
     Emit, Return, too_many_errors
<1>2. CASE Drain \/ Scan \/ Skip
  BY <1>2 DEF ScanInv, current_mode, EndsWithEof, Drain, Scan, Skip
<1>3. CASE BeginComment \/ BlockComment \/ Comment \/ Unexpected
  BY <1>3 DEF EndsWithEof, source, BeginComment, Beginning, BlockComment,
     Comment, Unexpected, Emit, Return
<1>4. CASE Punctuation \/ Word \/ OpenBrace \/ CloseBrace
  BY <1>4 DEF EndsWithEof, Punctuation, Beginning, Word, OpenBrace,
     CloseBrace, Return
<1>5. CASE CloseString \/ BeginInterpolation
  BY <1>5 DEF EndsWithEof, CloseString, BeginInterpolation, Return
<1>6. CASE Escape \/ Text
  BY <1>6 DEF ScanInv, current_mode, EndsWithEof, InString, Escape, Text
<1> QED
  BY <1>1, <1>2, <1>3, <1>4, <1>5, <1>6 DEF Next

LEMMA StepKeepsScanInv == ScanInv /\ [Next]_vars => ScanInv'
<1> SUFFICES ASSUME ScanInv, [Next]_vars PROVE ScanInv'
  OBVIOUS
<1>1. CASE Next
  <2>1. TypeOK'
    BY <1>1, StackTyped, SourceTyped, PlaceTyped DEF ScanInv, TypeOK
  <2> QED
    BY <1>1, <2>1, PlaceKept DEF ScanInv
<1>2. CASE UNCHANGED vars
  BY <1>2 DEF vars, ScanInv, TypeOK, EndsWithEof, current_mode
<1> QED
  BY <1>1, <1>2

-----------------------------------------------------------------------------
LEMMA AlwaysScanInv == Spec => []ScanInv
<1>1. ScanInv /\ [Next]_vars => ScanInv'
  BY StepKeepsScanInv
<1> QED
  BY InitInv, <1>1, PTL DEF Spec

\* However strings and interpolations nest, the bottom of the mode stack stays
\* (pop_mode's guard for it is never needed) and no brace depth goes below
\* zero, where the code's u32 would wrap.
THEOREM ScanTypes == Spec => []TypeOK
<1>1. ScanInv => TypeOK
  BY DEF ScanInv
<1> QED
  BY AlwaysScanInv, <1>1, PTL

\* lex ends the stream with Eof on every path out of its loop, the error limit
\* included, and without an error only at the end of the source.
THEOREM StreamEnds == Spec => []EndsWithEof
<1>1. ScanInv => EndsWithEof
  BY DEF ScanInv
<1> QED
  BY AlwaysScanInv, <1>1, PTL

-----------------------------------------------------------------------------
(* How the tokens nest.  Every mode above the bottom is a string; its      *)
(* tokens are the start, then, while an interpolation is open, `${` and    *)
(* one brace for each level of depth.  p says where the tokens of each     *)
(* mode begin.                                                             *)

StringStart == "string start"
DollarBrace == "${"
Brace == "{"
Bracket == {StringStart, DollarBrace, Brace}

\* o[a] to o[b - 1] are the tokens of mode k, whose interpolation is open.
Level(o, a, b, k, depth) ==
  IF k = 1
  THEN \A j \in a..(b - 1) : o[j] = Brace
  ELSE /\ b = a + 2 + depth
       /\ o[a] = StringStart /\ o[a + 1] = DollarBrace
       /\ \A j \in (a + 2)..(b - 1) : o[j] = Brace

\* Of a string without one, only the start is open.
TopLevel(o, a, m, tip) ==
  IF tip = 1
  THEN Len(m) > 1 /\ Len(o) = a /\ o[a] = StringStart
  ELSE Level(o, a, Len(o) + 1, Len(m), m[Len(m)].brace_depth)

Laid(o, m, tip, p) ==
  /\ p \in [1..(Len(m) + 1) -> Nat]
  /\ p[1] = 1 /\ p[Len(m) + 1] = Len(o) + 1
  /\ \A j, k \in 1..(Len(m) + 1) : j <= k => p[j] <= p[k]
  /\ \A k \in 1..(Len(m) - 1) : Level(o, p[k], p[k + 1], k, m[k].brace_depth)
  /\ TopLevel(o, p[Len(m)], m, tip)

\* How many of the tokens of the top mode are open, its braces aside.
Tip == IF pending \/ current_mode = String THEN 1 ELSE 2

\* The modes and the tokens, whatever comes next.
Nested ==
  /\ open \in Seq(Bracket)
  /\ \A k \in 2..Len(mode_stack) :
       mode_stack[k].kind = "Interpolation" \/ mode_stack[k] = String
  /\ \A k \in 1..(Len(mode_stack) - 1) : mode_stack[k] # String
  /\ pending => current_mode = Interpolation(0)
  /\ \E p : Laid(open, mode_stack, Tip, p)

NestInv ==
  /\ Nested
  /\ at \notin {"lex", "done"} => ~pending
  /\ at \in {"normal", "word", "string", "comment", "block comment"} =>
       current_mode # String
  /\ StringsClosed

LEMMA FrontProperties ==
  ASSUME NEW S, NEW s \in Seq(S), s # <<>>
  PROVE  /\ Front(s) \in Seq(S) /\ Len(Front(s)) = Len(s) - 1
         /\ Len(s) \in Nat \ {0}
         /\ \A i \in 1..(Len(s) - 1) : Front(s)[i] = s[i]
<1> DEFINE n == Len(s) - 1
<1>0. Len(s) \in Nat \ {0} /\ n \in Nat /\ 1 \in Int
  BY EmptySeq
<1>1. \A i \in 1..n : s[i] \in S
  BY <1>0, ElementOfSeq
<1>2. Front(s) = SubSeq(s, 1, n)
  BY DEF Front
<1> HIDE DEF n
<1>3. /\ Front(s) \in Seq(S) /\ Len(Front(s)) = IF 1 <= n THEN n - 1 + 1 ELSE 0
      /\ \A i \in 1..(n - 1 + 1) : Front(s)[i] = s[1 + i - 1]
  BY <1>0, <1>1, <1>2, SubSeqProperties
<1>4. Len(Front(s)) = n /\ n - 1 + 1 = n
  BY <1>0, <1>3
<1>5. ASSUME NEW i \in 1..n PROVE Front(s)[i] = s[i]
  <2>1. 1 + i - 1 = i
    OBVIOUS
  <2> QED
    BY <1>3, <1>4, <2>1
<1> QED
  BY <1>0, <1>3, <1>4, <1>5 DEF n

\* Tokens further in do not matter to a level.
LEMMA LevelKept ==
  ASSUME NEW o, NEW w, NEW a \in Nat, NEW b \in Nat, NEW n \in Nat,
         NEW depth \in Nat, NEW k,
         a >= 1, b <= n + 1, \A i \in 1..n : w[i] = o[i],
         Level(o, a, b, k, depth)
  PROVE  Level(w, a, b, k, depth)
<1>1. CASE k = 1
  <2>1. \A j \in a..(b - 1) : j \in 1..n
    OBVIOUS
  <2> QED
    BY <1>1, <2>1 DEF Level
<1>2. CASE k # 1
  <2>1. b = a + 2 + depth
    BY <1>2 DEF Level
  <2>2. a \in 1..n /\ a + 1 \in 1..n /\ \A j \in (a + 2)..(b - 1) : j \in 1..n
    BY <2>1
  <2> QED
    BY <1>2, <2>1, <2>2 DEF Level
<1> QED
  BY <1>1, <1>2

LEMMA LaidFacts ==
  ASSUME NEW o \in Seq(Bracket), NEW m \in Seq(Mode), m # <<>>, NEW tip \in {1, 2}, NEW p,
         Laid(o, m, tip, p)
  PROVE  /\ Len(m) \in Nat \ {0} /\ Len(o) \in Nat
         /\ \A k \in 1..(Len(m) + 1) : p[k] \in Nat /\ p[k] >= 1
         /\ p[Len(m)] \in Nat /\ p[Len(m)] >= 1 /\ p[Len(m)] <= Len(o) + 1
         /\ \A k \in 1..Len(m) : m[k] \in Mode /\ m[k].brace_depth \in Nat
<1>1. Len(m) \in Nat \ {0} /\ Len(o) \in Nat
  BY EmptySeq
<1>2. \A k \in 1..(Len(m) + 1) : p[k] \in Nat /\ p[k] >= 1
  <2> TAKE k \in 1..(Len(m) + 1)
  <2>1. 1 \in 1..(Len(m) + 1) /\ 1 <= k
    BY <1>1
  <2> QED
    BY <2>1 DEF Laid
<1>3. Len(m) \in 1..(Len(m) + 1) /\ Len(m) + 1 \in 1..(Len(m) + 1) /\ Len(m) <= Len(m) + 1
  BY <1>1
<1>4. p[Len(m)] <= Len(o) + 1
  BY <1>3 DEF Laid
<1>5. \A k \in 1..Len(m) : m[k] \in Mode
  BY ElementOfSeq
<1> QED
  BY <1>1, <1>2, <1>3, <1>4, <1>5 DEF Mode

\* The top mode m[Len(m)] and its tokens replaced by those of n and w.
Replaced(o, m, tip, p, w, n, tip_2) ==
  /\ o \in Seq(Bracket) /\ m \in Seq(Mode) /\ m # <<>> /\ tip \in {1, 2}
  /\ Laid(o, m, tip, p)
  /\ w \in Seq(Bracket) /\ n \in Seq(Mode) /\ tip_2 \in {1, 2}
  /\ Len(n) = Len(m) /\ \A k \in 1..(Len(m) - 1) : n[k] = m[k]
  /\ Len(w) + 1 >= p[Len(m)] /\ \A i \in 1..(p[Len(m)] - 1) : w[i] = o[i]
  /\ TopLevel(w, p[Len(m)], n, tip_2)

LEMMA TopReplaced ==
  ASSUME NEW o, NEW m, NEW tip, NEW p, NEW w, NEW n, NEW tip_2,
         Replaced(o, m, tip, p, w, n, tip_2)
  PROVE  \E q : Laid(w, n, tip_2, q)
<1> USE DEF Replaced
<1> DEFINE L == Len(m)
           q == [k \in 1..(L + 1) |-> IF k = L + 1 THEN Len(w) + 1 ELSE p[k]]
<1>1. /\ L \in Nat \ {0} /\ Len(w) \in Nat /\ p[L] \in Nat /\ p[L] >= 1
      /\ \A k \in 1..(L + 1) : p[k] \in Nat /\ p[k] >= 1
      /\ \A k \in 1..L : m[k].brace_depth \in Nat
  BY LaidFacts, LenProperties
<1>2. /\ q \in [1..(L + 1) -> Nat] /\ q[L + 1] = Len(w) + 1
      /\ \A k \in 1..L : q[k] = p[k]
  BY <1>1
<1>3. /\ p[1] = 1 /\ \A j, k \in 1..(L + 1) : j <= k => p[j] <= p[k]
      /\ \A k \in 1..(L - 1) : Level(o, p[k], p[k + 1], k, m[k].brace_depth)
  BY DEF Laid
<1> HIDE DEF L, q
<1>4. \A j, k \in 1..(L + 1) : j <= k => q[j] <= q[k]
  <2> SUFFICES ASSUME NEW j \in 1..(L + 1), NEW k \in 1..(L + 1), j <= k
               PROVE  q[j] <= q[k]
    OBVIOUS
  <2>0. L \in 1..(L + 1)
    BY <1>1
  <2>1. CASE k \in 1..L
    <3>1. j \in 1..L
      BY <1>1, <2>1
    <3> QED
      BY <1>2, <1>3, <2>1, <3>1
  <2>2. CASE k = L + 1 /\ j \in 1..L
    <3>1. p[j] <= p[L]
      BY <1>1, <1>3, <2>0, <2>2
    <3>2. p[j] \in Nat
      BY <1>1
    <3>3. q[j] = p[j] /\ q[k] = Len(w) + 1 /\ Len(w) + 1 >= p[L]
      BY <1>2, <2>2 DEF L
    <3> QED
      BY <1>1, <3>1, <3>2, <3>3
  <2>3. CASE k = L + 1 /\ j = L + 1
    BY <1>1, <1>2, <2>3
  <2> QED
    BY <1>1, <2>1, <2>2, <2>3
<1>5. ASSUME NEW k \in 1..(L - 1)
      PROVE  Level(w, q[k], q[k + 1], k, n[k].brace_depth)
  <2>1. /\ k \in 1..L /\ k + 1 \in 1..L /\ k \in 1..(L + 1) /\ k + 1 \in 1..(L + 1)
        /\ L \in 1..(L + 1) /\ k + 1 <= L
    BY <1>1
  <2>2. /\ q[k] = p[k] /\ q[k + 1] = p[k + 1] /\ p[k + 1] <= p[L]
        /\ p[k] \in Nat /\ p[k] >= 1 /\ p[k + 1] \in Nat
    BY <1>1, <1>2, <1>3, <2>1
  <2>3. n[k] = m[k] /\ m[k].brace_depth \in Nat
    BY <1>1, <2>1 DEF L
  <2>4. Level(o, p[k], p[k + 1], k, m[k].brace_depth)
    BY <1>3
  <2>5. p[L] - 1 \in Nat /\ p[k + 1] <= (p[L] - 1) + 1
        /\ \A i \in 1..(p[L] - 1) : w[i] = o[i]
    BY <1>1, <2>2 DEF L
  <2> DEFINE a == p[k]
             b == p[k + 1]
             d == m[k].brace_depth
  <2>6. /\ a \in Nat /\ a >= 1 /\ b \in Nat /\ d \in Nat
        /\ b <= (p[L] - 1) + 1 /\ Level(o, a, b, k, d)
    BY <2>2, <2>3, <2>4, <2>5
  <2> HIDE DEF a, b, d
  <2>7. Level(w, a, b, k, d)
    BY <2>5, <2>6, LevelKept
  <2> QED
    BY <2>2, <2>3, <2>7 DEF a, b, d
<1>6. q[1] = 1 /\ TopLevel(w, q[L], n, tip_2)
  <2>1. 1 \in 1..L /\ L \in 1..L
    BY <1>1
  <2> QED
    BY <1>2, <1>3, <2>1 DEF L
<1>7. Laid(w, n, tip_2, q)
  BY <1>2, <1>4, <1>5, <1>6 DEF Laid, L
<1> QED
  BY <1>7

\* A string begins in an open interpolation, or outside of all strings.
LEMMA StringBegun ==
  ASSUME NEW o \in Seq(Bracket), NEW m \in Seq(Mode), m # <<>>, NEW p,
         Laid(o, m, 2, p), NEW mode \in Mode
  PROVE  \E q : Laid(Append(o, StringStart), Append(m, mode), 1, q)
<1> DEFINE L == Len(m)
           w == Append(o, StringStart)
           n == Append(m, mode)
           q == [k \in 1..(L + 2) |-> IF k = L + 2 THEN Len(o) + 2 ELSE p[k]]
<1>1. /\ L \in Nat \ {0} /\ Len(o) \in Nat
      /\ \A k \in 1..(L + 1) : p[k] \in Nat /\ p[k] >= 1
      /\ \A k \in 1..L : m[k].brace_depth \in Nat
  BY LaidFacts
<1>2. /\ p[1] = 1 /\ p[L + 1] = Len(o) + 1
      /\ \A j, k \in 1..(L + 1) : j <= k => p[j] <= p[k]
      /\ \A k \in 1..(L - 1) : Level(o, p[k], p[k + 1], k, m[k].brace_depth)
      /\ Level(o, p[L], Len(o) + 1, L, m[L].brace_depth)
  BY DEF Laid, TopLevel
<1>3. /\ Len(w) = Len(o) + 1 /\ w[Len(o) + 1] = StringStart
      /\ \A i \in 1..Len(o) : w[i] = o[i]
  <2>1. StringStart \in Bracket
    BY DEF Bracket
  <2> QED
    BY <2>1, AppendProperties
<1>4. Len(n) = L + 1 /\ \A k \in 1..L : n[k] = m[k]
  BY AppendProperties
<1>5. /\ q \in [1..(L + 2) -> Nat] /\ q[L + 2] = Len(o) + 2
      /\ \A k \in 1..(L + 1) : q[k] = p[k]
  BY <1>1
<1> HIDE DEF L, w, n, q
<1>6. \A j, k \in 1..(L + 2) : j <= k => q[j] <= q[k]
  <2> SUFFICES ASSUME NEW j \in 1..(L + 2), NEW k \in 1..(L + 2), j <= k
               PROVE  q[j] <= q[k]
    OBVIOUS
  <2>0. L + 1 \in 1..(L + 1)
    BY <1>1
  <2>1. CASE k \in 1..(L + 1)
    <3>1. j \in 1..(L + 1)
      BY <1>1, <2>1
    <3> QED
      BY <1>2, <1>5, <2>1, <3>1
  <2>2. CASE k = L + 2 /\ j \in 1..(L + 1)
    <3>1. p[j] <= Len(o) + 1 /\ p[j] \in Nat
      BY <1>1, <1>2, <2>0, <2>2
    <3>2. q[j] = p[j] /\ q[k] = Len(o) + 2
      BY <1>5, <2>2
    <3> QED
      BY <1>1, <3>1, <3>2
  <2>3. CASE k = L + 2 /\ j = L + 2
    BY <1>1, <1>5, <2>3
  <2> QED
    BY <1>1, <2>1, <2>2, <2>3
<1>7. ASSUME NEW k \in 1..L
      PROVE  Level(w, q[k], q[k + 1], k, n[k].brace_depth)
  <2>1. /\ k \in 1..(L + 1) /\ k + 1 \in 1..(L + 1) /\ L + 1 \in 1..(L + 1)
        /\ k + 1 <= L + 1
    BY <1>1
  <2>2. /\ q[k] = p[k] /\ q[k + 1] = p[k + 1] /\ p[k + 1] <= Len(o) + 1
        /\ p[k] \in Nat /\ p[k] >= 1 /\ p[k + 1] \in Nat
    BY <1>1, <1>2, <1>5, <2>1
  <2>3. n[k] = m[k] /\ m[k].brace_depth \in Nat
    BY <1>1, <1>4
  <2>4. Level(o, p[k], p[k + 1], k, m[k].brace_depth)
    <3>1. CASE k = L
      BY <1>2, <3>1
    <3>2. CASE k \in 1..(L - 1)
      BY <1>2, <3>2
    <3> QED
      BY <1>1, <3>1, <3>2
  <2>5. Level(w, p[k], p[k + 1], k, m[k].brace_depth)
    BY <1>1, <1>3, <2>2, <2>3, <2>4, LevelKept
  <2> QED
    BY <2>2, <2>3, <2>5
<1>8. q[1] = 1 /\ q[L + 1] = Len(w)
  <2>1. 1 \in 1..(L + 1) /\ L + 1 \in 1..(L + 1)
    BY <1>1
  <2> QED
    BY <1>2, <1>3, <1>5, <2>1
<1>9. TopLevel(w, q[L + 1], n, 1)
  <2>1. Len(n) > 1 /\ w[Len(w)] = StringStart
    BY <1>1, <1>3, <1>4
  <2> QED
    BY <1>8, <2>1 DEF TopLevel
<1>10. Laid(w, n, 1, q)
  <2>1. Len(n) + 1 = L + 2 /\ Len(n) - 1 = L /\ Len(n) = L + 1
    BY <1>1, <1>4
  <2>2. q[Len(n) + 1] = Len(w) + 1
    BY <1>1, <1>3, <1>5, <2>1
  <2> QED
    BY <1>5, <1>6, <1>7, <1>8, <1>9, <2>1, <2>2 DEF Laid
<1> QED
  BY <1>10 DEF w, n

\* A string ends: what it began in is open again.
LEMMA StringEnded ==
  ASSUME NEW o \in Seq(Bracket), NEW m \in Seq(Mode), m # <<>>, NEW p,
         Laid(o, m, 1, p)
  PROVE  \E q : Laid(Front(o), Front(m), 2, q)
<1> DEFINE L == Len(m)
           w == Front(o)
           n == Front(m)
           q == [k \in 1..L |-> p[k]]
<1>1. /\ L \in Nat \ {0} /\ Len(o) \in Nat
      /\ \A k \in 1..(L + 1) : p[k] \in Nat /\ p[k] >= 1
      /\ \A k \in 1..L : m[k].brace_depth \in Nat
  BY LaidFacts
<1>2. /\ p[1] = 1 /\ \A j, k \in 1..(L + 1) : j <= k => p[j] <= p[k]
      /\ \A k \in 1..(L - 1) : Level(o, p[k], p[k + 1], k, m[k].brace_depth)
      /\ L > 1 /\ Len(o) = p[L]
  BY DEF Laid, TopLevel
<1>3. L \in 1..(L + 1) /\ Len(o) >= 1
  BY <1>1, <1>2
<1>4. /\ Len(w) = Len(o) - 1 /\ \A i \in 1..(Len(o) - 1) : w[i] = o[i]
  <2>1. o # <<>>
    BY <1>3
  <2> QED
    BY <2>1, FrontProperties
<1>5. Len(n) = L - 1 /\ \A k \in 1..(L - 1) : n[k] = m[k]
  BY FrontProperties
<1>6. q \in [1..L -> Nat] /\ \A k \in 1..L : q[k] = p[k]
  BY <1>1
<1> HIDE DEF L, w, n, q
<1>7. \A j, k \in 1..L : j <= k => q[j] <= q[k]
  <2>1. \A j \in 1..L : j \in 1..(L + 1)
    BY <1>1
  <2> QED
    BY <1>2, <1>6, <2>1
<1>8. ASSUME NEW k \in 1..(L - 1)
      PROVE  Level(w, q[k], q[k + 1], k, n[k].brace_depth)
  <2>1. k \in 1..L /\ k + 1 \in 1..L /\ k \in 1..(L + 1) /\ k + 1 \in 1..(L + 1)
        /\ k + 1 <= L
    BY <1>1
  <2>2. /\ q[k] = p[k] /\ q[k + 1] = p[k + 1] /\ p[k + 1] <= Len(o)
        /\ p[k] \in Nat /\ p[k] >= 1 /\ p[k + 1] \in Nat
    BY <1>1, <1>2, <1>3, <1>6, <2>1
  <2>3. n[k] = m[k] /\ m[k].brace_depth \in Nat
    BY <1>1, <1>5, <2>1
  <2>4. Level(o, p[k], p[k + 1], k, m[k].brace_depth)
    BY <1>2
  <2>5. Len(o) - 1 \in Nat /\ p[k + 1] <= (Len(o) - 1) + 1
    BY <1>1, <1>3, <2>2
  <2>6. Level(w, p[k], p[k + 1], k, m[k].brace_depth)
    BY <1>4, <2>2, <2>3, <2>4, <2>5, LevelKept
  <2> QED
    BY <2>2, <2>3, <2>6
<1>9. q[1] = 1 /\ q[L] = Len(w) + 1
  <2>1. 1 \in 1..L /\ L \in 1..L
    BY <1>1
  <2> QED
    BY <1>1, <1>2, <1>4, <1>6, <2>1
<1>10. TopLevel(w, q[L - 1], n, 2)
  <2>1. L - 1 \in 1..(L - 1) /\ L - 1 + 1 = L
    BY <1>1, <1>2
  <2>2. Level(w, q[L - 1], q[L], L - 1, n[L - 1].brace_depth)
    BY <1>8, <2>1
  <2> QED
    BY <1>5, <1>9, <2>2 DEF TopLevel
<1>11. Laid(w, n, 2, q)
  <2>1. L - 1 + 1 = L
    BY <1>1
  <2>2. \A k \in 1..(L - 1 - 1) : k \in 1..(L - 1)
    BY <1>1
  <2> QED
    BY <1>5, <1>6, <1>7, <1>8, <1>9, <1>10, <2>1, <2>2 DEF Laid
<1> QED
  BY <1>11 DEF w, n

\* What is open on top.
LEMMA TopOpen ==
  ASSUME NEW o \in Seq(Bracket), NEW m \in Seq(Mode), m # <<>>, NEW tip \in {1, 2}, NEW p,
         Laid(o, m, tip, p)
  PROVE  /\ tip = 1 => o # <<>> /\ Last(o) = StringStart /\ Len(m) > 1
         /\ tip = 2 /\ Len(m) = 1 => o = <<>> \/ Last(o) = Brace
         /\ tip = 2 /\ Len(m) > 1 =>
              /\ o # <<>>
              /\ Last(o) = IF Last(m).brace_depth = 0 THEN DollarBrace ELSE Brace
<1> DEFINE a == p[Len(m)]
<1>1. /\ Len(m) \in Nat \ {0} /\ Len(o) \in Nat /\ a \in Nat /\ a >= 1
      /\ a <= Len(o) + 1 /\ m[Len(m)].brace_depth \in Nat /\ Last(m) = m[Len(m)]
      /\ Last(o) = o[Len(o)] /\ (Len(o) > 0 => o # <<>>)
      /\ (Len(o) = 0 => o = <<>>)
  <2>1. Len(m) \in Nat \ {0}
    BY EmptySeq
  <2>2. Len(m) \in 1..Len(m)
    BY <2>1
  <2> QED
    BY <2>2, LaidFacts, EmptySeq DEF Last
<1>2. TopLevel(o, a, m, tip)
  BY DEF Laid
<1> HIDE DEF a
<1>3. CASE tip = 1
  BY <1>1, <1>2, <1>3 DEF TopLevel
<1>4. CASE tip = 2 /\ Len(m) = 1
  <2>1. a = 1 /\ \A j \in a..(Len(o) + 1 - 1) : o[j] = Brace
    BY <1>2, <1>4 DEF TopLevel, Level, Laid, a
  <2>2. Len(o) > 0 => Len(o) \in a..(Len(o) + 1 - 1)
    BY <1>1, <2>1
  <2> QED
    BY <1>1, <1>4, <2>1, <2>2
<1>5. CASE tip = 2 /\ Len(m) > 1
  <2> DEFINE d == m[Len(m)].brace_depth
  <2>1. /\ Len(o) + 1 = a + 2 + d /\ o[a + 1] = DollarBrace
        /\ \A j \in (a + 2)..(Len(o) + 1 - 1) : o[j] = Brace
    BY <1>1, <1>2, <1>5 DEF TopLevel, Level
  <2>2. d = 0 => Len(o) = a + 1
    BY <1>1, <2>1
  <2>3. d # 0 => Len(o) \in (a + 2)..(Len(o) + 1 - 1)
    BY <1>1, <2>1
  <2> QED
    BY <1>1, <1>5, <2>1, <2>2, <2>3
<1> QED
  BY <1>1, <1>3, <1>4, <1>5


NoStringOpen == open = <<>> \/ Last(open) # StringStart
OnTop(b) == open # <<>> /\ Last(open) = b

\* What Nest makes of a token in its place.
LEMMA TokenNested ==
  ASSUME NEW t, Emit(t)
  PROVE  /\ t = "{" /\ NoStringOpen => open' = Append(open, Brace)
         /\ t = "string start" /\ NoStringOpen => open' = Append(open, StringStart)
         /\ t = "${" /\ OnTop(StringStart) => open' = Append(open, DollarBrace)
         /\ t = "string part" /\ OnTop(StringStart) => open' = open
         /\ t = "string end" /\ OnTop(StringStart) => open' = Front(open)
         /\ t = "}$" /\ OnTop(DollarBrace) => open' = Front(open)
         /\ t = "}" /\ OnTop(Brace) => open' = Front(open)
         /\ t = "}" /\ open = <<>> => open' = open
         /\ t \in {"newline", "word", "operator", "string"} /\ NoStringOpen =>
              open' = open
         /\ t = "eof" => open' = open
<1> DEFINE top == IF open = <<>> THEN "none" ELSE Last(open)
<1>1. /\ NoStringOpen => top # "string start"
      /\ OnTop(StringStart) => top = "string start"
      /\ OnTop(DollarBrace) => top = "${"
      /\ OnTop(Brace) => top = "{"
      /\ open = <<>> => top = "none"
  BY DEF NoStringOpen, OnTop, StringStart, DollarBrace, Brace
<1>2. open' = CASE t \in {"string start", "{"} /\ top # "string start" ->
             Append(open, t)
        [] t = "${" /\ top = "string start" -> Append(open, t)
        [] t = "string part" /\ top = "string start" -> open
        [] \/ t = "string end" /\ top = "string start"
           \/ t = "}$" /\ top = "${"
           \/ t = "}" /\ top = "{" -> Front(open)
        [] t = "}" /\ top = "none" -> open
        [] t \in {"newline", "word", "operator", "string"} /\
             top # "string start" -> open
        [] t = "eof" -> open
        [] OTHER -> Append(open, "mismatch")
  BY DEF Emit, Nest
<1> HIDE DEF top
<1> QED
  BY <1>1, <1>2 DEF StringStart, DollarBrace, Brace

LEMMA SameNesting ==
  ASSUME Nested, open' = open, mode_stack' = mode_stack, pending' = pending
  PROVE  Nested'
BY DEF Nested, Tip, current_mode

\* What is open on top, by mode.
LEMMA OpenOnTop ==
  ASSUME TypeOK, Nested
  PROVE  /\ Tip = 1 => OnTop(StringStart) /\ Len(mode_stack) > 1
         /\ Tip = 2 => NoStringOpen
         /\ Tip = 2 /\ Len(mode_stack) = 1 => open = <<>> \/ OnTop(Brace)
         /\ Tip = 2 /\ Len(mode_stack) > 1 /\ current_mode.brace_depth = 0 =>
              OnTop(DollarBrace)
         /\ Tip = 2 /\ Len(mode_stack) > 1 /\ current_mode.brace_depth # 0 =>
              OnTop(Brace)
<1>1. PICK p : Laid(open, mode_stack, Tip, p)
  BY DEF Nested
<1>2. /\ open \in Seq(Bracket) /\ mode_stack \in Seq(Mode) /\ mode_stack # <<>>
      /\ Tip \in {1, 2} /\ Len(mode_stack) \in Nat \ {0}
  BY EmptySeq DEF Nested, TypeOK, Tip
<1>3. StringStart # DollarBrace /\ StringStart # Brace
  BY DEF StringStart, DollarBrace, Brace
<1> DEFINE tip == Tip
<1>4. Laid(open, mode_stack, tip, p) /\ tip \in {1, 2}
  BY <1>1, <1>2
<1> HIDE DEF tip
<1>5. /\ tip = 1 => open # <<>> /\ Last(open) = StringStart /\ Len(mode_stack) > 1
      /\ tip = 2 /\ Len(mode_stack) = 1 => open = <<>> \/ Last(open) = Brace
      /\ tip = 2 /\ Len(mode_stack) > 1 =>
           /\ open # <<>>
           /\ Last(open) = IF current_mode.brace_depth = 0 THEN DollarBrace ELSE Brace
  BY <1>2, <1>4, TopOpen DEF current_mode
<1>6. Len(mode_stack) = 1 \/ Len(mode_stack) > 1
  <2>1. \A n \in Nat \ {0} : n = 1 \/ n > 1
    OBVIOUS
  <2> QED
    BY <1>2, <2>1
<1> QED
  BY <1>3, <1>5, <1>6 DEF OnTop, NoStringOpen, tip

\* The tokens of the top mode when a brace is opened or closed in it.
LEMMA BraceOpened ==
  ASSUME NEW o \in Seq(Bracket), NEW m \in Seq(Mode), m # <<>>, NEW n,
         NEW a \in Nat, a >= 1, a <= Len(o) + 1, TopLevel(o, a, m, 2),
         Len(n) = Len(m), m[Len(m)].brace_depth \in Nat,
         Len(m) > 1 => n[Len(m)].brace_depth = m[Len(m)].brace_depth + 1
  PROVE  TopLevel(Append(o, Brace), a, n, 2)
<1> DEFINE w == Append(o, Brace)
           L == Len(m)
           d == m[L].brace_depth
<1>1. /\ Len(o) \in Nat /\ Len(w) = Len(o) + 1 /\ w[Len(o) + 1] = Brace
      /\ \A i \in 1..Len(o) : w[i] = o[i]
  BY AppendProperties DEF Bracket
<1>2. Level(o, a, Len(o) + 1, L, d)
  BY DEF TopLevel
<1>3. L \in Nat \ {0} /\ d \in Nat
  BY EmptySeq
<1> HIDE DEF w, d
<1>4. CASE L = 1
  <2>1. \A j \in a..(Len(w) + 1 - 1) : w[j] = Brace
    <3> TAKE j \in a..(Len(w) + 1 - 1)
    <3>1. j \in a..(Len(o) + 1 - 1) \/ j = Len(o) + 1
      BY <1>1
    <3>2. j \in a..(Len(o) + 1 - 1) => j \in 1..Len(o) /\ o[j] = Brace
      BY <1>1, <1>2, <1>4 DEF Level
    <3> QED
      BY <1>1, <3>1, <3>2
  <2> QED
    BY <1>4, <2>1 DEF TopLevel, Level, w
<1>5. CASE L > 1
  <2>1. /\ Len(o) + 1 = a + 2 + d /\ o[a] = StringStart /\ o[a + 1] = DollarBrace
        /\ \A j \in (a + 2)..(Len(o) + 1 - 1) : o[j] = Brace
    BY <1>2, <1>5 DEF Level
  <2>2. Len(w) + 1 = a + 2 + (d + 1) /\ a \in 1..Len(o) /\ a + 1 \in 1..Len(o)
    BY <1>1, <1>3, <2>1
  <2>3. \A j \in (a + 2)..(Len(w) + 1 - 1) : w[j] = Brace
    <3> TAKE j \in (a + 2)..(Len(w) + 1 - 1)
    <3>1. j \in (a + 2)..(Len(o) + 1 - 1) \/ j = Len(o) + 1
      BY <1>1
    <3>2. j \in (a + 2)..(Len(o) + 1 - 1) => j \in 1..Len(o) /\ o[j] = Brace
      BY <1>1, <2>1
    <3> QED
      BY <1>1, <3>1, <3>2
  <2>4. n[L].brace_depth = d + 1
    BY <1>5 DEF d
  <2>5. Level(w, a, Len(w) + 1, L, d + 1)
    <3>1. w[a] = StringStart /\ w[a + 1] = DollarBrace
      BY <1>1, <2>1, <2>2
    <3>2. Len(w) + 1 = a + 2 + (d + 1) /\ L # 1
      BY <1>5, <2>2
    <3> QED
      BY <2>3, <3>1, <3>2 DEF Level
  <2> QED
    BY <2>4, <2>5 DEF TopLevel, w
<1> QED
  BY <1>3, <1>4, <1>5

LEMMA BraceClosed ==
  ASSUME NEW o \in Seq(Bracket), o # <<>>, NEW m \in Seq(Mode), m # <<>>, NEW n,
         NEW a \in Nat, a >= 1, a <= Len(o) + 1, TopLevel(o, a, m, 2),
         Len(n) = Len(m), m[Len(m)].brace_depth \in Nat,
         Len(m) = 1 => a = 1,
         Len(m) > 1 => /\ m[Len(m)].brace_depth # 0
                       /\ n[Len(m)].brace_depth = m[Len(m)].brace_depth - 1
  PROVE  TopLevel(Front(o), a, n, 2) /\ Len(Front(o)) + 1 >= a
<1> DEFINE w == Front(o)
           L == Len(m)
           d == m[L].brace_depth
<1>1. /\ Len(o) \in Nat \ {0} /\ Len(w) = Len(o) - 1
      /\ \A i \in 1..(Len(o) - 1) : w[i] = o[i]
  BY FrontProperties
<1>2. Level(o, a, Len(o) + 1, L, d)
  BY DEF TopLevel
<1>3. L \in Nat \ {0} /\ d \in Nat
  BY EmptySeq
<1> HIDE DEF w, d
<1>4. CASE L = 1
  <2>1. \A j \in a..(Len(w) + 1 - 1) : w[j] = Brace
    <3> TAKE j \in a..(Len(w) + 1 - 1)
    <3>1. j \in a..(Len(o) + 1 - 1) /\ j \in 1..(Len(o) - 1)
      BY <1>1
    <3> QED
      BY <1>1, <1>2, <1>4, <3>1 DEF Level
  <2> QED
    BY <1>1, <1>4, <2>1 DEF TopLevel, Level, w
<1>5. CASE L > 1
  <2>1. /\ Len(o) + 1 = a + 2 + d /\ o[a] = StringStart /\ o[a + 1] = DollarBrace
        /\ \A j \in (a + 2)..(Len(o) + 1 - 1) : o[j] = Brace
    BY <1>2, <1>5 DEF Level
  <2>2. n[L].brace_depth = d - 1 /\ d # 0
    BY <1>5 DEF d
  <2>3. /\ Len(w) + 1 = a + 2 + (d - 1) /\ a \in 1..(Len(o) - 1)
        /\ a + 1 \in 1..(Len(o) - 1) /\ Len(w) + 1 >= a
    BY <1>1, <1>3, <2>1, <2>2
  <2>4. \A j \in (a + 2)..(Len(w) + 1 - 1) : w[j] = Brace
    <3> TAKE j \in (a + 2)..(Len(w) + 1 - 1)
    <3>1. j \in (a + 2)..(Len(o) + 1 - 1) /\ j \in 1..(Len(o) - 1)
      BY <1>1
    <3> QED
      BY <1>1, <2>1, <3>1
  <2>5. Level(w, a, Len(w) + 1, L, d - 1)
    <3>1. w[a] = StringStart /\ w[a + 1] = DollarBrace
      BY <1>1, <2>1, <2>3
    <3>2. Len(w) + 1 = a + 2 + (d - 1) /\ L # 1
      BY <1>5, <2>3
    <3> QED
      BY <2>4, <3>1, <3>2 DEF Level
  <2> QED
    BY <2>2, <2>3, <2>5 DEF TopLevel, w
<1> QED
  BY <1>3, <1>4, <1>5

\* A mode and its tokens in the place of the top ones.
LEMMA NestingReplaced ==
  ASSUME TypeOK, Nested, NEW p, Laid(open, mode_stack, Tip, p),
         mode_stack' \in Seq(Mode), Len(mode_stack') = Len(mode_stack),
         \A k \in 1..(Len(mode_stack) - 1) : mode_stack'[k] = mode_stack[k],
         Len(mode_stack) > 1 =>
           \/ mode_stack'[Len(mode_stack)].kind = "Interpolation"
           \/ mode_stack'[Len(mode_stack)] = String,
         pending' => current_mode' = Interpolation(0),
         open' \in Seq(Bracket), Len(open') + 1 >= p[Len(mode_stack)],
         \A i \in 1..(p[Len(mode_stack)] - 1) : open'[i] = open[i],
         TopLevel(open', p[Len(mode_stack)], mode_stack', Tip')
  PROVE  Nested'
<1> DEFINE L == Len(mode_stack)
<1>1. /\ open \in Seq(Bracket) /\ mode_stack \in Seq(Mode) /\ mode_stack # <<>>
      /\ Tip \in {1, 2} /\ Tip' \in {1, 2} /\ L \in Nat \ {0}
  BY EmptySeq DEF Nested, TypeOK, Tip
<1>2. \E q : Laid(open', mode_stack', Tip', q)
  <2>1. Replaced(open, mode_stack, Tip, p, open', mode_stack', Tip')
    BY <1>1 DEF Replaced
  <2> QED
    BY <2>1, TopReplaced
<1>3. ASSUME NEW k \in 2..L
      PROVE  mode_stack'[k].kind = "Interpolation" \/ mode_stack'[k] = String
  <2>1. CASE k = L
    BY <1>1, <2>1
  <2>2. CASE k # L
    <3>1. k \in 1..(L - 1)
      BY <1>1, <2>2
    <3>2. mode_stack[k].kind = "Interpolation" \/ mode_stack[k] = String
      BY DEF Nested
    <3> QED
      BY <3>1, <3>2
  <2> QED
    BY <2>1, <2>2
<1>4. \A k \in 1..(L - 1) : mode_stack'[k] # String
  BY DEF Nested
<1> QED
  BY <1>2, <1>3, <1>4 DEF Nested

\* What SetMode leaves of the stack.
LEMMA TopSet ==
  ASSUME TypeOK, Len(mode_stack) > 1, NEW mode \in Mode, SetMode(mode)
  PROVE  /\ mode_stack' \in Seq(Mode) /\ Len(mode_stack') = Len(mode_stack)
         /\ \A k \in 1..(Len(mode_stack) - 1) : mode_stack'[k] = mode_stack[k]
         /\ mode_stack'[Len(mode_stack)] = mode /\ current_mode' = mode
<1> DEFINE below == Front(mode_stack)
           L == Len(mode_stack)
<1>1. /\ below \in Seq(Mode) /\ Len(below) = L - 1 /\ L \in Nat \ {0}
      /\ \A i \in 1..(L - 1) : below[i] = mode_stack[i]
  BY FrontProperties DEF TypeOK
<1>2. mode_stack' = Append(below, mode)
  BY DEF SetMode
<1> HIDE DEF below, L
<1>3. /\ mode_stack' \in Seq(Mode) /\ Len(mode_stack') = L
      /\ \A k \in 1..(L - 1) : mode_stack'[k] = below[k]
      /\ mode_stack'[L] = mode
  BY <1>1, <1>2, AppendProperties
<1> QED
  BY <1>1, <1>3 DEF L, current_mode, Last

\* The bottom mode has no depth, and only it is Normal.
LEMMA ByKind ==
  ASSUME TypeOK, Nested
  PROVE  /\ Len(mode_stack) \in Nat \ {0} /\ current_mode = mode_stack[Len(mode_stack)]
         /\ current_mode \in Mode /\ (Len(mode_stack) = 1 \/ Len(mode_stack) > 1)
         /\ Len(mode_stack) = 1 => current_mode = Normal
         /\ Len(mode_stack) > 1 =>
              current_mode.kind = "Interpolation" \/ current_mode = String
         /\ current_mode = String => Len(mode_stack) > 1
         /\ current_mode.kind = "Interpolation" =>
              Len(mode_stack) > 1 /\ current_mode # String
<1>1. /\ Len(mode_stack) \in Nat \ {0} /\ current_mode = mode_stack[Len(mode_stack)]
      /\ current_mode \in Mode
  BY EmptySeq, TopMode DEF TypeOK, current_mode, Last
<1>2. Len(mode_stack) = 1 => current_mode = Normal
  BY <1>1 DEF TypeOK
<1>3. Len(mode_stack) > 1 =>
        current_mode.kind = "Interpolation" \/ current_mode = String
  <2> SUFFICES ASSUME Len(mode_stack) > 1
               PROVE  current_mode.kind = "Interpolation" \/ current_mode = String
    OBVIOUS
  <2>1. Len(mode_stack) \in 2..Len(mode_stack)
    BY <1>1
  <2> QED
    BY <1>1, <2>1 DEF Nested
<1>4. Normal.kind = "Normal" /\ String.kind = "String" /\ Normal # String
  BY TopMode DEF Normal, String
<1>5. Len(mode_stack) = 1 \/ Len(mode_stack) > 1
  <2>1. \A n \in Nat \ {0} : n = 1 \/ n > 1
    OBVIOUS
  <2> QED
    BY <1>1, <2>1
<1> QED
  BY <1>1, <1>2, <1>3, <1>4, <1>5

LEMMA DrainNests ==
  ASSUME TypeOK, Nested, Drain
  PROVE  Nested'
<1>1. PICK p : Laid(open, mode_stack, Tip, p)
  BY DEF Nested
<1>2. /\ pending /\ ~pending' /\ mode_stack' = mode_stack
      /\ current_mode = Interpolation(0) /\ current_mode' = current_mode
  BY DEF Drain, Nested, current_mode
<1>3. Tip = 1 /\ Tip' = 2
  <2>1. Interpolation(0) # String
    BY DEF Interpolation, String
  <2> QED
    BY <1>2, <2>1 DEF Tip
<1>4. open' = Append(open, DollarBrace) /\ Len(mode_stack) > 1
  BY <1>3, OpenOnTop, TokenNested DEF Drain
<1> DEFINE a == p[Len(mode_stack)]
<1>5. /\ Len(open) = a /\ open[a] = StringStart /\ Len(open) \in Nat
      /\ open \in Seq(Bracket) /\ a \in Nat /\ a >= 1
  <2>1. open \in Seq(Bracket) /\ mode_stack \in Seq(Mode) /\ mode_stack # <<>>
    BY DEF Nested, TypeOK
  <2>2. Laid(open, mode_stack, 1, p)
    BY <1>1, <1>3
  <2> QED
    BY <2>1, <2>2, LaidFacts DEF Laid, TopLevel
<1>6. /\ open' \in Seq(Bracket) /\ Len(open') = a + 1 /\ open'[a + 1] = DollarBrace
      /\ \A i \in 1..a : open'[i] = open[i]
  <2>1. DollarBrace \in Bracket
    BY DEF Bracket
  <2> QED
    BY <1>4, <1>5, <2>1, AppendProperties
<1>7. mode_stack[Len(mode_stack)].brace_depth = 0
  BY <1>2 DEF current_mode, Last, Interpolation
<1> HIDE DEF a
<1>8. TopLevel(open', a, mode_stack', 2)
  <2>1. Level(open', a, Len(open') + 1, Len(mode_stack), 0)
    <3>1. a \in 1..a /\ Len(open') + 1 = a + 2 + 0
      BY <1>5, <1>6
    <3>2. open'[a] = StringStart
      BY <1>5, <1>6, <3>1
    <3>3. \A j \in (a + 2)..(Len(open') + 1 - 1) : open'[j] = Brace
      BY <1>5, <1>6
    <3>4. Len(mode_stack) # 1
      BY <1>4, ByKind
    <3> QED
      BY <1>6, <3>1, <3>2, <3>3, <3>4 DEF Level
  <2> QED
    BY <1>2, <1>7, <2>1 DEF TopLevel
<1>9. \A i \in 1..(a - 1) : open'[i] = open[i]
  BY <1>5, <1>6
<1>10. Len(open') + 1 >= a /\ mode_stack' \in Seq(Mode)
  BY <1>2, <1>5, <1>6 DEF TypeOK
<1>11. Len(mode_stack) > 1 => mode_stack[Len(mode_stack)].kind = "Interpolation"
  BY <1>2 DEF current_mode, Last, Interpolation
<1> QED
  BY <1>1, <1>2, <1>3, <1>6, <1>8, <1>9, <1>10, <1>11, NestingReplaced DEF a

\* Where the tokens of the top mode are, and which.
LEMMA TopTokens ==
  ASSUME TypeOK, Nested, NEW p, Laid(open, mode_stack, Tip, p)
  PROVE  /\ open \in Seq(Bracket) /\ Len(open) \in Nat
         /\ mode_stack \in Seq(Mode) /\ mode_stack # <<>>
         /\ p[Len(mode_stack)] \in Nat /\ p[Len(mode_stack)] >= 1
         /\ p[Len(mode_stack)] <= Len(open) + 1
         /\ TopLevel(open, p[Len(mode_stack)], mode_stack, Tip)
         /\ Len(mode_stack) = 1 => p[Len(mode_stack)] = 1
         /\ mode_stack[Len(mode_stack)].brace_depth \in Nat
<1>1. open \in Seq(Bracket) /\ mode_stack \in Seq(Mode) /\ mode_stack # <<>>
  BY DEF Nested, TypeOK
<1>2. Len(mode_stack) \in 1..Len(mode_stack)
  <2>1. Len(mode_stack) \in Nat \ {0}
    BY <1>1, EmptySeq
  <2> QED
    BY <2>1
<1>3. Tip \in {1, 2}
  BY DEF Tip
<1>4. TopLevel(open, p[Len(mode_stack)], mode_stack, Tip) /\ p[1] = 1
  BY DEF Laid
<1> DEFINE tip == Tip
<1>5. tip \in {1, 2} /\ Laid(open, mode_stack, tip, p)
  BY <1>3
<1> HIDE DEF tip
<1>6. /\ Len(open) \in Nat
      /\ p[Len(mode_stack)] \in Nat /\ p[Len(mode_stack)] >= 1
      /\ p[Len(mode_stack)] <= Len(open) + 1
      /\ \A k \in 1..Len(mode_stack) : mode_stack[k].brace_depth \in Nat
  BY <1>1, <1>5, LaidFacts
<1> QED
  BY <1>1, <1>2, <1>4, <1>6

LEMMA OpenBraceNests ==
  ASSUME TypeOK, Nested, OpenBrace, ~pending, current_mode # String
  PROVE  Nested'
<1>1. PICK p : Laid(open, mode_stack, Tip, p)
  BY DEF Nested
<1> DEFINE a == p[Len(mode_stack)]
           L == Len(mode_stack)
<1>2. Tip = 2 /\ ~pending'
  BY DEF Tip, OpenBrace
<1>3. open' = Append(open, Brace)
  BY <1>2, OpenOnTop, TokenNested DEF OpenBrace, Return
<1>4. /\ open \in Seq(Bracket) /\ Len(open) \in Nat
      /\ mode_stack \in Seq(Mode) /\ mode_stack # <<>>
      /\ a \in Nat /\ a >= 1 /\ a <= Len(open) + 1
      /\ TopLevel(open, a, mode_stack, 2)
      /\ mode_stack[L].brace_depth \in Nat
  BY <1>1, <1>2, TopTokens
<1>5. /\ mode_stack' \in Seq(Mode) /\ Len(mode_stack') = L
      /\ \A k \in 1..(L - 1) : mode_stack'[k] = mode_stack[k]
      /\ L > 1 => /\ mode_stack'[L].kind = "Interpolation"
                  /\ mode_stack'[L].brace_depth = mode_stack[L].brace_depth + 1
      /\ current_mode' # String
  <2>1. CASE current_mode.kind = "Interpolation"
    <3> DEFINE d == current_mode.brace_depth + 1
    <3>1. L > 1 /\ current_mode = mode_stack[L] /\ d \in Nat
      BY <1>4, <2>1, ByKind
    <3>2. SetMode(Interpolation(d))
      BY <2>1 DEF OpenBrace
    <3>3. Interpolation(d) \in Mode
      BY <3>1, TopMode
    <3>4. Interpolation(d).kind = "Interpolation" /\ Interpolation(d).brace_depth = d
            /\ Interpolation(d) # String
      BY DEF Interpolation, String
    <3> HIDE DEF d
    <3>5. /\ mode_stack' \in Seq(Mode) /\ Len(mode_stack') = Len(mode_stack)
          /\ \A k \in 1..(Len(mode_stack) - 1) : mode_stack'[k] = mode_stack[k]
          /\ mode_stack'[L] = Interpolation(d) /\ current_mode' = Interpolation(d)
      BY <3>1, <3>2, <3>3, TopSet
    <3> QED
      BY <3>1, <3>4, <3>5 DEF d
  <2>2. CASE current_mode.kind # "Interpolation"
    <3>1. mode_stack' = mode_stack /\ ~(L > 1)
      BY <2>2, ByKind DEF OpenBrace
    <3>2. current_mode' = current_mode
      BY <3>1 DEF current_mode
    <3> QED
      BY <1>4, <3>1, <3>2
  <2> QED
    BY <2>1, <2>2
<1>6. Tip' = 2
  BY <1>2, <1>5 DEF Tip
<1>7. /\ open' \in Seq(Bracket) /\ Len(open') = Len(open) + 1
      /\ \A i \in 1..Len(open) : open'[i] = open[i]
  BY <1>3, <1>4, AppendProperties DEF Bracket
<1> HIDE DEF a
<1>8. TopLevel(open', a, mode_stack', 2)
  BY <1>3, <1>4, <1>5, BraceOpened
<1>9. Len(open') + 1 >= a /\ \A i \in 1..(a - 1) : open'[i] = open[i]
  BY <1>4, <1>7
<1> QED
  BY <1>1, <1>2, <1>5, <1>6, <1>7, <1>8, <1>9, NestingReplaced DEF a

\* The brace that ends an interpolation takes its `${` off, another the brace
\* that it matches.
LEMMA CloseBraceNests ==
  ASSUME TypeOK, Nested, CloseBrace, ~pending, current_mode # String
  PROVE  Nested'
<1>1. PICK p : Laid(open, mode_stack, Tip, p)
  BY DEF Nested
<1> DEFINE a == p[Len(mode_stack)]
           L == Len(mode_stack)
<1>2. Tip = 2 /\ ~pending'
  BY DEF Tip, CloseBrace
<1>3. /\ open \in Seq(Bracket) /\ Len(open) \in Nat
      /\ mode_stack \in Seq(Mode) /\ mode_stack # <<>>
      /\ a \in Nat /\ a >= 1 /\ a <= Len(open) + 1
      /\ TopLevel(open, a, mode_stack, 2) /\ (L = 1 => a = 1)
      /\ mode_stack[L].brace_depth \in Nat /\ L \in Nat \ {0}
      /\ current_mode = mode_stack[L]
  BY <1>1, <1>2, TopTokens, ByKind
<1>4. CASE current_mode = Interpolation(0)
  <2>1. /\ Interpolation(0).kind = "Interpolation" /\ Interpolation(0).brace_depth = 0
    BY DEF Interpolation
  <2>2. L > 1 /\ SetMode(String) /\ String \in Mode
    BY <1>4, <2>1, ByKind, TopMode DEF CloseBrace
  <2>3. /\ mode_stack' \in Seq(Mode) /\ Len(mode_stack') = L
        /\ \A k \in 1..(L - 1) : mode_stack'[k] = mode_stack[k]
        /\ mode_stack'[L] = String /\ current_mode' = String
    BY <2>2, TopSet
  <2>4. OnTop(DollarBrace)
    BY <1>2, <1>4, <2>1, <2>2, OpenOnTop
  <2>5. open' = Front(open) /\ open # <<>>
    BY <1>4, <2>4, TokenNested DEF CloseBrace, Return, OnTop
  <2>6. Tip' = 1
    BY <2>3 DEF Tip
  <2>7. /\ open' \in Seq(Bracket) /\ Len(open') = Len(open) - 1
        /\ \A i \in 1..(Len(open) - 1) : open'[i] = open[i]
    BY <1>3, <2>5, FrontProperties
  <2>8. Len(open) + 1 = a + 2 + 0 /\ open[a] = StringStart
    <3>1. Level(open, a, Len(open) + 1, L, mode_stack[L].brace_depth)
      BY <1>3 DEF TopLevel
    <3>2. mode_stack[L].brace_depth = 0
      BY <1>3, <1>4, <2>1
    <3>3. L # 1
      BY <1>3, <2>2
    <3> QED
      BY <3>1, <3>2, <3>3 DEF Level
  <2> HIDE DEF a
  <2>9. Len(open') = a /\ open'[a] = StringStart
    BY <1>3, <2>7, <2>8
  <2>10. TopLevel(open', a, mode_stack', 1)
    BY <2>2, <2>3, <2>9 DEF TopLevel
  <2>11. Len(open') + 1 >= a /\ \A i \in 1..(a - 1) : open'[i] = open[i]
    BY <1>3, <2>7, <2>8, <2>9
  <2> QED
    BY <1>1, <1>2, <2>3, <2>6, <2>7, <2>10, <2>11, NestingReplaced DEF a
<1>5. CASE current_mode # Interpolation(0)
  <2>1. /\ mode_stack' \in Seq(Mode) /\ Len(mode_stack') = L
        /\ \A k \in 1..(L - 1) : mode_stack'[k] = mode_stack[k]
        /\ L > 1 => /\ mode_stack'[L].kind = "Interpolation"
                    /\ mode_stack[L].brace_depth # 0
                    /\ mode_stack'[L].brace_depth = mode_stack[L].brace_depth - 1
        /\ current_mode' # String
    <3>1. CASE current_mode.kind = "Interpolation"
      <4> DEFINE d == current_mode.brace_depth - 1
      <4>1. current_mode.brace_depth # 0 /\ L > 1
        BY <1>5, <3>1, ByKind DEF Mode, Interpolation
      <4>2. d \in Nat
        BY <1>3, <4>1
      <4>3. SetMode(Interpolation(d))
        BY <1>5, <3>1 DEF CloseBrace
      <4>4. Interpolation(d) \in Mode
        BY <4>2, TopMode
      <4>5. /\ Interpolation(d).kind = "Interpolation"
            /\ Interpolation(d).brace_depth = d /\ Interpolation(d) # String
        BY DEF Interpolation, String
      <4> HIDE DEF d
      <4>6. /\ mode_stack' \in Seq(Mode) /\ Len(mode_stack') = Len(mode_stack)
            /\ \A k \in 1..(Len(mode_stack) - 1) : mode_stack'[k] = mode_stack[k]
            /\ mode_stack'[L] = Interpolation(d) /\ current_mode' = Interpolation(d)
        BY <4>1, <4>3, <4>4, TopSet
      <4> QED
        BY <1>3, <4>1, <4>5, <4>6 DEF d
    <3>2. CASE current_mode.kind # "Interpolation"
      <4>1. mode_stack' = mode_stack /\ ~(L > 1)
        BY <1>5, <3>2, ByKind DEF CloseBrace
      <4>2. current_mode' = current_mode
        BY <4>1 DEF current_mode
      <4> QED
        BY <1>3, <4>1, <4>2
    <3> QED
      BY <3>1, <3>2
  <2>2. Tip' = 2
    BY <1>2, <2>1 DEF Tip
  <2>3. L = 1 \/ L > 1
    BY ByKind
  <2>4. CASE OnTop(Brace)
    <3>1. open' = Front(open) /\ open # <<>>
      BY <1>5, <2>4, TokenNested DEF CloseBrace, Return, OnTop
    <3>2. /\ open' \in Seq(Bracket) /\ Len(open') = Len(open) - 1
          /\ \A i \in 1..(Len(open) - 1) : open'[i] = open[i]
      BY <1>3, <3>1, FrontProperties
    <3> HIDE DEF a
    <3>3. TopLevel(open', a, mode_stack', 2) /\ Len(open') + 1 >= a
      BY <1>3, <2>1, <3>1, BraceClosed
    <3>4. \A i \in 1..(a - 1) : open'[i] = open[i]
      BY <1>3, <3>2, <3>3
    <3> QED
      BY <1>1, <1>2, <2>1, <2>2, <3>2, <3>3, <3>4, NestingReplaced DEF a
  <2>5. CASE ~OnTop(Brace)
    <3>1. L = 1 /\ open = <<>>
      BY <1>2, <1>3, <2>1, <2>3, <2>5, OpenOnTop
    <3>2. open' = open
      BY <1>5, <3>1, TokenNested DEF CloseBrace, Return
    <3>3. mode_stack' = mode_stack
      <4>1. L > 1 => L # 1
        BY <1>3
      <4>2. current_mode.kind # "Interpolation"
        BY <3>1, <4>1, ByKind
      <4> QED
        BY <1>5, <4>2 DEF CloseBrace
    <3> QED
      BY <3>2, <3>3, SameNesting DEF CloseBrace
  <2> QED
    BY <2>4, <2>5
<1> QED
  BY <1>4, <1>5

\* A string without interpolations is one token; the end of another leads back
\* to the interpolation it stands in.
LEMMA CloseStringNests ==
  ASSUME TypeOK, Nested, CloseString, ~pending,
         at = "continuation" => current_mode = String,
         at = "string" => current_mode # String
  PROVE  Nested'
<1>1. CASE at = "string"
  <2>1. Tip = 2
    BY <1>1 DEF Tip
  <2>2. open' = open /\ mode_stack' = mode_stack /\ pending' = pending
    BY <1>1, <2>1, OpenOnTop, TokenNested DEF CloseString, Return
  <2> QED
    BY <2>2, SameNesting
<1>2. CASE at = "continuation"
  <2>1. PICK p : Laid(open, mode_stack, Tip, p)
    BY DEF Nested
  <2>2. Tip = 1 /\ current_mode = String
    BY <1>2 DEF Tip
  <2>3. mode_stack' = Front(mode_stack) /\ open' = Front(open) /\ ~pending'
    BY <1>2, <2>2, OpenOnTop, TokenNested DEF CloseString, Return
  <2> DEFINE L == Len(mode_stack)
  <2>4. /\ open \in Seq(Bracket) /\ open # <<>> /\ mode_stack \in Seq(Mode)
        /\ mode_stack # <<>> /\ L \in Nat /\ L > 1
    BY <2>2, OpenOnTop, ByKind DEF Nested, TypeOK, OnTop
  <2>5. /\ mode_stack' \in Seq(Mode) /\ Len(mode_stack') = L - 1
        /\ \A k \in 1..(L - 1) : mode_stack'[k] = mode_stack[k]
        /\ open' \in Seq(Bracket)
    BY <2>3, <2>4, FrontProperties
  <2>6. \A k \in 1..(L - 1) : mode_stack[k] # String
    BY DEF Nested
  <2>7. \A k \in 2..L : mode_stack[k].kind = "Interpolation" \/ mode_stack[k] = String
    BY DEF Nested
  <2>8. \E q : Laid(Front(open), Front(mode_stack), 2, q)
    BY <2>1, <2>2, <2>4, StringEnded
  <2> HIDE DEF L
  <2>9. current_mode' # String
    <3>1. L - 1 \in 1..(L - 1)
      BY <2>4
    <3>2. current_mode' = mode_stack'[Len(mode_stack')]
      BY DEF current_mode, Last
    <3> QED
      BY <2>5, <2>6, <3>1, <3>2
  <2>10. Tip' = 2
    BY <2>3, <2>9 DEF Tip
  <2>11. \A k \in 2..Len(mode_stack') :
           mode_stack'[k].kind = "Interpolation" \/ mode_stack'[k] = String
    <3>1. \A k \in 2..(L - 1) : k \in 2..L /\ k \in 1..(L - 1)
      BY <2>4
    <3> QED
      BY <2>5, <2>7, <3>1
  <2>12. \A k \in 1..(Len(mode_stack') - 1) : mode_stack'[k] # String
    <3>1. \A k \in 1..(L - 1 - 1) : k \in 1..(L - 1)
      BY <2>4
    <3> QED
      BY <2>5, <2>6, <3>1
  <2> QED
    BY <2>3, <2>5, <2>8, <2>10, <2>11, <2>12 DEF Nested
<1> QED
  BY <1>1, <1>2 DEF CloseString, InString

\* An interpolation begins in a string, or with it.
LEMMA BeginInterpolationNests ==
  ASSUME TypeOK, Nested, BeginInterpolation, ~pending,
         at = "continuation" => current_mode = String,
         at = "string" => current_mode # String
  PROVE  Nested'
<1>0. PICK p : Laid(open, mode_stack, Tip, p)
  BY DEF Nested
<1> DEFINE mode == Interpolation(0)
           L == Len(mode_stack)
<1>1. mode \in Mode /\ mode # String /\ mode.kind = "Interpolation"
  BY TopMode DEF Interpolation, String
<1>2. pending' /\ Tip' = 1
  BY DEF BeginInterpolation, Tip
<1>3. /\ open \in Seq(Bracket) /\ mode_stack \in Seq(Mode) /\ mode_stack # <<>>
      /\ L \in Nat \ {0} /\ current_mode = mode_stack[L]
  BY ByKind DEF Nested, TypeOK
<1>4. CASE at = "string"
  <2>1. Tip = 2 /\ current_mode # String
    BY <1>4 DEF Tip
  <2>2. open' = Append(open, StringStart)
    BY <1>4, <2>1, OpenOnTop, TokenNested DEF BeginInterpolation, Return
  <2>3. mode_stack' = Append(mode_stack, mode)
    BY <1>4 DEF BeginInterpolation
  <2>4. \E q : Laid(Append(open, StringStart), Append(mode_stack, mode), 1, q)
    BY <1>0, <1>1, <1>3, <2>1, StringBegun
  <2>5. open' \in Seq(Bracket)
    BY <1>3, <2>2, AppendProperties DEF Bracket
  <2> HIDE DEF mode
  <2>6. /\ Len(mode_stack') = L + 1 /\ mode_stack'[L + 1] = mode
        /\ \A k \in 1..L : mode_stack'[k] = mode_stack[k]
    BY <1>1, <1>3, <2>3, AppendProperties
  <2>7. current_mode' = mode
    BY <2>6 DEF current_mode, Last
  <2> HIDE DEF L
  <2>8. \A k \in 2..Len(mode_stack') :
           mode_stack'[k].kind = "Interpolation" \/ mode_stack'[k] = String
    <3>1. \A k \in 2..L : mode_stack[k].kind = "Interpolation" \/ mode_stack[k] = String
      BY DEF Nested, L
    <3>2. \A k \in 2..(L + 1) : k = L + 1 \/ (k \in 2..L /\ k \in 1..L)
      BY <1>3
    <3> QED
      BY <1>1, <2>6, <3>1, <3>2
  <2>9. \A k \in 1..(Len(mode_stack') - 1) : mode_stack'[k] # String
    <3>1. \A k \in 1..(L - 1) : mode_stack[k] # String
      BY DEF Nested, L
    <3>2. L + 1 - 1 = L /\ \A k \in 1..L : k = L \/ k \in 1..(L - 1)
      BY <1>3
    <3> QED
      BY <1>3, <2>1, <2>6, <3>1, <3>2
  <2>10. \E q : Laid(open', mode_stack', Tip', q)
    BY <1>2, <2>2, <2>3, <2>4
  <2> QED
    BY <2>5, <2>7, <2>8, <2>9, <2>10 DEF Nested, mode
<1>5. CASE at = "continuation"
  <2>1. Tip = 1 /\ L > 1
    BY <1>5, ByKind DEF Tip
  <2>2. open' = open
    BY <1>5, <2>1, OpenOnTop, TokenNested DEF BeginInterpolation, Return
  <2>3. SetMode(mode)
    BY <1>5 DEF BeginInterpolation
  <2> HIDE DEF mode
  <2>4. /\ mode_stack' \in Seq(Mode) /\ Len(mode_stack') = L
        /\ \A k \in 1..(L - 1) : mode_stack'[k] = mode_stack[k]
        /\ mode_stack'[L] = mode /\ current_mode' = mode
    BY <1>1, <2>1, <2>3, TopSet
  <2>5. /\ TopLevel(open, p[L], mode_stack, 1) /\ Len(open) \in Nat
        /\ p[L] \in Nat /\ p[L] <= Len(open) + 1
    BY <1>0, <2>1, TopTokens
  <2>6. TopLevel(open', p[L], mode_stack', 1)
    BY <2>2, <2>4, <2>5 DEF TopLevel
  <2>7. current_mode' = Interpolation(0)
    BY <2>4 DEF mode
  <2> QED
    BY <1>0, <1>1, <1>2, <1>3, <2>2, <2>4, <2>5, <2>6, <2>7, NestingReplaced
<1> QED
  BY <1>4, <1>5 DEF BeginInterpolation, InString

LEMMA InitNests == Init => NestInv
<1> SUFFICES ASSUME Init PROVE NestInv
  OBVIOUS
<1>1. /\ open = <<>> /\ mode_stack = <<Normal>> /\ pending = FALSE /\ at = "lex"
      /\ errors = 0
  BY DEF Init
<1>2. Normal # String /\ Normal \in Mode /\ Normal.brace_depth = 0
  BY DEF Normal, String, Mode
<1>3. /\ Len(mode_stack) = 1 /\ current_mode = Normal /\ Len(open) = 0
      /\ open \in Seq(Bracket) /\ mode_stack[1] = Normal
  BY <1>1 DEF current_mode, Last
<1>4. Tip = 2
  BY <1>1, <1>2, <1>3 DEF Tip
<1> DEFINE p == [k \in 1..2 |-> 1]
<1>5. p \in [1..2 -> Nat] /\ p[1] = 1 /\ p[2] = 1 /\ \A j, k \in 1..2 : p[j] <= p[k]
  OBVIOUS
<1> HIDE DEF p
<1>6. TopLevel(open, p[1], mode_stack, 2)
  <2>1. Level(open, 1, Len(open) + 1, 1, 0)
    BY <1>3 DEF Level
  <2> QED
    BY <1>2, <1>3, <1>5, <2>1 DEF TopLevel
<1>7. Laid(open, mode_stack, Tip, p)
  BY <1>3, <1>4, <1>5, <1>6 DEF Laid
<1>8. Nested
  BY <1>1, <1>3, <1>7 DEF Nested
<1> QED
  BY <1>1, <1>8 DEF NestInv, StringsClosed

\* The other actions emit tokens that stand in no string, or none.
LEMMA StepNests ==
  ASSUME ScanInv, NestInv, Next
  PROVE  Nested'
<1> USE DEF ScanInv, NestInv
<1>1. CASE Drain
  BY <1>1, DrainNests
<1>2. CASE OpenBrace
  BY <1>2, OpenBraceNests DEF OpenBrace, Beginning
<1>3. CASE CloseBrace
  BY <1>3, CloseBraceNests DEF CloseBrace, Beginning
<1>4. CASE CloseString
  BY <1>4, CloseStringNests DEF CloseString, InString
<1>5. CASE BeginInterpolation
  BY <1>5, BeginInterpolationNests DEF BeginInterpolation, InString
<1>6. CASE Stop \/ Capped \/ AtEnd
  <2>1. open' = open /\ mode_stack' = mode_stack /\ pending' = pending
    BY <1>6, TokenNested DEF Stop, Capped, AtEnd, Return
  <2> QED
    BY <2>1, SameNesting
<1>7. CASE Comment \/ Punctuation \/ Word
  <2>1. Tip = 2
    BY <1>7 DEF Comment, Punctuation, Word, Beginning, Tip
  <2>2. NoStringOpen
    BY <2>1, OpenOnTop
  <2>3. open' = open /\ mode_stack' = mode_stack /\ pending' = pending
    BY <1>7, <2>2, TokenNested DEF Comment, Punctuation, Word, Return, emitted
  <2> QED
    BY <2>3, SameNesting
<1>8. CASE Scan \/ Skip \/ BeginComment \/ BlockComment \/ Unexpected \/ Escape
           \/ Text
  <2>1. open' = open /\ mode_stack' = mode_stack /\ pending' = pending
    BY <1>8 DEF Scan, Skip, BeginComment, BlockComment, Unexpected, Escape,
       Text, emitted
  <2> QED
    BY <2>1, SameNesting
<1> QED
  BY <1>1, <1>2, <1>3, <1>4, <1>5, <1>6, <1>7, <1>8 DEF Next

\* Between two tokens only: an interpolation waits, and a string is the mode.
LEMMA StepKeepsPlaces ==
  ASSUME NestInv, Next
  PROVE  /\ at' \notin {"lex", "done"} => ~pending'
         /\ at' \in {"normal", "word", "string", "comment", "block comment"} =>
              current_mode' # String
<1> USE DEF NestInv
<1>0. mode_stack' = mode_stack => current_mode' = current_mode
  BY DEF current_mode
<1>1. CASE Stop \/ Drain \/ Scan \/ Skip \/ Capped \/ AtEnd
  <2>1. mode_stack' = mode_stack /\ (pending' = pending \/ at' = "lex")
    BY <1>1 DEF Stop, Drain, Scan, Skip, Capped, AtEnd
  <2>2. CASE Stop \/ Drain \/ Capped \/ AtEnd
    <3>1. at' \in {"lex", "done"}
      BY <2>2 DEF Stop, Drain, Capped, AtEnd, Return
    <3> QED
      BY <3>1
  <2>3. CASE Scan \/ Skip
    <3>1. CASE Scan
      BY <1>0, <2>1, <3>1 DEF Scan
    <3>2. CASE Skip
      BY <1>0, <2>1, <3>2 DEF Skip
    <3> QED
      BY <2>3, <3>1, <3>2
  <2> QED
    BY <1>1, <2>2, <2>3
<1>2. CASE BeginComment \/ BlockComment \/ Comment \/ Unexpected
  <2>1. mode_stack' = mode_stack /\ pending' = pending
    BY <1>2 DEF BeginComment, BlockComment, Comment, Unexpected
  <2> QED
    BY <1>0, <1>2, <2>1 DEF BeginComment, BlockComment, Comment, Unexpected,
       Beginning, Return
<1>3. CASE Punctuation \/ Word
  <2>1. mode_stack' = mode_stack /\ pending' = pending
    BY <1>3 DEF Punctuation, Word
  <2> QED
    BY <1>0, <1>3, <2>1 DEF Punctuation, Word, Beginning, Return
<1>4. CASE OpenBrace \/ CloseBrace \/ CloseString \/ BeginInterpolation
  BY <1>4 DEF OpenBrace, CloseBrace, CloseString, BeginInterpolation, Return
<1>5. CASE Escape \/ Text
  <2>1. mode_stack' = mode_stack /\ pending' = pending /\ at' = at
    BY <1>5 DEF Escape, Text
  <2> QED
    BY <1>0, <2>1
<1> QED
  BY <1>1, <1>2, <1>3, <1>4, <1>5 DEF Next

\* At the end of the source without an error there is only the bottom mode.
LEMMA AtEndClosed ==
  ASSUME ScanInv, NestInv, AtEnd, errors' = 0
  PROVE  \A i \in DOMAIN open' : open'[i] = "{"
<1>1. \A i \in DOMAIN mode_stack : mode_stack[i] = Normal
  BY DEF ScanInv, TypeOK, AtEnd, emit_error, too_many_errors
<1>2. /\ mode_stack \in Seq(Mode) /\ Len(mode_stack) \in Nat \ {0}
      /\ current_mode = mode_stack[Len(mode_stack)] /\ TypeOK /\ Nested
  BY ByKind DEF ScanInv, NestInv, TypeOK
<1>3. Len(mode_stack) \in DOMAIN mode_stack
  BY <1>2, LenProperties
<1>4. current_mode = Normal
  BY <1>1, <1>2, <1>3
<1>5. Len(mode_stack) = 1
  BY <1>2, <1>4, ByKind, TopMode DEF Normal
<1>6. Tip = 2
  BY <1>4, TopMode, <1>2 DEF NestInv, AtEnd, Tip
<1>7. PICK p : Laid(open, mode_stack, Tip, p)
  BY <1>2 DEF Nested
<1>8. /\ open \in Seq(Bracket) /\ Len(open) \in Nat
      /\ TopLevel(open, p[Len(mode_stack)], mode_stack, 2)
      /\ p[Len(mode_stack)] = 1
  BY <1>2, <1>5, <1>6, <1>7, TopTokens
<1>9. \A j \in 1..(Len(open) + 1 - 1) : open[j] = Brace
  BY <1>5, <1>8 DEF TopLevel, Level
<1>10. DOMAIN open = 1..Len(open)
  BY <1>8, LenProperties
<1>11. open' = open
  BY TokenNested DEF AtEnd, Return
<1>12. Len(open) + 1 - 1 = Len(open)
  BY <1>8
<1>13. \A j \in DOMAIN open : open[j] = Brace
  BY <1>9, <1>10, <1>12
<1> QED
  BY <1>11, <1>13 DEF Brace

\* The scan ends in AtEnd, at the limit of errors or in a comment.
LEMMA StepKeepsStringsClosed ==
  ASSUME ScanInv, NestInv, Next
  PROVE  StringsClosed'
<1>1. CASE AtEnd
  BY <1>1, AtEndClosed DEF StringsClosed
<1>2. CASE Stop \/ Capped
  <2>1. errors' # 0
    BY <1>2, ScannerAssumption DEF ScanInv, TypeOK, Stop, Capped, too_many_errors
  <2> QED
    BY <2>1 DEF StringsClosed
<1>3. CASE Comment
  <2>1. at' # "done" \/ commented'
    BY <1>3 DEF Comment, Return
  <2> QED
    BY <2>1 DEF StringsClosed
<1>4. CASE \/ Drain \/ Scan \/ Skip \/ BeginComment \/ BlockComment \/ Punctuation
           \/ Word \/ OpenBrace \/ CloseBrace \/ Unexpected \/ CloseString
           \/ BeginInterpolation \/ Escape \/ Text
  <2>1. at' # "done"
    BY <1>4 DEF Drain, Scan, Skip, BeginComment, BlockComment, Punctuation, Word,
       OpenBrace, CloseBrace, Unexpected, CloseString, BeginInterpolation,
       Escape, Text, Beginning, InString, Return
  <2> QED
    BY <2>1 DEF StringsClosed
<1> QED
  BY <1>1, <1>2, <1>3, <1>4 DEF Next

LEMMA StepKeepsNestInv == ScanInv /\ NestInv /\ [Next]_vars => NestInv'
<1> SUFFICES ASSUME ScanInv, NestInv, [Next]_vars PROVE NestInv'
  OBVIOUS
<1>1. CASE Next
  BY <1>1, StepNests, StepKeepsPlaces, StepKeepsStringsClosed DEF NestInv
<1>2. CASE UNCHANGED vars
  <2>1. Nested'
    BY <1>2, SameNesting DEF vars, NestInv
  <2> QED
    BY <1>2, <2>1 DEF vars, NestInv, StringsClosed, current_mode
<1> QED
  BY <1>1, <1>2

LEMMA AlwaysNestInv == Spec => []NestInv
BY AlwaysScanInv, InitNests, StepKeepsNestInv, PTL DEF Spec

\* In sources of any length, with strings nested to any depth and with any
\* errors, each part of an interpolated string, its end and the end of an
\* interpolation stand where the parser expects them.
THEOREM BracketsNest == Spec => []BracketsMatch
<1>1. NestInv => BracketsMatch
  <2>1. "mismatch" \notin Bracket
    BY DEF Bracket, StringStart, DollarBrace, Brace
  <2>2. ASSUME NestInv, NEW i \in DOMAIN open
        PROVE  open[i] # "mismatch"
    <3>1. open \in Seq(Bracket) /\ DOMAIN open = 1..Len(open)
      BY <2>2, LenProperties DEF NestInv, Nested
    <3>2. open[i] \in Bracket
      BY <3>1, ElementOfSeq
    <3> QED
      BY <2>1, <3>2
  <2> QED
    BY <2>2 DEF BracketsMatch
<1> QED
  BY AlwaysNestInv, <1>1, PTL

\* The test that scan_normal makes at the end of the source sees every string
\* and interpolation that is still open there, unless a comment ends it.
THEOREM OpenStringsReported == Spec => []StringsClosed
<1>1. NestInv => StringsClosed
  BY DEF NestInv
<1> QED
  BY AlwaysNestInv, <1>1, PTL
=============================================================================
