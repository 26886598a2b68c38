------------------------------ MODULE Scanner ------------------------------
(***************************************************************************)
(* The lexer of pepl-lexer: characters in, tokens out, one character or    *)
(* one token a step.  A string with interpolations becomes several tokens, *)
(* with those of its expressions between them, strings included; the mode  *)
(* stack remembers in what the scanner is.  Characters are told apart as   *)
(* far as scanning branches on them, tokens as far as they nest: adjacent  *)
(* names and numbers are one word, the three dots of a spread three        *)
(* operators.                                                              *)
(***************************************************************************)
EXTENDS Integers, SequencesExt

CONSTANTS
  Input,      \* the characters tried
  MaxChars,   \* bound on the length of the source
  MaxErrors   \* MAX_ERRORS

Operator == {"+", "-", "*", "/", "%", "=", "<", ">", "?", ".", "|", "(", ")",
             "[", "]", ",", ":"}
Digraph == {<<"-", ">">>, <<"=", "=">>, <<"!", "=">>, <<"<", "=">>,
            <<">", "=">>, <<"?", "?">>}
Escaped == {"quote", "backslash", "letter", "$"}
Char == Operator \cup Escaped \cup
        {"space", "newline", "digit", "{", "}", "!", "other"}

ASSUME ScannerAssumption ==
  /\ Input \subseteq Char
  /\ MaxChars \in Nat /\ MaxErrors \in Nat \ {0}

Normal == [kind |-> "Normal", brace_depth |-> 0]
String == [kind |-> "String", brace_depth |-> 0]
Interpolation(depth) == [kind |-> "Interpolation", brace_depth |-> depth]

Token == {"none", "newline", "word", "operator", "string", "string start",
          "string part", "string end", "${", "}$", "{", "}", "eof"}

VARIABLES
  peek, peek_1,  \* the next two characters, "end" behind the last
  taken,         \* how many were chosen
  at,            \* where the scanner is
  mode_stack,
  pending,       \* an InterpolationStart waits
  errors,        \* total_errors, counted up to MaxErrors
  last,          \* the token emitted last
  open,          \* history: the brackets the tokens have left open
  commented      \* history: the source ends with a comment

vars == <<peek, peek_1, taken, at, mode_stack, pending, errors, last, open,
          commented>>
source == <<peek, peek_1, taken>>
emitted == <<last, open>>

too_many_errors == errors >= MaxErrors
current_mode == Last(mode_stack)

Init ==
  /\ peek \in Input \cup {"end"}
  /\ peek_1 \in IF peek = "end" THEN {"end"} ELSE Input \cup {"end"}
  /\ taken = 2
  /\ at = "lex" /\ mode_stack = <<Normal>> /\ pending = FALSE
  /\ errors = 0 /\ last = "none" /\ open = <<>> /\ commented = FALSE

\* advance, and a choice of the character that comes into sight.
Advance ==
  /\ peek' = peek_1
  /\ IF peek_1 = "end" \/ taken >= MaxChars
     THEN peek_1' = "end" /\ UNCHANGED taken
     ELSE peek_1' \in Input \cup {"end"} /\ taken' = taken + 1

Advance2 ==
  IF taken >= MaxChars
  THEN peek' = "end" /\ peek_1' = "end" /\ UNCHANGED taken
  ELSE /\ peek' \in Input \cup {"end"}
       /\ peek_1' \in IF peek' = "end" \/ taken + 1 >= MaxChars
                      THEN {"end"} ELSE Input \cup {"end"}
       /\ taken' = taken + 2

emit_error == errors' = IF too_many_errors THEN errors ELSE errors + 1

\* The brackets open after token t, where it may stand: directly in a string
\* only a part, its end or an interpolation, and each end after its begin.
Nest(t) ==
  LET top == IF open = <<>> THEN "none" ELSE Last(open)
  IN  CASE t \in {"string start", "{"} /\ top # "string start" ->
             Append(open, t)
        [] t = "${" /\ top = "string start" -> Append(open, t)
        [] t = "string part" /\ top = "string start" -> open
        [] \/ t = "string end" /\ top = "string start"
           \/ t = "}$" /\ top = "${"
           \/ t = "}" /\ top = "{" -> Front(open)
        [] t = "}" /\ top = "none" -> open
        [] t \in {"newline", "word", "operator", "string"} /\
             top # "string start" -> open
        [] t = "eof" -> open
        [] OTHER -> Append(open, "mismatch")

Emit(t) == last' = t /\ open' = Nest(t)

\* A token ends the scan; the next begins in lex.
Return(t) == Emit(t) /\ at' = IF t = "eof" THEN "done" ELSE "lex"

-----------------------------------------------------------------------------
\* lex

\* A defect: the stream is left as it is.
Stop_WithoutEof ==
  /\ at = "lex" /\ too_many_errors
  /\ at' = "done"
  /\ UNCHANGED <<source, emitted, mode_stack, pending, errors, commented>>

\* The stream ends with Eof also when the error limit ends it.
Stop ==
  /\ at = "lex" /\ too_many_errors
  /\ Emit("eof")
  /\ at' = "done"
  /\ UNCHANGED <<source, mode_stack, pending, errors, commented>>

Drain ==
  /\ at = "lex" /\ ~too_many_errors /\ pending
  /\ pending' = FALSE /\ Emit("${")
  /\ UNCHANGED <<source, at, mode_stack, errors, commented>>

Scan ==
  /\ at = "lex" /\ ~too_many_errors /\ ~pending
  /\ at' = IF current_mode = String THEN "continuation" ELSE "normal"
  /\ UNCHANGED <<source, emitted, mode_stack, pending, errors, commented>>

-----------------------------------------------------------------------------
\* scan_normal

Skip ==
  /\ at = "normal" /\ peek = "space"
  /\ Advance
  /\ UNCHANGED <<emitted, at, mode_stack, pending, errors, commented>>

Capped ==
  /\ at = "normal" /\ peek # "space" /\ too_many_errors
  /\ Return("eof")
  /\ UNCHANGED <<source, mode_stack, pending, errors, commented>>

\* A defect: only the current mode is looked at.
AtEnd_CurrentOnly ==
  /\ at = "normal" /\ peek = "end" /\ ~too_many_errors
  /\ IF current_mode = String THEN emit_error ELSE UNCHANGED errors
  /\ Return("eof")
  /\ UNCHANGED <<source, mode_stack, pending, commented>>

\* An open string or interpolation is an error.
AtEnd ==
  /\ at = "normal" /\ peek = "end" /\ ~too_many_errors
  /\ IF \E i \in DOMAIN mode_stack : mode_stack[i] # Normal
     THEN emit_error ELSE UNCHANGED errors
  /\ Return("eof")
  /\ UNCHANGED <<source, mode_stack, pending, commented>>

Beginning == at = "normal" /\ peek \notin {"space", "end"}
               /\ ~too_many_errors
InComment == peek = "/" /\ peek_1 \in {"/", "*"}

BeginComment ==
  /\ Beginning /\ InComment
  /\ at' = IF peek_1 = "*" THEN "block comment" ELSE "comment"
  /\ Advance2
  /\ UNCHANGED <<emitted, mode_stack, pending, errors, commented>>

\* A defect: the end of the source does not end the comment.
BlockComment_NoEnd ==
  /\ at = "block comment"
  /\ \/ peek = "*" /\ peek_1 = "/" /\ Advance2 /\ emit_error /\ at' = "normal"
     \/ ~(peek = "*" /\ peek_1 = "/") /\ Advance /\ UNCHANGED <<errors, at>>
  /\ UNCHANGED <<emitted, mode_stack, pending, commented>>

\* A block comment is an error, wherever it ends.
BlockComment ==
  /\ at = "block comment"
  /\ \/ peek = "end" /\ UNCHANGED source /\ emit_error /\ at' = "normal"
     \/ peek = "*" /\ peek_1 = "/" /\ Advance2 /\ emit_error /\ at' = "normal"
     \/ peek # "end" /\ ~(peek = "*" /\ peek_1 = "/") /\ Advance
        /\ UNCHANGED <<errors, at>>
  /\ UNCHANGED <<emitted, mode_stack, pending, commented>>

\* At the end of the source the modes are not looked at.
Comment ==
  /\ at = "comment"
  /\ \/ peek \notin {"newline", "end"} /\ Advance
        /\ UNCHANGED <<emitted, at, commented>>
     \/ peek = "newline" /\ Advance /\ Return("newline")
        /\ UNCHANGED commented
     \/ peek = "end" /\ UNCHANGED source /\ Return("eof")
        /\ commented' = TRUE
  /\ UNCHANGED <<mode_stack, pending, errors>>

\* A newline, an operator, or the quote that begins a string.
Punctuation ==
  /\ Beginning /\ ~InComment
  /\ \/ peek = "newline" /\ Return("newline") /\ Advance
     \/ peek = "quote" /\ at' = "string" /\ Advance /\ UNCHANGED emitted
     \/ /\ <<peek, peek_1>> \in Digraph
        /\ Return("operator") /\ Advance2
     \/ /\ peek \in Operator /\ <<peek, peek_1>> \notin Digraph
        /\ Return("operator") /\ Advance
  /\ UNCHANGED <<mode_stack, pending, errors, commented>>

\* scan_number and scan_identifier.
Word ==
  \/ /\ Beginning /\ peek \in {"letter", "digit"}
     /\ Advance /\ at' = "word"
     /\ UNCHANGED <<emitted, mode_stack, pending, errors, commented>>
  \/ /\ at = "word"
     /\ IF peek \in {"letter", "digit"}
        THEN Advance /\ UNCHANGED <<emitted, at>>
        ELSE Return("word") /\ UNCHANGED source
     /\ UNCHANGED <<mode_stack, pending, errors, commented>>

SetMode(mode) == mode_stack' = Append(Front(mode_stack), mode)

\* A defect: braces in an interpolation are not counted.
OpenBrace_NotCounted ==
  /\ Beginning /\ peek = "{"
  /\ Advance /\ Return("{")
  /\ UNCHANGED <<mode_stack, pending, errors, commented>>

OpenBrace ==
  /\ Beginning /\ peek = "{"
  /\ IF current_mode.kind = "Interpolation"
     THEN SetMode(Interpolation(current_mode.brace_depth + 1))
     ELSE UNCHANGED mode_stack
  /\ Advance /\ Return("{")
  /\ UNCHANGED <<pending, errors, commented>>

\* A defect: depth zero is not told apart.
CloseBrace_Decrements ==
  /\ Beginning /\ peek = "}"
  /\ IF current_mode.kind = "Interpolation"
     THEN SetMode(Interpolation(current_mode.brace_depth - 1))
     ELSE UNCHANGED mode_stack
  /\ Return("}")
  /\ Advance
  /\ UNCHANGED <<pending, errors, commented>>

\* The brace that ends an interpolation leads back into its string.
CloseBrace ==
  /\ Beginning /\ peek = "}"
  /\ IF current_mode = Interpolation(0)
     THEN SetMode(String) /\ Return("}$")
     ELSE /\ IF current_mode.kind = "Interpolation"
             THEN SetMode(Interpolation(current_mode.brace_depth - 1))
             ELSE UNCHANGED mode_stack
          /\ Return("}")
  /\ Advance
  /\ UNCHANGED <<pending, errors, commented>>

\* What begins no token is an error and skipped.
Unexpected ==
  /\ Beginning
  /\ \/ peek \in {"other", "$", "backslash"}
     \/ peek = "!" /\ peek_1 # "="
  /\ emit_error /\ Advance
  /\ UNCHANGED <<emitted, at, mode_stack, pending, commented>>

-----------------------------------------------------------------------------
\* scan_string and scan_string_continuation

InString == at \in {"string", "continuation"}

\* The closing quote; the end of the line or source is an error.
CloseString ==
  /\ InString /\ peek \in {"quote", "newline", "end"}
  /\ IF peek = "quote" THEN Advance /\ UNCHANGED errors
                       ELSE emit_error /\ UNCHANGED source
  /\ IF at = "string"
     THEN Return("string") /\ UNCHANGED mode_stack
     ELSE Return("string end") /\ mode_stack' = Front(mode_stack)
  /\ UNCHANGED <<pending, commented>>

Dollar == peek = "$" /\ peek_1 = "{"

BeginInterpolation ==
  /\ InString /\ Dollar
  /\ IF at = "string"
     THEN /\ mode_stack' = Append(mode_stack, Interpolation(0))
          /\ Return("string start")
     ELSE SetMode(Interpolation(0)) /\ Return("string part")
  /\ pending' = TRUE
  /\ Advance2
  /\ UNCHANGED <<errors, commented>>

\* scan_escape_sequence: the next character is taken, whatever it is.
Escape ==
  /\ InString /\ peek = "backslash"
  /\ IF peek_1 \in Escaped THEN UNCHANGED errors ELSE emit_error
  /\ IF peek_1 = "end" THEN Advance ELSE Advance2
  /\ UNCHANGED <<emitted, at, mode_stack, pending, commented>>

Text ==
  /\ InString /\ ~Dollar
  /\ peek \notin {"quote", "newline", "end", "backslash"}
  /\ Advance
  /\ UNCHANGED <<emitted, at, mode_stack, pending, errors, commented>>

Next ==
  \/ Stop \/ Drain \/ Scan
  \/ Skip \/ Capped \/ AtEnd \/ BeginComment \/ BlockComment \/ Comment
  \/ Punctuation \/ Word \/ OpenBrace \/ CloseBrace \/ Unexpected
  \/ CloseString \/ BeginInterpolation \/ Escape \/ Text

Spec == Init /\ [][Next]_vars

\* Scanning is one synchronous call.
FairSpec == Spec /\ WF_vars(Next)

-----------------------------------------------------------------------------
\* Properties

Place == {"lex", "normal", "block comment", "comment", "word", "string",
          "continuation", "done"}
Mode == [kind : {"Normal", "String", "Interpolation"}, brace_depth : Nat]

TypeOK ==
  /\ peek \in Char \cup {"end"} /\ peek_1 \in Char \cup {"end"}
  /\ taken \in 0..(MaxChars + 2)
  /\ at \in Place
  /\ mode_stack \in Seq(Mode) /\ mode_stack # <<>>
  /\ Head(mode_stack) = Normal
  /\ pending \in BOOLEAN /\ commented \in BOOLEAN
  /\ errors \in 0..MaxErrors
  /\ last \in Token

\* The tokens of an interpolated string come in the order the parser expects
\* them, its parts never without the start, and the brace that ends an
\* interpolation is the one that matches its beginning: also in sources with
\* errors, and however strings nest in interpolations.
BracketsMatch == \A i \in DOMAIN open : open[i] # "mismatch"

\* A string that is not closed is an error, unless the source ends with a
\* comment: then what is still open is not looked at.
StringsClosed ==
  at = "done" /\ errors = 0 /\ ~commented =>
    \A i \in DOMAIN open : open[i] = "{"

\* The stream of tokens ends with eof, whatever ends the scan, and without an
\* error the source has been read to its end.
EndsWithEof ==
  at = "done" => last = "eof" /\ (errors = 0 => peek = "end")

\* Scanning ends on every source.
Ends == <>(at = "done")
=============================================================================
