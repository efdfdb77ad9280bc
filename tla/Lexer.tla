-------------------------------- MODULE Lexer --------------------------------
(***************************************************************************)
(* The lexer of src/internal/query/lexer.go against the token definitions  *)
(* at its head (11-34).  A text is a sequence of character classes: each is*)
(* one character the lexer treats alike.                                   *)
(***************************************************************************)
EXTENDS Integers, Sequences, FiniteSets

CONSTANT MaxText      \* bound: characters in a text

Letters == {"a", "u"}                  \* u: one of the unit letters s, m, h, d
IdentChars == Letters \cup {"1"}
Quotes == {"dq", "bq"}                 \* double quote, backquote
Classes == IdentChars \cup Quotes
             \cup {" ", "bs", ".", "|", "=", "!", "~", ">", "{", "x"}   \* bs: backslash; x: anything else
Pairs == {<<"|", "=">>, <<"|", "~">>, <<"=", "~">>, <<"!", "=">>, <<"!", "~">>, <<">", "=">>}
Singles == {"|", "=", ">", "{"}        \* { for all brackets and the comma, > for <

VARIABLES
  text,     \* the source
  off,      \* the position of the next unread character
  tok       \* the token next returned: its kind and extent [from, to)

lexerVars == <<text, off, tok>>

\* The end of the longest run of some characters from i on.
EatWhile(i, chars) ==
  CHOOSE j \in i .. (Len(text) + 1) :
    (\A k \in i .. (j - 1) : text[k] \in chars) /\ (j = Len(text) + 1 \/ text[j] \notin chars)

At(i, chars) == i <= Len(text) /\ text[i] \in chars

\* Where the string that opens at i closes, 0 if it does not: in the
\* interpreted form a backslash takes the next character with it.
Closing(i) ==
  LET scan[j \in (i + 1) .. (Len(text) + 2)] ==
        IF j > Len(text) THEN 0
        ELSE IF text[j] = text[i] THEN j
        ELSE IF text[j] = "bs" /\ text[i] = "dq" THEN scan[j + 2]
        ELSE scan[j + 1]
  IN  scan[i + 1]

\* strconv.Unquote refuses an escape it does not know.
BadEscape(i, j) ==
  /\ text[i] = "dq"
  /\ \E k \in (i + 1) .. (j - 2) :
       /\ text[k] = "bs" /\ text[k + 1] = "x"
       /\ Cardinality({l \in (i + 1) .. k : \A m \in l .. k : text[m] = "bs"}) % 2 = 1

Lexeme(kind, i, j) == [kind |-> kind, from |-> i, to |-> j]

String(i) ==
  LET j == Closing(i)
  IN  IF j = 0 THEN Lexeme("illegal", i, Len(text) + 1)
      ELSE Lexeme(IF BadEscape(i, j) THEN "illegal" ELSE "string", i, j + 1)

\* Mutant of Number: a fraction does not need a digit.
NumberDot(i) ==
  LET whole == EatWhile(i, {"1"})
  IN  Lexeme("number", i, IF At(whole, {"."}) THEN EatWhile(whole + 1, {"1"}) ELSE whole)

\* Digits, a fraction if a digit follows the point, and the word glued to them,
\* which must be a unit.
Number(i) ==
  LET whole == EatWhile(i, {"1"})
      frac == At(whole, {"."}) /\ At(whole + 1, {"1"})
      digits == IF frac THEN EatWhile(whole + 1, {"1"}) ELSE whole
      end == EatWhile(digits, IdentChars)
  IN  Lexeme(CASE end = digits -> "number"
              [] end = digits + 1 /\ text[digits] = "u" /\ ~frac -> "duration"
              [] OTHER -> "illegal",
            i, end)

\* Operators, the longer before its prefix.
Operator(i) ==
  CASE i < Len(text) /\ <<text[i], text[i + 1]>> \in Pairs -> Lexeme("operator", i, i + 2)
    [] text[i] \in Singles -> Lexeme("operator", i, i + 1)
    [] OTHER -> Lexeme("illegal", i, i + 1)

\* next, from the first character that is no space.
Scan(i) ==
  CASE text[i] \in Quotes -> String(i)
    [] text[i] \in Letters -> Lexeme("ident", i, EatWhile(i, IdentChars))
    [] text[i] = "1" -> Number(i)
    [] OTHER -> Operator(i)

LexerInit ==
  /\ text \in UNION {[1 .. n -> Classes] : n \in 0 .. MaxText}
  /\ off = 1 /\ tok = Lexeme("none", 1, 1)

\* next: skip spaces, then the end or a token.
LexerNext ==
  /\ tok.kind # "eof"
  /\ LET i == EatWhile(off, {" "})
     IN  tok' = IF i > Len(text) THEN Lexeme("eof", i, i) ELSE Scan(i)
  /\ off' = tok'.to
  /\ UNCHANGED text

-----------------------------------------------------------------------------
(* The reference: the comments on the token kinds.                         *)

Span(i, j) == SubSeq(text, i, j - 1)
AllIn(w, chars) == \A k \in DOMAIN w : w[k] \in chars
DigitsOf(w) == w # <<>> /\ AllIn(w, {"1"})

IsString(w) ==
  /\ Len(w) >= 2 /\ w[1] \in Quotes /\ w[Len(w)] = w[1]
  /\ \E plain \in SUBSET (2 .. (Len(w) - 1)) :      \* the rest are escape pairs
       LET rest == (2 .. (Len(w) - 1)) \ plain
           first == {k \in rest : Cardinality({l \in rest : l < k}) % 2 = 0}
       IN  /\ rest # {} => w[1] = "dq"
           /\ Cardinality(rest) % 2 = 0
           /\ \A k \in plain : w[k] # w[1] /\ (w[1] = "dq" => w[k] # "bs")
           /\ \A k \in first : k + 1 \in rest /\ w[k] = "bs" /\ w[k + 1] # "x"

Kinds(w) ==
  {k \in {"ident", "string", "number", "duration", "operator"} :
     CASE k = "ident" -> w # <<>> /\ w[1] \in Letters /\ AllIn(w, IdentChars)
       [] k = "string" -> IsString(w)
       [] k = "number" -> DigitsOf(w) \/ \E d \in 2 .. (Len(w) - 1) :
                            w[d] = "." /\ DigitsOf(SubSeq(w, 1, d - 1)) /\ DigitsOf(SubSeq(w, d + 1, Len(w)))
       [] k = "duration" -> Len(w) > 1 /\ w[Len(w)] = "u" /\ DigitsOf(SubSeq(w, 1, Len(w) - 1))
       [] k = "operator" -> w \in Pairs \/ (Len(w) = 1 /\ w[1] \in Singles)}

\* A token is of its kind and as long as can be; nothing is illegal where a
\* token could have been read, but for a number with a word glued to it
\* ("5ms" is one bad token, lexer.go 165-166).
TokensAreLongest ==
  tok.kind \notin {"none", "eof"} =>
    LET ends == {j \in (tok.from + 1) .. (Len(text) + 1) : Kinds(Span(tok.from, j)) # {}}
    IN  IF tok.kind = "illegal"
        THEN ends = {} \/ (text[tok.from] = "1" /\ \E k \in tok.from .. (tok.to - 1) : text[k] \in Letters)
        ELSE /\ Kinds(Span(tok.from, tok.to)) = {tok.kind}
             /\ \A j \in ends : j <= tok.to

=============================================================================
