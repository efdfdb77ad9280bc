------------------------------- MODULE Parser -------------------------------
(***************************************************************************)
(* The recursive-descent parser of src/internal/query/parser.go, run beside*)
(* the grammar it is to implement (ast.go 9-20).                           *)
(*                                                                         *)
(* The lexer hands over one token at a time and the parser has one token of*)
(* lookahead, so what it does next depends on the place it has reached, on *)
(* the operand it is about to read and on the token: neither the query nor *)
(* its length is part of the state, and TLC covers queries of every length. *)
(* A token is its kind, with the text where the parser looks at it.        *)
(***************************************************************************)

Reserved == {"json", "regexp", "rate"}               \* json for logfmt, rate for the functions
Idents == Reserved \cup {"label", "level", "by"}
TextTokens == {"text", "level text", "bad regex"}    \* strings, by what checks accept them
Durations == {"duration", "zero duration"}           \* zero, or out of range
Ops == {"=", ">=", "!=", "=~", "!~"}                 \* >= for the other three
LineOps == {"|=", "|~", "!=", "!~"}
Tokens == Idents \cup TextTokens \cup Durations \cup Ops \cup LineOps
            \cup {"{", "}", "(", ")", ",", "|", "number", "eof", "illegal"}

IsRegex(op) == op \in {"=~", "!~", "|~", "regexp"}

VARIABLES
  at,       \* where the parser is: the place whose token it looks at next
  label,    \* the label of the matcher or filter being parsed
  op,       \* its operator, or the stage or line filter the string belongs to
  by,       \* the labels of by (...) so far
  heads     \* the reference: the symbols of the grammar just read may be

parserVars == <<at, label, op, by, heads>>

-----------------------------------------------------------------------------
(* The reference: the EBNF as the occurrences of its terminals, the tokens *)
(* each stands for, and which may follow which.                            *)

Terminal(x) ==
  CASE x = "open" -> {"{"}
    [] x \in {"m label", "f label", "by label"} -> Idents
    [] x \in {"m op", "f op"} -> Ops
    [] x \in {"m string", "line string", "re string", "f string"} -> TextTokens
    [] x = "f number" -> {"number"}
    [] x \in {"m comma", "by comma"} -> {","}
    [] x = "close" -> {"}"}
    [] x = "line op" -> LineOps
    [] x = "pipe" -> {"|"}
    [] x = "parser" -> {"json"}
    [] x = "regexp" -> {"regexp"}
    [] x = "func" -> {"rate"}
    [] x \in {"a open", "by open"} -> {"("}
    [] x = "a duration" -> Durations
    [] x \in {"a close", "by close"} -> {")"}
    [] x = "by" -> {"by"}
    [] x = "end" -> {"eof"}
    [] OTHER -> {}

AfterStage == {"line op", "pipe", "end"}

Follow(x) ==
  CASE x = "start" -> {"open"}
    [] x \in {"open", "m comma"} -> {"m label"}
    [] x = "m label" -> {"m op"}
    [] x = "m op" -> {"m string"}
    [] x = "m string" -> {"m comma", "close"}
    [] x \in {"close", "line string", "parser", "re string", "f string", "f number"} -> AfterStage
    [] x = "line op" -> {"line string"}
    [] x = "pipe" -> {"parser", "regexp", "f label", "func"}
    [] x = "regexp" -> {"re string"}
    [] x = "f label" -> {"f op"}
    [] x = "f op" -> {"f string", "f number"}
    [] x = "func" -> {"a open"}
    [] x = "a open" -> {"a duration"}
    [] x = "a duration" -> {"a close"}
    [] x = "a close" -> {"by", "end"}
    [] x = "by" -> {"by open"}
    [] x \in {"by open", "by comma"} -> {"by label"}
    [] x = "by label" -> {"by comma", "by close"}
    [] x = "by close" -> {"end"}
    [] x = "end" -> {}

\* What the prose below the grammar adds: reserved words are no labels of
\* filters, level takes level names and no regular expression or number, a
\* regular expression must be one, a duration is positive, by has no duplicate.
Sensible(x, t) ==
  /\ x = "f label" => t \notin Reserved
  /\ x \in {"m string", "f string"} /\ label = "level" => t = "level text" /\ ~IsRegex(op)
  /\ x \in {"m string", "f string", "line string", "re string"} /\ IsRegex(op) => t # "bad regex"
  /\ x = "f number" => label # "level" /\ ~IsRegex(op)
  /\ x = "a duration" => t # "zero duration"
  /\ x = "by label" => t \notin by

Reads(t) == {y \in UNION {Follow(x) : x \in heads} : t \in Terminal(y) /\ Sensible(y, t)}

-----------------------------------------------------------------------------
(* The parser.                                                             *)

\* On to a place; label and op are locals of what is being parsed.
Move(to) ==
  /\ at' = to /\ UNCHANGED by
  /\ IF to = "pipeline" THEN label' = "label" /\ op' = "=" ELSE UNCHANGED <<label, op>>

\* advance with an illegal token, and every bail.
Bail == at' = "error" /\ UNCHANGED <<label, op, by>>

\* expect: this kind and on to the next place, or an error.
Expect(kinds, t, to) == IF t \in kinds THEN Move(to) ELSE Bail

\* parseSelector: at least one matcher, separated by commas.
ParseSelector(t) ==
  \/ at = "selector" /\ Expect({"{"}, t, "matcher")
  \/ at = "next matcher" /\ (IF t = "," THEN Move("matcher") ELSE Expect({"}"}, t, "pipeline"))

\* parseMatcher and parseOp.
ParseMatcher(t) ==
  \/ /\ at = "matcher"
     /\ IF t \in Idents THEN at' = "matcher op" /\ label' = t /\ UNCHANGED <<op, by>> ELSE Bail
  \/ /\ at = "matcher op"
     /\ IF t \in Ops THEN at' = "matcher value" /\ op' = t /\ UNCHANGED <<label, by>> ELSE Bail

\* parseValue: no regular expression for level, whose value is a level name; a
\* regular expression must compile and be one the database can evaluate.
CheckValue(t) ==
  /\ ~(label = "level" /\ IsRegex(op))
  /\ t \in TextTokens
  /\ IF label = "level" THEN t = "level text" ELSE IsRegex(op) => t # "bad regex"

ParseValue(t) ==
  /\ at \in {"matcher value", "filter value"}
  /\ IF CheckValue(t) THEN Move(IF at = "matcher value" THEN "next matcher" ELSE "pipeline") ELSE Bail

\* The loop of Parse: a line filter, a stage after "|", or the end.
ParsePipeline(t) ==
  \/ /\ at = "pipeline"
     /\ \/ t \in LineOps /\ at' = "line string" /\ op' = t /\ UNCHANGED <<label, by>>
        \/ t = "|" /\ Move("stage")
        \/ t = "eof" /\ Move("accepted")
        \/ t \notin LineOps \cup {"|", "eof"} /\ Bail
  \/ at = "last" /\ Expect({"eof"}, t, "accepted")

\* parseLineFilter's operand, and the regexp stage's.
ParseOperand(t) ==
  /\ at = "line string"
  /\ IF t \in TextTokens /\ ~(IsRegex(op) /\ t = "bad regex") THEN Move("pipeline") ELSE Bail

\* Mutant of ParseStage: a parser stage ends the pipeline.
ParseStageLast(t) ==
  /\ at = "stage"
  /\ \/ t = "json" /\ Move("last")
     \/ t = "regexp" /\ at' = "line string" /\ op' = t /\ UNCHANGED <<label, by>>
     \/ t = "rate" /\ Move("agg open")
     \/ t \in Idents \ Reserved /\ at' = "filter op" /\ label' = t /\ UNCHANGED <<op, by>>
     \/ t \notin Idents /\ Bail

\* parseStage and the keyword test before it: a keyword first, else a label.
ParseStage(t) ==
  /\ at = "stage"
  /\ \/ t = "json" /\ Move("pipeline")
     \/ t = "regexp" /\ at' = "line string" /\ op' = t /\ UNCHANGED <<label, by>>
     \/ t = "rate" /\ Move("agg open")
     \/ t \in Idents \ Reserved /\ at' = "filter op" /\ label' = t /\ UNCHANGED <<op, by>>
     \/ t \notin Idents /\ Bail

TakesNumber(t) == t = "number" /\ ~IsRegex(op) /\ label # "level"

\* parseLabelFilter: the operator, then a number or parseValue.
ParseLabelFilter(t) ==
  \/ /\ at = "filter op"
     /\ IF t \in Ops THEN at' = "filter operand" /\ op' = t /\ UNCHANGED <<label, by>> ELSE Bail
  \/ /\ at = "filter operand"
     /\ IF TakesNumber(t) \/ CheckValue(t) THEN Move("pipeline") ELSE Bail

\* parseAggregation and parseDuration.
ParseAggregation(t) ==
  \/ at = "agg open" /\ Expect({"("}, t, "agg duration")
  \/ at = "agg duration" /\ Expect({"duration"}, t, "agg close")
  \/ at = "agg close" /\ Expect({")"}, t, "agg by")
  \/ at = "agg by" /\ (IF t = "by" THEN Move("by open") ELSE Expect({"eof"}, t, "accepted"))
  \/ at = "by open" /\ Expect({"("}, t, "by label")
  \/ /\ at = "by label"
     /\ IF t \in Idents \ by THEN at' = "by more" /\ by' = by \cup {t} /\ UNCHANGED <<label, op>> ELSE Bail
  \/ at = "by more" /\ (IF t = "," THEN Move("by label") ELSE Expect({")"}, t, "last"))

-----------------------------------------------------------------------------

ParserInit == at = "selector" /\ label = "label" /\ op = "=" /\ by = {} /\ heads = {"start"}

\* The next token: the parser acts on it, and so does the grammar.
ParserNext ==
  /\ at \notin {"accepted", "error"}
  /\ \E t \in Tokens :
       /\ heads' = Reads(t)
       /\ \/ ParseSelector(t) \/ ParseMatcher(t) \/ ParseValue(t) \/ ParsePipeline(t)
          \/ ParseOperand(t) \/ ParseStage(t) \/ ParseLabelFilter(t) \/ ParseAggregation(t)

-----------------------------------------------------------------------------
(* Properties.                                                             *)

\* "The parser is the implementation of exactly this" grammar (ast.go 7): it
\* accepts a query exactly when the grammar has it, and stops as soon as no
\* query can go on with what it has read, which is what its error points at.
ImplementsGrammar ==
  /\ at = "accepted" <=> heads = {"end"}
  /\ at = "error" <=> heads = {}

=============================================================================
