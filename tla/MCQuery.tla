------------------------------ MODULE MCQuery -------------------------------
(* The queries MCServe has Planner compile, and the tails it has LiveTail     *)
(* serve.                                                                     *)
EXTENDS Integers

(* The queries compiled: every matcher with every other; every two stages;   *)
(* aggregations with ranges on and off every boundary.                       *)

NumericText == [v \in {1, 2} |-> IF v = 1 THEN 10 ELSE 5]
Regexes == {[whole |-> {0, 3}, within |-> {1, 2}], [whole |-> {1}, within |-> {2}]}
Patterns == {[literal |-> {1}, wild |-> {1, 3}], [literal |-> {2, 3}, wild |-> {2, 3}]}
Comparisons == {"=", "!=", ">=", "<=", ">", "<"}
Both == {"=~", "!~"}
Matchers ==
  [label : {"service", "region"}, op : Comparisons, value : {0, 2}]
    \cup [label : {"service", "region"}, op : Both, value : Regexes]
    \cup [label : {"level"}, op : Comparisons, value : {2}]
Lines ==
  [kind : {"line"}, regex : {FALSE}, op : Both, value : Patterns]
    \cup [kind : {"line"}, regex : {TRUE}, op : Both, value : Regexes]
Parsers == [kind : {"parser"}, parser : {"json", "logfmt", "regexp", "nogroup"}]
Filters ==
  [kind : {"label"}, label : {"f", "service"}, op : Comparisons, value : {0, 2}, numeric : {FALSE}]
    \cup [kind : {"label"}, label : {"f"}, op : Comparisons, value : {1, 2}, numeric : {TRUE}]
    \cup [kind : {"label"}, label : {"f"}, op : Both, value : Regexes, numeric : {FALSE}]
    \cup [kind : {"label"}, label : {"level"}, op : Comparisons, value : {2}, numeric : {FALSE}]
Aggregations ==
  [func : {"rate", "bytes"}, range : {1, 2, 3, 4, 6, 12},
   by : {<<>>, <<"level">>, <<"level", "service">>, <<"f">>}]
Plain == [func |-> "none", range |-> 1, by |-> <<>>]
OneMatcher == <<[label |-> "service", op |-> "=", value |-> 1]>>
Compile(selector, stages, agg, start, end) ==
  [selector |-> selector, stages |-> stages, agg |-> agg, start |-> start, end |-> end]
ToCompile ==
  {Compile(<<m, n>>, <<>>, Plain, 1, 4) : m \in Matchers, n \in Matchers}
    \cup {Compile(OneMatcher, <<a, b>>, Plain, 1, 4) : a \in Lines \cup Parsers, b \in Lines \cup Parsers \cup Filters}
    \cup {Compile(OneMatcher, <<a, b>>, Plain, 1, 4) : a \in Filters, b \in Parsers}
    \cup {Compile(OneMatcher, st, a, s, s + d) : st \in {<<>>} \cup {<<p>> : p \in Parsers},
                                                 a \in Aggregations, s \in 0 .. 12, d \in {0, 1, 5, 8}}

-----------------------------------------------------------------------------
(* Two streams whose services have one subject token, and selectors that pin *)
(* one of them, with and without a matcher that pins nothing.                *)

Matcher(l, o, v) == [label |-> l, op |-> o, value |-> v]
TailQueries ==
  {<<Matcher("service", "=", "a.b")>>, <<Matcher("env", "#", "p"), Matcher("service", "=", "a_b")>>}
TailLabels == {[env |-> "p", service |-> "a.b"], [env |-> "q", service |-> "a_b"]}
TailToken ==
  [v \in {"", "p", "q", "a.b", "a_b"} |-> CASE v = "" -> "_" [] v = "a.b" -> "a_b" [] OTHER -> v]

=============================================================================
