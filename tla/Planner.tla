------------------------------- MODULE Planner -------------------------------
(***************************************************************************)
(* The query planner (src/internal/query/plan.go), the in-memory evaluator *)
(* that live tail uses instead of the database (match.go), and what        *)
(* Postgres makes of the statements (external).                            *)
(*                                                                         *)
(* Texts are numbers in byte order: 0 is "", and Numeric gives the value of*)
(* those that are numerals, which order differently.  A regular expression *)
(* is what it matches whole and what it matches within; a line filter's    *)
(* text is the messages it occurs in, and those it would match if its LIKE *)
(* metacharacters were live.  A statement is its conditions.  Times count  *)
(* from bucketOrigin.                                                      *)
(***************************************************************************)
EXTENDS Integers, Sequences, FiniteSets

CONSTANTS
  Texts,       \* text values
  Numeric,     \* [some texts -> their numeric value]
  Regexes,     \* [whole, within]: sets of texts, of messages
  Patterns,    \* [literal, wild]: sets of messages
  Messages,    \* messages
  Levels,      \* severities
  Grains,      \* the widths of the continuous aggregates, finest first
  Horizon,     \* bound: times are below it
  Queries      \* [selector, stages, agg] with the request [start, end]

Absent == -1
Values == Texts \cup {Absent}
Promoted == {"service"}             \* and host and env
Sources == {"fields", "json", "logfmt", "regexp"}   \* "nogroup": a regexp without the label

VARIABLES
  query,     \* the query and the request
  plan,      \* the statements so far: streams, logs, join, start, end, source, ok
  extract,   \* where label filters read from
  done       \* matchers and stages compiled

plannerVars == <<query, plan, extract, done>>

NoAgg == [func |-> "none", range |-> 1, by |-> <<>>]
IsRegex(op) == op \in {"=~", "!~"}

-----------------------------------------------------------------------------
(* Postgres: a condition compares a column with an argument; a comparison  *)
(* with NULL does not hold.                                                *)

Compare(v, op, arg) ==
  CASE op = "=" -> v = arg [] op = "!=" -> v # arg
    [] op = ">=" -> v >= arg [] op = "<=" -> v <= arg
    [] op = ">" -> v > arg [] op = "<" -> v < arg
    [] op = "=~" -> v \in arg [] op = "!~" -> v \notin arg

\* coalesce(v, ''), v::numeric if it is one, or v itself.
Cast(form, v) ==
  CASE form = "text" -> IF v = Absent THEN 0 ELSE v
    [] form = "numeric" -> IF v \in DOMAIN Numeric THEN Numeric[v] ELSE Absent
    [] OTHER -> v

Holds(c, row) ==
  LET v == Cast(c.form, row[c.column])
  IN  v # Absent /\ Compare(v, c.op, c.arg)

TimeBucket(width, t) == t - (t % width)

-----------------------------------------------------------------------------
(* The planner.                                                            *)

Cond(column, form, op, arg) == [column |-> column, form |-> form, op |-> op, arg |-> arg]

\* Down to a bucket boundary.
Snap(t, d) == (t \div d) * d

\* Mutant of WidenedEnd: the last bucket is cut off at a boundary as well.
WidenedEndCut(t, d) == Snap(t, d)

WidenedEnd(t, d) == IF Snap(t, d) = t THEN t ELSE Snap(t, d) + d

\* Mutant of Divides: an aggregate serves any wider bucket.
DividesWider(width, range) == width <= range

\* An aggregate's buckets each fall inside one output bucket.
Divides(width, range) == range % width = 0

\* Mutant of Serves: the aggregate is thought to have the fields.
ServesFields(q) == q.agg.func \notin {"none", "bytes"} /\ q.stages = <<>>

\* Only counts, without stages, grouped by what an aggregate has.
Serves(q) ==
  /\ q.agg.func \notin {"none", "bytes"} /\ q.stages = <<>>
  /\ \A i \in DOMAIN q.agg.by : q.agg.by[i] \in {"level"} \cup Promoted

\* chooseSource: the coarsest aggregate that fits, or logs (width 0).
ChooseSource(q) ==
  LET fit == {w \in Grains : Divides(w, q.agg.range)}
  IN  IF Serves(q) /\ fit # {} THEN CHOOSE w \in fit : \A v \in fit : v <= w ELSE 0

\* Compile up to the selector: the range checked and widened to whole buckets.
NewPlan(q) ==
  [streams |-> {}, logs |-> {}, join |-> FALSE, source |-> ChooseSource(q), ok |-> q.end > q.start,
   start |-> IF q.agg.func = "none" THEN q.start ELSE Snap(q.start, q.agg.range),
   end |-> IF q.agg.func = "none" THEN q.end ELSE WidenedEnd(q.end, q.agg.range)]

\* A regular expression on a label is anchored; a search in a message is not.
Anchor(op, value) == IF IsRegex(op) THEN value.whole ELSE value

\* Mutant of MatcherForm: a label that is missing counts as "" for = too.
MatcherFormText(m) == IF m.label \in Promoted THEN "raw" ELSE "text"

\* stmt.matcher: a column, a containment (which a missing label fails), or the
\* label with "" for a missing one.
MatcherForm(m) == IF m.label \in Promoted \/ m.op = "=" THEN "raw" ELSE "text"

\* One turn of the loop over the selector: level is a column of the record.
CompileMatcher(m) ==
  IF m.label = "level"
  THEN plan' = [plan EXCEPT !.logs = @ \cup {Cond("level", "raw", m.op, m.value)}]
  ELSE plan' = [plan EXCEPT !.streams =
                  @ \cup {Cond(m.label, MatcherForm(m), m.op, Anchor(m.op, m.value))}]

\* likeMeta escapes the text's own % and _.
Like(p) == p.literal

\* stmt.lineFilter.
LineFilter(st) ==
  Cond("message", "raw", st.op, IF st.regex THEN st.value.within ELSE Like(st.value))

\* stmt.column: where a label of the pipeline is read.
Column(name) == IF name = "level" \/ name \in Promoted THEN name ELSE extract

\* The extractor of a regexp stage fails for a label that is no group of it.
Extracts(name) == Column(name) # "nogroup"

\* Mutant of FilterForm: a numeral is compared as text.
FilterFormText(st) == "text"

FilterForm(st) == IF st.numeric THEN "numeric" ELSE "text"

\* stmt.labelFilter, and stmt.level for level.
LabelFilter(st) ==
  IF st.label = "level" THEN Cond("level", "raw", st.op, st.value)
  ELSE Cond(Column(st.label), FilterForm(st), st.op,
            IF st.numeric THEN Numeric[st.value] ELSE Anchor(st.op, st.value))

\* One turn of the loop over the stages.
CompileStage(st) ==
  \/ /\ st.kind = "line"
     /\ plan' = [plan EXCEPT !.logs = @ \cup {LineFilter(st)}]
     /\ UNCHANGED extract
  \/ /\ st.kind = "parser"
     /\ extract' = st.parser
     /\ UNCHANGED plan
  \/ /\ st.kind = "label"
     /\ plan' = IF Extracts(st.label)
                THEN [plan EXCEPT !.logs = @ \cup {LabelFilter(st)},
                                  !.join = @ \/ st.label \in Promoted]
                ELSE [plan EXCEPT !.ok = FALSE]
     /\ UNCHANGED extract

Compiled == plan.ok /\ done = Len(query.selector) + Len(query.stages) + 1

\* aggregate: the by columns.
CompileAggregate(by) ==
  plan' = [plan EXCEPT !.join = @ \/ \E i \in DOMAIN by : by[i] \in Promoted,
                       !.ok = \A i \in DOMAIN by : Extracts(by[i])]

PlannerInit ==
  /\ query \in Queries
  /\ plan = NewPlan(query)
  /\ extract = "fields" /\ done = 0

\* Compile: the selector, the stages and, last, the aggregation, up to the first error.
PlannerNext ==
  /\ plan.ok /\ ~Compiled /\ done' = done + 1 /\ UNCHANGED query
  /\ LET n == Len(query.selector)
         k == Len(query.stages)
     IN  \/ done < n /\ CompileMatcher(query.selector[done + 1]) /\ UNCHANGED extract
         \/ done \in n .. (n + k - 1) /\ CompileStage(query.stages[done - n + 1])
         \/ done = n + k /\ CompileAggregate(query.agg.by) /\ UNCHANGED extract

-----------------------------------------------------------------------------
(* The evaluator.                                                          *)

\* NewEvaluator: a selector and line filters only.
Evaluates == query.agg.func = "none" /\ \A i \in DOMAIN query.stages : query.stages[i].kind = "line"

\* labelPred and textPred.
LabelPred(m, labels) ==
  IF m.op = "=" THEN labels[m.label] = m.value
  ELSE Compare(IF labels[m.label] = Absent THEN 0 ELSE labels[m.label], m.op, Anchor(m.op, m.value))

MatchStream(labels) ==
  \A i \in DOMAIN query.selector :
    query.selector[i].label # "level" => LabelPred(query.selector[i], labels)

\* linePred: ToLower and Contains, or a search.
LinePred(st, message) ==
  LET found == message \in (IF st.regex THEN st.value.within ELSE st.value.literal)
  IN  found = (st.op = "=~")

\* levelPred, and the line filters.
MatchRecord(rec) ==
  /\ \A i \in DOMAIN query.selector :
       query.selector[i].label = "level" => Compare(rec.level, query.selector[i].op, query.selector[i].value)
  /\ \A i \in DOMAIN query.stages : LinePred(query.stages[i], rec.message)

-----------------------------------------------------------------------------
(* Properties.                                                             *)

StreamRows == [service : Texts, region : Values]

\* Records whose label is found in one place, with another value in the others.
Records ==
  {[level |-> l, message |-> m, service |-> s, fields |-> 1, json |-> 2, logfmt |-> 3, regexp |-> Absent] :
     l \in Levels, m \in Messages, s \in Texts}
  \cup
  {[[level |-> 1, message |-> 1, service |-> 1, fields |-> 1, json |-> 1, logfmt |-> 1, regexp |-> 1]
      EXCEPT ![src] = v] : src \in Sources, v \in Values}

\* Live tail and a query agree on every stream and every record: the evaluator
\* mirrors the planner's SQL predicate for predicate, missing labels, anchoring
\* and escaping included ("a record the tail shows and the query would not find,
\* or the reverse, is a bug", match.go 10-14).
TailAgrees ==
  Compiled /\ Evaluates =>
    /\ \A labels \in StreamRows : (\A c \in plan.streams : Holds(c, labels)) <=> MatchStream(labels)
    /\ \A rec \in Records : (\A c \in plan.logs : Holds(c, rec)) <=> MatchRecord(rec)

\* What ast.go (31-43) says a label filter means: the value comes from the
\* nearest parser stage before it, else from the fields; a missing label is ""
\* in a text comparison and never passes a numeric one.
Means(i, rec) ==
  LET st == query.stages[i]
      before == {j \in 1 .. (i - 1) : query.stages[j].kind = "parser"}
      src == IF before = {} THEN "fields"
             ELSE query.stages[CHOOSE j \in before : \A k \in before : k <= j].parser
      v == rec[IF st.label \in {"level", "service"} THEN st.label ELSE src]
  IN  CASE st.kind = "line" -> LinePred(st, rec.message)
        [] st.kind = "parser" -> TRUE
        [] st.label = "level" -> Compare(v, st.op, st.value)
        [] st.numeric -> v \in DOMAIN Numeric /\ Compare(Numeric[v], st.op, Numeric[st.value])
        [] OTHER -> Compare(IF v = Absent THEN 0 ELSE v, st.op, Anchor(st.op, st.value))

\* The logs statement keeps exactly the records that pass every stage.
StagesMeanWhatTheySay ==
  Compiled /\ (\A i \in DOMAIN query.selector : query.selector[i].label # "level") =>
    \A rec \in Records :
      (\A c \in plan.logs : Holds(c, rec)) <=> \A i \in DOMAIN query.stages : Means(i, rec)

\* The statement reads no column its source lacks: streams' own only under the
\* join, and of an aggregate only bucket, level and the count (plan.go 187-194).
ReadsWhatIsThere ==
  Compiled =>
    LET read == {c.column : c \in plan.logs}
                  \cup {IF l \in Promoted \cup {"level"} THEN l ELSE extract :
                          l \in {query.agg.by[i] : i \in DOMAIN query.agg.by}}
                  \cup (IF query.agg.func = "bytes" THEN {"message"} ELSE {})
    IN  /\ read \cap Promoted # {} => plan.join
        /\ plan.source # 0 => read \subseteq {"level"} \cup Promoted

\* An answer from a continuous aggregate is the answer from the logs: at every
\* time a record may have, it is counted in the same bucket or left out by both
\* (chooseSource and the widening in Compile, plan.go 101-106 and 187-212).
SourceIsExact ==
  plan.ok /\ plan.source # 0 =>
    \A t \in 0 .. (Horizon - 1) :
      LET rolled == TimeBucket(plan.source, t)
          Counted(x) == IF x >= plan.start /\ x < plan.end THEN TimeBucket(query.agg.range, x) ELSE Absent
      IN  Counted(rolled) = Counted(t)

\* The range is widened outward to whole buckets and no further: the first and
\* the last point are complete (plan.go 69-72).
WidenedToBuckets ==
  plan.ok /\ query.agg.func # "none" =>
    /\ plan.start <= query.start /\ query.start < plan.start + query.agg.range
    /\ query.end <= plan.end /\ plan.end < query.end + query.agg.range
    /\ TimeBucket(query.agg.range, plan.start) = plan.start /\ TimeBucket(query.agg.range, plan.end) = plan.end

=============================================================================
