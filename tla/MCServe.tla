------------------------------ MODULE MCServe -------------------------------
(* Instances for TLC of the modules on the serving side of a collector.  They *)
(* share nothing while they run, but for the query that is routed by the      *)
(* ring, so a behaviour follows one part and the others stand still: the      *)
(* membership; one query while the membership changes; the life of the        *)
(* process; a query text in the lexer, the parser or the planner; a tail.     *)
EXTENDS Coordinator, Collector, LiveTail, MCQuery

CONSTANTS MaxText, Texts, Messages, Levels, Grains, Horizon

VARIABLES
  part,
  text, off, tok,
  at, label, op, by, heads,
  compiling, plan, extract, done

X == INSTANCE Lexer
G == INSTANCE Parser
P == INSTANCE Planner WITH Queries <- ToCompile, Numeric <- NumericText, query <- compiling

memberVars == <<state, view, ring, restarts>>
askVars == <<request, pc, ids, routed, shards, results, pos, res, ctx>>
lexVars == <<text, off, tok>>
parseVars == <<at, label, op, by, heads>>
planVars == <<compiling, plan, extract, done>>
liveVars == <<query, tail, broker, registry, published, due>>
all == <<part, memberVars, askVars, collectorVars, lexVars, parseVars, planVars, liveVars>>

\* Two nodes' tokens collide, at 5.
MCTokenHash == [p \in Nodes \X Indices |-> (<<5, 2, 6, 0, 5, 3>>)[p[1] + 3 * p[2]]]

\* Three streams, rows of one time in two of them, and of one time and seq.
Row(stream, time, seq, g) == [stream |-> stream, time |-> time, seq |-> seq, group |-> g]
MCRows ==
  {Row(0, 1, 1, 1), Row(0, 2, 2, 2), Row(2, 1, 1, 1), Row(2, 2, 5, 1), Row(6, 2, 1, 1), Row(6, 3, 2, 2)}
Request(agg, forward, limit) == [agg |-> agg, forward |-> forward, limit |-> limit]
MCRequests ==
  {Request(TRUE, TRUE, 1), Request(FALSE, FALSE, 2), Request(FALSE, TRUE, 0)}

-----------------------------------------------------------------------------

Members(A) ==
  part = "members" /\ A
    /\ UNCHANGED <<part, askVars, collectorVars, lexVars, parseVars, planVars, liveVars>>
Asking(A) == part = "query" /\ A /\ UNCHANGED <<part, collectorVars, lexVars, parseVars, planVars, liveVars>>
Process(A) ==
  part = "process" /\ A
    /\ UNCHANGED <<part, memberVars, askVars, lexVars, parseVars, planVars, liveVars>>
Lexing(A) ==
  part = "lexer" /\ A
    /\ UNCHANGED <<part, memberVars, askVars, collectorVars, parseVars, planVars, liveVars>>
Parsing(A) ==
  part = "parser" /\ A
    /\ UNCHANGED <<part, memberVars, askVars, collectorVars, lexVars, planVars, liveVars>>
Planning(A) ==
  part = "planner" /\ A
    /\ UNCHANGED <<part, memberVars, askVars, collectorVars, lexVars, parseVars, liveVars>>
Tailing(A) ==
  part = "tail" /\ A
    /\ UNCHANGED <<part, memberVars, askVars, collectorVars, lexVars, parseVars, planVars>>

\* A part that is not followed stands in one of its initial states.
NoQuery ==
  /\ request = (CHOOSE r \in Requests : TRUE) /\ pc = "plan" /\ ids = {} /\ routed = {}
  /\ shards = <<>> /\ results = <<>> /\ pos = <<>> /\ res = NoResult /\ ctx = "live"

\* Only strings and numbers have more to them than three characters show.
Structured(t) == Len(t) = MaxText => t[1] \in {"dq", "1"}

MCInit ==
  /\ part \in {"members", "query", "process", "lexer", "parser", "planner", "tail"}
  /\ IF part = "query" THEN Init ELSE ClusterInit /\ NoQuery
  /\ CollectorInit /\ (part # "process" => ~clustered)
  /\ IF part = "lexer" THEN X!LexerInit /\ Structured(text) ELSE text = <<>> /\ off = 1 /\ tok = X!Lexeme("none", 1, 1)
  /\ G!ParserInit
  /\ IF part = "planner" THEN P!PlannerInit
     ELSE compiling = 0 /\ plan = 0 /\ extract = 0 /\ done = 0
  /\ TailInit /\ (part # "tail" => query = [c \in Clients |-> CHOOSE q \in Queries : TRUE])

MCNext ==
  \/ Members(ClusterNext) \/ Asking(Next) \/ Process(CollectorNext)
  \/ Lexing(X!LexerNext) \/ Parsing(G!ParserNext) \/ Planning(P!PlannerNext)
  \/ Tailing(TailNext)

\* ClusterFairness, the fairness of Spec and CollectorSpec, and TailFairness;
\* actions of parts that exclude one another share a conjunct.
MCSpec ==
  /\ MCInit /\ [][MCNext]_all
  /\ WF_all(\/ Members(\E n, m \in Nodes : Gossip(n, m)) \/ Asking(Progress)
            \/ Process(Proceeds) \/ Tailing(\E c \in Clients : Deliver(c)))
  /\ \A c \in Clients : WF_all(Tailing(EndOne(c))) /\ WF_all(Tailing(Handler(c)))

-----------------------------------------------------------------------------

\* The ring's accounts are exact after every change: arcs and shares measure what
\* each member is routed, and the transfers logged are the keys that move
\* (ring.go 115-190).
RingMeasures == [][part = "members" => Rebuilt]_memberVars

\* An answer is the one a single node would have given over the streams that
\* were searched, and a stream is left out only because its peer failed while
\* the query was still wanted (coordinator.go 50-282).
AnswersExact ==
  /\ part \in {"members", "query"} => ClusterTypeOK /\ TypeOK
  /\ FanoutInvisible /\ PartialHasAReason

\* The lexer returns the longest token there is, of its kind, and the parser
\* accepts the documented grammar, no more and no less (ast.go 7).
ReadsTheLanguage ==
  /\ part = "lexer" => X!TokensAreLongest
  /\ part = "parser" => G!ImplementsGrammar

\* A compiled query means what the language says: live tail and the database
\* select the same streams and records (match.go 10-14), every stage keeps the
\* records it should, over columns that are there, and a continuous aggregate
\* over the widened range counts what the logs would (plan.go 69-212).
CompilesFaithfully ==
  part = "planner" =>
    /\ P!TailAgrees /\ P!StagesMeanWhatTheySay /\ P!ReadsWhatIsThere
    /\ P!SourceIsExact /\ P!WidenedToBuckets

\* Everything that is begun ends: once nodes stop coming and going all see the
\* same members; a query is answered though a peer never replies; a signal or a
\* failed listener ends the collector; records in flight are dealt with though
\* a client stalls; a closed registry's handlers return, and tell their clients.
EverythingEnds ==
  /\ [][part = "tail" => Announced]_liveVars
  /\ <>[](/\ part = "members" => Converged
          /\ part = "query" => pc = "done"
          /\ part = "process" => Ended
          /\ part = "tail" => WorkedOff /\ EndedOnceClosed)

=============================================================================
