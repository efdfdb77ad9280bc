------------------------------ MODULE Collector ------------------------------
(***************************************************************************)
(* The collector process: run in src/cmd/collector/main.go, and the        *)
(* readiness registry it serves (src/internal/observability/health.go).    *)
(*                                                                         *)
(* The startup is a list of stages, any of which may fail; then one errgroup *)
(* runs the listeners, the join and the shutdown, which is a list of steps *)
(* under one deadline.  What each component does in its step is the        *)
(* business of its own module; here a step ends well or with an error.     *)
(***************************************************************************)
EXTENDS Integers, Sequences

Stages ==
  <<"tracing", "migrate", "pool", "writer", "queue", "payload", "cluster", "ingest", "consumer">>
Steps ==
  <<"deregister", "leave", "peer", "ingest", "consumer", "api", "writer", "admin", "tracing">>

VARIABLES
  clustered,    \* cfg.Cluster.Enabled
  stage,        \* startup stages completed; Len(Stages) + 1 once the group runs
  signal,       \* SIGINT or SIGTERM was received
  checks,       \* Health.checks
  group,        \* the goroutines of g that have not returned
  groupErr,     \* the first error one of them returned
  step,         \* shutdown steps completed; 0 before <-gctx.Done()
  broken,       \* what ended with an error: a step, a listener
  queueOpen,    \* the broker connection
  advertised,   \* this node is in the ring, ready, as its peers see it
  exit          \* the exit status, or running

collectorVars == <<clustered, stage, signal, checks, group, groupErr, step, broken,
                   queueOpen, advertised, exit>>

StillRuns == exit = "running"
Starting == StillRuns /\ stage <= Len(Stages)
Reached(s) == \E i \in 1 .. Len(Stages) : Stages[i] = s /\ stage >= i
Done(s) == \E i \in 1 .. Len(Steps) : Steps[i] = s /\ step >= i

\* gctx: a signal, or a goroutine of the group that failed.
GroupCanceled == signal \/ groupErr # "none"

Listeners == {"http", "admin", "ingest", "peer"}

\* Mutant of StepOf: no step shuts the admin server down.
StepOfNoAdmin(l) == CASE l = "http" -> "api" [] l = "admin" -> "none" [] OTHER -> l

\* The step that shuts a listener's server down.
StepOf(l) == IF l = "http" THEN "api" ELSE l

-----------------------------------------------------------------------------
(* Health.                                                                 *)

\* Mutant of CheckNames: the queue is not one of the dependencies.
CheckNamesFew(s) == IF s = "pool" THEN {"database"} ELSE {}

\* The check a startup stage registers.
CheckNames(s) == CASE s = "pool" -> {"database"} [] s = "payload" -> {"queue"} [] OTHER -> {}

\* ReadyHandler: no registered check fails; down is what is not answering.
Ready(down) == checks \cap down = {}

-----------------------------------------------------------------------------
(* Startup.                                                                *)

\* One stage of run succeeds.  A single node has no cluster stage.
Start ==
  /\ Starting /\ stage < Len(Stages)
  /\ stage' = stage + 1
  /\ checks' = checks \cup CheckNames(Stages[stage'])
  /\ queueOpen' = (queueOpen \/ Stages[stage'] = "queue")
  /\ UNCHANGED <<clustered, signal, group, groupErr, step, broken, advertised, exit>>

\* A stage fails, on its own or because the signal canceled its context: run
\* returns, and the deferred calls close what is open.
StartFails ==
  /\ Starting /\ stage < Len(Stages)
  /\ exit' = "error" /\ queueOpen' = FALSE
  /\ UNCHANGED <<clustered, stage, signal, checks, group, groupErr, step, broken, advertised>>

\* The group: the join, the listeners and the shutdown.
Go ==
  /\ Starting /\ stage = Len(Stages)
  /\ stage' = stage + 1
  /\ group' = {"http", "admin", "ingest", "shutdown"} \cup (IF clustered THEN {"join", "peer"} ELSE {})
  /\ UNCHANGED <<clustered, signal, checks, groupErr, step, broken, queueOpen, advertised, exit>>

Signal ==
  /\ StillRuns /\ ~signal
  /\ signal' = TRUE
  /\ UNCHANGED <<clustered, stage, checks, group, groupErr, step, broken, queueOpen, advertised, exit>>

-----------------------------------------------------------------------------
(* The group.                                                              *)

Returns(g, err) ==
  /\ g \in group
  /\ group' = group \ {g}
  /\ groupErr' = IF groupErr = "none" THEN err ELSE groupErr

\* Join settles - a seed answers, or JoinTimeout passes - and SetReady(true) is
\* broadcast, which memberlist ignores once this node has left.
JoinReturns ==
  /\ Returns("join", "none")
  /\ advertised' = ~Done("leave")
  /\ UNCHANGED <<clustered, stage, signal, checks, step, broken, queueOpen, exit>>

\* The context ends while no seed has answered: the last dial error is returned.
JoinInterrupted ==
  /\ GroupCanceled
  /\ Returns("join", "join")
  /\ UNCHANGED <<clustered, stage, signal, checks, step, broken, queueOpen, advertised, exit>>

\* A listener fails, in Listen or later.
ListenerFails(l) ==
  /\ ~Done(StepOf(l))
  /\ Returns(l, "listener")
  /\ broken' = broken \cup {"listener"}
  /\ UNCHANGED <<clustered, stage, signal, checks, step, queueOpen, advertised, exit>>

\* A server that was shut down returns nil from Serve, also when the shutdown
\* came before the call.
ListenerStops(l) ==
  /\ Done(StepOf(l))
  /\ Returns(l, "none")
  /\ UNCHANGED <<clustered, stage, signal, checks, step, broken, queueOpen, advertised, exit>>

\* The steps that can fail; a single node has no ring to leave.
Applies(s) == s # "deregister" /\ (s \in {"leave", "peer"} => clustered)

\* Mutant of Step: the peers are told after the peer service has stopped.
StepLate(ok) ==
  LET s == Steps[step + 1]
  IN  /\ "shutdown" \in group /\ GroupCanceled /\ step < Len(Steps)
      /\ ok \/ Applies(s)
      /\ step' = step + 1
      /\ checks' = IF s = "deregister" THEN checks \ {"database", "queue"} ELSE checks
      /\ advertised' = (advertised /\ s # "ingest")
      /\ broken' = IF ok THEN broken ELSE broken \cup {"step"}
      /\ UNCHANGED <<clustered, stage, signal, group, groupErr, queueOpen, exit>>

\* One step of the shutdown, within the deadline or cut off by it.  An error is
\* noted and the next step still runs.  Leaving tells the peers even when it
\* ends with a timeout.
Step(ok) ==
  LET s == Steps[step + 1]
  IN  /\ "shutdown" \in group /\ GroupCanceled /\ step < Len(Steps)
      /\ ok \/ Applies(s)
      /\ step' = step + 1
      /\ checks' = IF s = "deregister" THEN checks \ {"database", "queue"} ELSE checks
      /\ advertised' = (advertised /\ s # "leave")
      /\ broken' = IF ok THEN broken ELSE broken \cup {"step"}
      /\ UNCHANGED <<clustered, stage, signal, group, groupErr, queueOpen, exit>>

ShutdownReturns ==
  /\ step = Len(Steps)
  /\ Returns("shutdown", IF "step" \in broken THEN "step" ELSE "none")
  /\ UNCHANGED <<clustered, stage, signal, checks, step, broken, queueOpen, advertised, exit>>

Status == IF groupErr = "none" THEN "zero" ELSE "error"

\* Mutant of Exit: a signal ends the process without g.Wait.
ExitOnSignal ==
  /\ StillRuns /\ stage > Len(Stages) /\ (signal \/ group = {})
  /\ queueOpen' = FALSE
  /\ exit' = Status
  /\ UNCHANGED <<clustered, stage, signal, checks, group, groupErr, step, broken, advertised>>

\* g.Wait, the deferred closes - the broker connection last - and the exit.
Exit ==
  /\ StillRuns /\ stage > Len(Stages) /\ group = {}
  /\ queueOpen' = FALSE
  /\ exit' = Status
  /\ UNCHANGED <<clustered, stage, signal, checks, group, groupErr, step, broken, advertised>>

-----------------------------------------------------------------------------

CollectorInit ==
  /\ clustered \in BOOLEAN
  /\ stage = 0 /\ signal = FALSE /\ checks = {} /\ group = {} /\ groupErr = "none"
  /\ step = 0 /\ broken = {} /\ queueOpen = FALSE /\ advertised = FALSE /\ exit = "running"

\* What the process does by itself once it runs; every step of the shutdown is
\* bounded by the deadline, and Join by JoinTimeout.
Proceeds ==
  \/ Start \/ Go \/ Exit \/ ShutdownReturns
  \/ JoinReturns
  \/ \E l \in Listeners : ListenerStops(l)
  \/ \E ok \in BOOLEAN : Step(ok)

CollectorNext ==
  \/ Proceeds
  \/ StartFails \/ Signal \/ JoinInterrupted
  \/ \E l \in Listeners : ListenerFails(l)

CollectorSpec == CollectorInit /\ [][CollectorNext]_collectorVars /\ WF_collectorVars(Proceeds)

-----------------------------------------------------------------------------
(* Properties.                                                             *)

CollectorTypeOK ==
  /\ stage \in 0 .. Len(Stages) + 1 /\ step \in 0 .. Len(Steps)
  /\ checks \subseteq {"database", "queue"}
  /\ group \subseteq Listeners \cup {"join", "shutdown"}
  /\ exit \in {"running", "zero", "error"}

\* A node says it is ready only if it looked at everything it depends on: the
\* checks are registered before the port that serves /readyz is bound, and stay
\* until the shutdown begins.
ReadyIsInformed ==
  "http" \in group /\ step = 0 =>
    \A down \in SUBSET {"database", "queue"} : Ready(down) <=> down = {}

\* Peers are told before this node stops answering them: a node that is ready
\* in the ring has its peer service, its API and its consumer up (main.go
\* 232-240 and 368-372).
AdvertisedAnswers ==
  advertised => /\ Reached("consumer")
                /\ ~\E s \in {"peer", "ingest", "consumer", "api"} : Done(s)

\* An exit status of zero means a signal, every listener up to its shutdown and
\* every step within the deadline; and a signal alone, but for a join it
\* interrupts, gives zero (main.go 409-418).
StatusIsHonest ==
  stage > Len(Stages) =>
    /\ exit = "zero" => signal /\ broken = {} /\ step = Len(Steps)
    /\ exit = "error" => broken # {} \/ groupErr = "join"

\* The process says what is so: /readyz looks at the database and the queue
\* until the shutdown begins, a node its peers believe ready answers them, and
\* the exit status tells a clean shutdown from a failure (main.go 232-418).
ProcessHonest == CollectorTypeOK /\ ReadyIsInformed /\ AdvertisedAnswers /\ StatusIsHonest

\* A signal or a failed listener ends the process, at whatever point of the
\* startup it comes and whichever steps fail.
Ended == signal \/ broken # {} => ~StillRuns
CollectorExits == <>[]Ended

\* Shutdown withdraws readiness first, so that a load balancer stops sending
\* work: "Deregister the readiness checks, so a load balancer stops sending
\* work to this node before it stops being able to do it" (main.go 346-349).
ReadinessWithdrawn ==
  Done("deregister") /\ StillRuns => \A down \in SUBSET {"database", "queue"} : ~Ready(down)

=============================================================================
