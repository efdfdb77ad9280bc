------------------------------- MODULE Docker -------------------------------
(***************************************************************************)
(* DockerSource of src/internal/agent/docker.go: the log stream of one     *)
(* container, read over connections that end at any byte, resumed from the *)
(* timestamp of the last line seen, and from the checkpoint after a        *)
(* restart of the agent.                                                   *)
(*                                                                         *)
(* A line of the container is the instant the daemon stamped it with;      *)
(* several lines may share one.  The daemon's side (the log it keeps, what *)
(* Since selects, where a connection breaks) is the environment.           *)
(***************************************************************************)
EXTENDS Integers, Sequences, FiniteSets, FiniteSetsExt

CONSTANTS
  Second,      \* ticks of the clock to a second, the daemon's coarsest Since
  MaxLines, MaxCuts, MaxRestarts    \* bounds

ASSUME DockerAssumption == Second \in Nat \ {0} /\ MaxLines \in Nat

VARIABLES
  log,       \* the container's lines: the instants they are stamped with
  now,       \* the clock
  conn,      \* 0, or the line the connection delivers next
  since,     \* Run's since
  emitted,   \* what this process sent: the line, whether whole, its instant
  settled,   \* lines acknowledged to earlier processes
  resume,    \* the offset in the checkpoint
  counts     \* parse failures counted, connections cut, restarts

dockerVars == <<log, now, conn, since, emitted, settled, resume, counts>>

Unparsed == 0      \* a fragment without a whole timestamp is no line

-----------------------------------------------------------------------------
(* The container and the daemon.                                           *)

\* The container writes a line, at a later instant than the last or the same.
WriteLine(tick) ==
  /\ Len(log) < MaxLines
  /\ now' = now + tick
  /\ log' = Append(log, now')
  /\ UNCHANGED <<conn, since, emitted, settled, resume, counts>>

\* The lines the daemon delivers for a Since: from that instant on, or from
\* the beginning of its second; all of them when none is given.
Granted(s) == {s, s - (s % Second)}

FirstFrom(s) ==
  IF \E i \in DOMAIN log : log[i] >= s
    THEN CHOOSE i \in DOMAIN log : log[i] >= s /\ \A j \in 1 .. (i - 1) : log[j] < s
    ELSE Len(log) + 1

-----------------------------------------------------------------------------
(* Run and readOnce.                                                       *)

\* A connection, after however many failed ones and the backoff between them.
Connect ==
  /\ conn = 0
  /\ \E s \in (IF since > 0 THEN Granted(since) ELSE {0}) : conn' = FirstFrom(s)
  /\ UNCHANGED <<log, now, since, emitted, settled, resume, counts>>

\* readLines, toLine and readOnce's two channels, for a line in one piece.
Receive ==
  /\ conn \in DOMAIN log
  /\ since' = log[conn]
  /\ emitted' = Append(emitted, [line |-> conn, whole |-> TRUE, at |-> log[conn]])
  /\ conn' = conn + 1
  /\ UNCHANGED <<log, now, settled, resume, counts>>

\* Mutant of Hangup: the end of the stream is the end of the input.
HangupIsEnd == MaxLines + 2

\* The connection ends: the container stopped, the daemon dropped it.  Run
\* goes back to connecting.
Hangup == 0

\* The stream ends between two lines.
CutClean ==
  /\ conn > 0 /\ counts.cuts < MaxCuts
  /\ conn' = Hangup
  /\ counts' = [counts EXCEPT !.cuts = @ + 1]
  /\ UNCHANGED <<log, now, since, emitted, settled, resume>>

\* The stream ends inside a message: the fragment is emitted as it is.
CutInMessage ==
  /\ conn \in DOMAIN log /\ counts.cuts < MaxCuts
  /\ since' = log[conn]
  /\ emitted' = Append(emitted, [line |-> conn, whole |-> FALSE, at |-> log[conn]])
  /\ conn' = Hangup
  /\ counts' = [counts EXCEPT !.cuts = @ + 1]
  /\ UNCHANGED <<log, now, settled, resume>>

\* The stream ends inside a timestamp, which does not parse: the fragment is
\* stamped with the time of observation, and that is where reading resumes.
\* Mutant of CutInTimestamp: it is not counted.
CutUncounted ==
  /\ conn \in DOMAIN log /\ counts.cuts < MaxCuts
  /\ since' = now
  /\ emitted' = Append(emitted, [line |-> Unparsed, whole |-> FALSE, at |-> now])
  /\ conn' = Hangup
  /\ counts' = [counts EXCEPT !.cuts = @ + 1]
  /\ UNCHANGED <<log, now, settled, resume>>

CutInTimestamp ==
  /\ conn \in DOMAIN log /\ counts.cuts < MaxCuts
  /\ since' = now
  /\ emitted' = Append(emitted, [line |-> Unparsed, whole |-> FALSE, at |-> now])
  /\ conn' = Hangup
  /\ counts' = [counts EXCEPT !.cuts = @ + 1, !.failures = @ + 1]
  /\ UNCHANGED <<log, now, settled, resume>>

\* The lines that are whole among some of those emitted.
Whole(indices) == {emitted[i].line : i \in {j \in indices : emitted[j].whole}}

\* Mutant of ResumeAt: the cursor of the last line that was only read.
ResumeAtRead(n) == Max({resume, since})

\* The cursor committed once the first n lines sent were acked.
ResumeAt(n) == Max({resume} \cup {emitted[i].at : i \in 1 .. n})

\* The agent restarts: the first n lines it sent were acked and the latest of
\* their cursors committed; NewDockerSource starts from that.
Restart(n) ==
  /\ counts.restarts < MaxRestarts
  /\ settled' = settled \cup Whole(1 .. n)
  /\ resume' = ResumeAt(n)
  /\ since' = resume'
  /\ conn' = 0 /\ emitted' = <<>>
  /\ counts' = [counts EXCEPT !.restarts = @ + 1]
  /\ UNCHANGED <<log, now>>

-----------------------------------------------------------------------------

DockerInit ==
  /\ log = <<>> /\ now = 1 /\ conn = 0 /\ since = 0 /\ resume = 0
  /\ emitted = <<>> /\ settled = {}
  /\ counts = [failures |-> 0, cuts |-> 0, restarts |-> 0]

DockerNext ==
  \/ \E tick \in 0 .. 1 : WriteLine(tick)
  \/ Connect \/ Receive \/ CutClean \/ CutInMessage \/ CutInTimestamp
  \/ \E n \in 0 .. Len(emitted) : Restart(n)

DockerSpec == DockerInit /\ [][DockerNext]_dockerVars

\* Run keeps reconnecting and reading for as long as the agent runs.
DockerFairness == WF_dockerVars(Connect) /\ WF_dockerVars(Receive)

-----------------------------------------------------------------------------
(* Properties.                                                             *)

Seen == settled \cup Whole(DOMAIN emitted)

\* Run's resumption by timestamp: across any number of reconnections and
\* restarts, and lines that share an instant, every line older than the
\* instant Run would resume from has been emitted in one piece or settled,
\* unless a timestamp that did not parse was counted.
SkipIsCounted ==
  counts.failures = 0 => \A i \in DOMAIN log : log[i] < since => i \in Seen

\* The checkpoint: what a restart resumes from never skips a line that was
\* not acknowledged, under the same exception.
ResumeIsSafe ==
  counts.failures = 0 => \A i \in DOMAIN log : log[i] < resume => i \in settled

\* DockerSource skips no line by its timestamp without counting it, when it
\* reconnects and when it resumes from the checkpoint.
ContainerLosesNothing == SkipIsCounted /\ ResumeIsSafe

\* A container that stops, restarts or is cut off is read again, to its last
\* line.
EveryLineArrives ==
  <>[](Len(log) = MaxLines => DOMAIN log \subseteq Seen \/ counts.failures > 0)

\* Run's comment: a reconnect redelivers rather than risk "silently dropping a
\* genuinely distinct line that happens to share a timestamp with the one
\* before it".  Storage keeps the first row of each (seq, time), which for
\* this source is the instant alone.
DistinctLinesStored ==
  \A i \in DOMAIN emitted : \A k \in 1 .. (i - 1) :
    emitted[k].at = emitted[i].at => emitted[k].whole /\ emitted[k].line = emitted[i].line

=============================================================================
