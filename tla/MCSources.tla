----------------------------- MODULE MCSources ------------------------------
(* Instances of Tail and Docker for TLC: two sources of one agent that share *)
(* nothing, so a behaviour follows one of them and the other stands still.   *)
(* Of the tailer there are two instances: one with more rotations, crashes   *)
(* and truncations, one with a longer file.                                  *)
EXTENDS Tail, Docker

CONSTANTS LongUnits, LongEvents

VARIABLE part

L == INSTANCE Tail WITH MaxUnits <- LongUnits, MaxEvents <- LongEvents

all == <<part, vars, dockerVars>>

TailPart(A) == part \in {"tail", "long"} /\ A /\ UNCHANGED <<part, dockerVars>>
DockerPart(A) == part = "docker" /\ A /\ UNCHANGED <<part, vars>>

MCInit == part \in {"tail", "long", "docker"} /\ Init /\ DockerInit
MCNext ==
  \/ TailPart(part = "tail" /\ Next) \/ TailPart(part = "long" /\ L!Next)
  \/ DockerPart(DockerNext)

MCSpec ==
  /\ MCInit /\ [][MCNext]_all
  /\ WF_all(TailPart(TailerStep) \/ DockerPart(Connect \/ Receive))
  /\ WF_all(TailPart(Recreate))

\* The tailer loses no line silently: what lies before its offset was emitted,
\* a rotation drains the old file, and a generation missed while the agent was
\* down is counted.
TailLosesNothing == NoSilentLoss /\ RotationDrains /\ LossIsCounted

\* A line that is read again has its old seq and text, from whatever position
\* a restart resumed.
ReplayIsStable == (IF part = "long" THEN L!TypeOK ELSE TypeOK) /\ ReplaySameSeq

\* Truncation is told from growth: an append is never taken for a rewrite, and
\* a rewrite is overlooked only where there was no fingerprint to compare.
RewritesNoticed == [][NoFalseAlarm' /\ BlindOnlyWhenUnknown]_all

\* Once files, connections and processes are left alone, every complete line of
\* the file and every line of the container has been emitted.
SourcesCatchUp == <>[](part # "docker" => CaughtUp) /\ EveryLineArrives

=============================================================================
