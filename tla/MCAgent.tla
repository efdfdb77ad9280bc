------------------------------ MODULE MCAgent -------------------------------
(* Instances of Pipeline and Shipper for TLC, with the fairness of both: a    *)
(* behaviour follows the goroutines of the agent process, or its shipper      *)
(* through a restart, and the other stands still in its initial state.        *)
EXTENDS MCPipeline

CONSTANTS MaxBatchRecords, AckWindow, MaxLine, MaxShipperFaults, MaxRestarts

VARIABLES part, sh, phase, next, committed, restarts

S == INSTANCE Shipper WITH
  Labels <- [s \in {"s1"} |-> 1],
  LineKinds <- {"valid"}, Fits <- {TRUE}, AckCodes <- {"ACCEPTED", "OVERLOADED", "INVALID"},
  SpoolCap <- 9, SpoolFaults <- {"append", "corrupt"}, PauseOutlastsAcks <- TRUE,
  RotateAfter <- 9, MaxFaults <- MaxShipperFaults

pipeVars == <<setup, src, chan, closed, relay, joiner, shipper, main, admin, panic>>
shipVars == <<sh, phase, next, committed, restarts>>
all == <<part, pipeVars, shipVars>>

Pipe(A) == part = "pipeline" /\ A /\ UNCHANGED <<part, shipVars>>
Ship(A) == part = "shipper" /\ A /\ UNCHANGED <<part, pipeVars>>

StillShipper == sh = S!InitShipper /\ phase = "run" /\ next = 0 /\ committed = 0 /\ restarts = 0

MCInit ==
  \/ part = "pipeline" /\ Init /\ StillShipper
  \/ part = "shipper" /\ Init /\ setup = (CHOOSE s \in Setups : TRUE) /\ S!Init

MCNext == Pipe(Next) \/ Ship(S!Next)

\* LiveSpec and FairSpec.  Actions share a conjunct when only one of them can be
\* enabled until the phase of the shipper changes: those of the two parts, and
\* those of the shipper's run, of its shutdown and of the time between processes.
MCSpec ==
  /\ MCInit /\ [][MCNext]_all
  /\ WF_all(\/ Pipe(SourceStep("file"))
            \/ Ship(S!ShutdownFinish \/ \E s \in S!SourceNames : S!AddLine(s, "valid", TRUE)))
  /\ WF_all(Pipe(SourceStep("stdin")) \/ Ship(S!AccumTimer \/ S!Restart))
  /\ WF_all(Pipe(RelayStep) \/ Ship(S!ConnectRetry))
  /\ WF_all(Pipe(JoinerStep) \/ Ship(S!PauseExpires))
  /\ WF_all(Pipe(ShipperStep) \/ Ship(S!AckArrives \/ S!ShutdownAck))
  /\ WF_all(Pipe(MainStep) \/ Ship(S!ShutdownWaitEnds))
  /\ WF_all(\/ Pipe(DeadlinePasses)
            \/ Ship(\E code \in {"ACCEPTED", "OVERLOADED", "INVALID"} : S!CollectorAnswers(code)))

\* Answers are taken in step: no more than AckWindow batches await one, and the
\* committed checkpoint never moves back within one generation of a file.
AckDiscipline == [][part = "shipper" => S!WithinAckWindow' /\ S!Advancing]_all

\* The agent gets on with it: a stop ends, a quiet source's last record ships
\* and, with a finite number of faults, every line the shipper took is in the
\* end durable at the collector or counted dropped.
AgentSettles == <>[](StopDone /\ QuietShipped /\ (part = "shipper" => S!Settled))
=============================================================================
