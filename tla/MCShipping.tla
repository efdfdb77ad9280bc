----------------------------- MODULE MCShipping -----------------------------
(* Two instances of Shipper: two sources with streams of their own through a  *)
(* crash, failing spool operations and refusals; and three sources, two on    *)
(* one stream and one without labels, with every kind of line and answer, a   *)
(* rotation, a small spool and a small window, in one process.                *)
EXTENDS MCShipper

VARIABLE mode     \* crash, crowd

H == INSTANCE Shipper WITH
  Labels <- SharedStream, LineKinds <- {"valid", "invalid", "huge"}, Fits <- BOOLEAN,
  AckWindow <- 2, AckCodes <- {"ACCEPTED", "OVERLOADED", "INVALID", "INTERNAL"},
  SpoolCap <- 2, SpoolFaults <- {}, PauseOutlastsAcks <- FALSE, RotateAfter <- 1,
  MaxFaults <- 2, MaxRestarts <- 0

all == <<mode, sh, phase, next, committed, restarts>>

MCSpec ==
  /\ \/ mode = "crash" /\ Init
     \/ mode = "crowd" /\ H!Init
  /\ [][UNCHANGED mode /\ ((mode = "crash" /\ Next) \/ (mode = "crowd" /\ H!Next))]_all

\* What the shipper keeps of its batches is true of the spool, in both instances:
\* spoolMeta has the cursors of the entries in the spool, in their order.
StateAligned == MetaAligned /\ (IF mode = "crash" THEN TypeOK ELSE H!TypeOK)

\* CheckpointSafe, under the timing assumption PauseOutlastsAcks.
CheckpointIsSafe == mode = "crash" => CheckpointSafe

\* NothingInLimbo, where the spool does not evict an entry that is being sent.
NoneInLimbo == mode = "crash" => NothingInLimbo
=============================================================================
