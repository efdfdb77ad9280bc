------------------------------ MODULE MCSpool -------------------------------
(* Instances of Spool: one whose process is killed and whose file operations  *)
(* fail but whose disk keeps everything, and two shorter ones that lose power *)
(* and meet failing writes and removals, the second of them evicting.         *)
EXTENDS Spool

CONSTANTS PowerFaults, PowerEntries

VARIABLE mode     \* crash, power, tight

\* One segment takes all entries; or two, and there is room for one segment.
P == INSTANCE Spool WITH Faults <- PowerFaults, MaxEntries <- PowerEntries, Sizes <- {1}
T == INSTANCE Spool WITH
  Faults <- PowerFaults, MaxEntries <- PowerEntries, Sizes <- {1}, SegmentBytes <- 2, MaxBytes <- 2

all == <<mode, up, segments, consumedEntries, consumedBytes, nextSeq, tail, releasesSincePersist,
         persisting, files, cursorFile, powerCursors, nextId, departed, returned, recorded,
         powerLost, stops>>

MCSpec ==
  /\ mode \in {"crash", "power", "tight"} /\ Init
  /\ [][/\ UNCHANGED mode
         /\ \/ mode = "crash" /\ Next
            \/ mode = "power" /\ P!Next
            \/ mode = "tight" /\ T!Next]_all

\* What NewSpool, Append, Peek, Release and eviction keep in memory is true of
\* the files: the total stays within MaxBytes and, where the disk keeps what was
\* written, it is the size on disk, a backlog is always within Peek's reach and
\* no entry disappears but by release or eviction.
BookkeepingExact ==
  /\ TypeOK /\ (IF mode = "tight" THEN T!WithinMaxBytes ELSE WithinMaxBytes)
  /\ mode = "crash" => BytesAreDiskSize /\ PeekReachesBacklog /\ NothingVanishes

\* Whatever the disk lost, replay follows the order of appending and a torn
\* write spoils its own segment only (recover and Peek, spool.go 238-600).
OrderKept == QueueInOrder /\ DamageIsLocal

\* A release recorded with an fsync is never undone and, where the cursor file
\* can always be replaced, a crash replays fewer than cursorDurableInterval
\* entries (Release, spool.go 607-655).
ReleasesStick == DurableReleaseSticks /\ (mode # "crash" => FirstReplayBounded)

\* FifoSpec, where there is no power loss: the spool is the abstract FIFO,
\* through every crash and failing file operation.
CrashFifo == INSTANCE SpoolFifo WITH
  head <- IF mode = "crash" THEN FifoHead ELSE 0,
  last <- IF mode = "crash" THEN nextId - 1 ELSE 0,
  safe <- IF mode = "crash" THEN recorded ELSE 0
CrashSafeFifo == CrashFifo!Spec
=============================================================================
