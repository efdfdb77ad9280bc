------------------------------- MODULE Spool -------------------------------
(***************************************************************************)
(* The agent's on-disk spool, src/internal/agent/spool.go: a bounded FIFO  *)
(* of opaque payloads kept in segment files, with a read cursor in a file  *)
(* of its own.                                                             *)
(*                                                                         *)
(* The model keeps the in-memory bookkeeping (segments, consumedEntries,   *)
(* consumedBytes, nextSeq, tail, releasesSincePersist) apart from what is  *)
(* on disk (files, cursorFile), because every hazard of this code is a     *)
(* disagreement between the two.  A payload is an identifier and the size  *)
(* of its encoded entry; a half-written entry is an item with ok = FALSE,  *)
(* and an item that has already survived a power loss has safe = TRUE.     *)
(* The process may be killed at any point (what it wrote stays); the other *)
(* faults happen only when named in Faults:                                *)
(*   "open"    a segment file cannot be created                            *)
(*   "write"   a write to the tail fails, possibly after some bytes        *)
(*   "remove"  os.Remove of a segment fails                                *)
(*   "persist" the cursor file cannot be replaced                          *)
(*   "power"   power loss: data never fsynced may be missing               *)
(***************************************************************************)
EXTENDS Integers, Sequences, FiniteSets, SequencesExt

CONSTANTS
  Sizes,                   \* sizes of an encoded entry (header + payload)
  SegmentBytes, MaxBytes,  \* SpoolConfig
  CursorDurableInterval,   \* cursorDurableInterval
  Faults,                  \* environment faults that may happen
  MaxEntries, MaxStops     \* bounds: entries appended, crashes and closes

ASSUME SpoolAssumption ==
  /\ Sizes \subseteq Nat \ {0}
  /\ {SegmentBytes, MaxBytes, CursorDurableInterval} \subseteq Nat \ {0}
  /\ Faults \subseteq {"open", "write", "remove", "persist", "power"}
  /\ {MaxEntries, MaxStops} \subseteq Nat

VARIABLES
  \* In memory, meaningless while the process is down.
  up, segments, consumedEntries, consumedBytes, nextSeq, tail,
  releasesSincePersist,
  persisting,    \* the cursor Release is about to write, after unlocking
  \* On disk.
  files,         \* sequence number -> items of that segment file
  cursorFile,    \* what loadCursorFile would read
  powerCursors,  \* what it might read after a power loss instead
  \* History.
  nextId,        \* number of entries written whole, plus one
  departed,      \* entries released or evicted
  returned,      \* entries whose Release has returned
  recorded,      \* the last entry whose Release the cursor file records for good
  powerLost,     \* entries a power loss took from the disk
  stops          \* crashes and closes so far

memory == <<segments, consumedEntries, consumedBytes, nextSeq, tail,
            releasesSincePersist, persisting>>
disk   == <<files, cursorFile, powerCursors>>
history == <<nextId, departed, returned, recorded, powerLost, stops>>
vars   == <<up, memory, disk, history>>

NoCursor  == [segment |-> -1, offset |-> 0]
NoPersist == [cursor |-> NoCursor, durable |-> FALSE, id |-> 0]

-----------------------------------------------------------------------------
(* Segments and files.                                                     *)

BytesOf(items) == FoldLeft(LAMBDA n, item : n + item.size, 0, items)
TotalBytes(segs) == FoldLeft(LAMBDA n, seg : n + seg.bytes, 0, segs)
EntriesIn(segs) == FoldLeft(LAMBDA n, seg : n + seg.entries, 0, segs)
Whole(items) == SelectSeq(items, LAMBDA item : item.ok)
IdsOf(items) == {item.id : item \in ToSet(Whole(items))}
From(s, i) == SubSeq(s, i, Len(s))
Without(f, S) == [n \in DOMAIN f \ S |-> f[n]]

\* os.Remove of the files numbered S: those in the result are really removed.
Removals(S) == IF "remove" \in Faults THEN SUBSET S ELSE {S}

\* Mutant of ScanEntries: an entry that starts exactly at the limit counts too.
ScanEntriesPastLimit(items, limit) ==
  LET ends == {n \in 0 .. Len(items) :
                 /\ \A i \in 1 .. n : items[i].ok
                 /\ \A i \in 1 .. n : BytesOf(SubSeq(items, 1, i - 1)) <= limit}
  IN  Max(ends)

\* scanEntries: how many whole valid entries start before byte `limit`.
ScanEntries(items, limit) ==
  LET ends == {n \in 0 .. Len(items) :
                 /\ \A i \in 1 .. n : items[i].ok
                 /\ \A i \in 1 .. n : BytesOf(SubSeq(items, 1, i - 1)) < limit}
  IN  Max(ends)

\* Mutant of ConsumedSize: the last of them is not counted.
ConsumedSizeShort(items, n) == BytesOf(SubSeq(items, 1, n - 1))

\* recoverCursor: the read position after n entries, on an entry's boundary.
ConsumedSize(items, n) == BytesOf(SubSeq(items, 1, n))

\* Mutant of Truncate: a torn tail is left in the file.
KeepTorn(items, n) == items

\* os.Truncate of a segment to its first n entries, by recover.
Truncate(items, n) == SubSeq(items, 1, n)

\* Mutant of Older: segment names that do not sort chronologically.
Newer(m, n) == m > n

\* The order in which recover meets the segments: os.ReadDir sorts by name, and
\* segmentFileName pads to a fixed width, so names sort like numbers.
Older(m, n) == m < n

SpoolLen == EntriesIn(segments) - consumedEntries

\* peekEntryLocked: the indices of the entry readable at consumedBytes of
\* segments[0]; none when the reader has caught up, and none either when the
\* bytes found there are not a whole entry (Peek then returns an error).
PeekEntry ==
  IF segments = <<>> \/ consumedBytes >= Head(segments).bytes
    THEN {}
    ELSE LET items == files[Head(segments).seq]
         IN  {i \in DOMAIN items :
                /\ BytesOf(SubSeq(items, 1, i - 1)) = consumedBytes
                /\ items[i].ok}

\* Mutant of Consumed: the boundary is missed by one byte.
ConsumedPast(consumed, seg) == consumed > seg.bytes

\* Release has reached the end of the segment.
Consumed(consumed, seg) == consumed >= seg.bytes

\* Mutant of EvictCount: the bound may be exceeded by one byte.
EvictCountLate(segs) ==
  IF segs = <<>>
    THEN 0
    ELSE Min({k \in 0 .. Len(segs) - 1 :
                TotalBytes(From(segs, k + 1)) <= MaxBytes + 1 \/ k = Len(segs) - 1})

\* Mutant of EvictCount: the segment just written is not spared.
EvictCountAll(segs) == IF TotalBytes(segs) <= MaxBytes THEN 0 ELSE Len(segs)

\* enforceMaxBytesLocked: how many of the oldest segments go.
EvictCount(segs) ==
  IF segs = <<>>
    THEN 0
    ELSE Min({k \in 0 .. Len(segs) - 1 :
                TotalBytes(From(segs, k + 1)) <= MaxBytes \/ k = Len(segs) - 1})

\* Mutant of PendingCursor: the offset points one byte too early.
PendingCursorBehind(segs, consumed, next) ==
  IF segs = <<>> THEN [segment |-> next, offset |-> 0]
                 ELSE [segment |-> Head(segs).seq, offset |-> consumed - 1]

\* pendingCursorLocked, for given segments, consumed bytes and next number.
PendingCursor(segs, consumed, next) ==
  IF segs = <<>> THEN [segment |-> next, offset |-> 0]
                 ELSE [segment |-> Head(segs).seq, offset |-> consumed]

\* The entries Len counts, oldest first, as they are on disk.
Queue ==
  LET live == FlattenSeq([i \in DOMAIN segments |->
                SubSeq(Whole(files[segments[i].seq]), 1, segments[i].entries)])
  IN  From(live, consumedEntries + 1)

\* How many entries had left before the oldest one still waiting.
FifoHead == IF Queue = <<>> THEN nextId - 1 ELSE Head(Queue).id - 1

-----------------------------------------------------------------------------
(* Append: roll to a new segment when the entry does not fit beside what   *)
(* the tail holds, write it without fsync, then evict.                     *)

NeedNew(size) ==
  segments # <<>> => /\ Last(segments).bytes > 0
                     /\ Last(segments).bytes + size > SegmentBytes

\* openNewTailLocked succeeds: the file number is new (O_EXCL).
OpenedSegments(size) ==
  IF NeedNew(size)
    THEN Append(segments, [seq |-> nextSeq, entries |-> 0, bytes |-> 0])
    ELSE segments
OpenedFiles(size) ==
  IF NeedNew(size) THEN files @@ (nextSeq :> <<>>) ELSE files
CanOpen(size) == NeedNew(size) => nextSeq \notin DOMAIN files

SpoolAppend(size) ==
  /\ up
  /\ nextId <= MaxEntries
  /\ CanOpen(size) /\ (~NeedNew(size) => tail)
  /\ LET opened == OpenedSegments(size)
         entry  == [id |-> nextId, size |-> size, ok |-> TRUE, safe |-> FALSE]
         segs   == [opened EXCEPT ![Len(opened)].entries = @ + 1,
                                  ![Len(opened)].bytes = @ + size]
         wrote  == [OpenedFiles(size) EXCEPT ![Last(opened).seq] = Append(@, entry)]
         k      == EvictCount(segs)
         gone   == {segs[i].seq : i \in 1 .. k}
     IN  /\ segments' = From(segs, k + 1)
         /\ consumedEntries' = IF k = 0 THEN consumedEntries ELSE 0
         /\ consumedBytes' = IF k = 0 THEN consumedBytes ELSE 0
         /\ \E removed \in Removals(gone) : files' = Without(wrote, removed)
         /\ departed' = departed \cup UNION {IdsOf(wrote[n]) : n \in gone}
  /\ nextSeq' = IF NeedNew(size) THEN nextSeq + 1 ELSE nextSeq
  /\ tail' = TRUE
  /\ nextId' = nextId + 1
  /\ UNCHANGED <<up, releasesSincePersist, persisting, cursorFile, powerCursors,
                 returned, recorded, powerLost, stops>>

\* The new segment cannot be created: the previous tail handle is already
\* closed, and stays so until an entry that needs a new segment arrives.
AppendOpenFails(size) ==
  /\ up
  /\ NeedNew(size)
  /\ "open" \in Faults \/ ~CanOpen(size)
  /\ tail' = FALSE
  /\ UNCHANGED <<up, segments, consumedEntries, consumedBytes, nextSeq,
                 releasesSincePersist, persisting, disk, history>>

\* Write stops after `written` bytes of the entry: the segment was opened and
\* those bytes are in the file, but no bookkeeping is updated for them.
TornWrite(size, written) ==
  /\ CanOpen(size) /\ (~NeedNew(size) => tail)
  /\ written < size
  /\ LET opened == OpenedSegments(size)
         torn   == IF written = 0 THEN <<>>
                   ELSE <<[id |-> 0, size |-> written, ok |-> FALSE, safe |-> FALSE]>>
     IN  /\ segments' = opened
         /\ files' = [OpenedFiles(size) EXCEPT ![Last(opened).seq] = @ \o torn]
  /\ nextSeq' = IF NeedNew(size) THEN nextSeq + 1 ELSE nextSeq
  /\ tail' = TRUE
  /\ UNCHANGED <<consumedEntries, consumedBytes, releasesSincePersist, persisting,
                 cursorFile, powerCursors, returned, recorded, powerLost>>

\* The caller drops a payload that Append refused.
AppendWriteFails(size, written) ==
  /\ up
  /\ "write" \in Faults
  /\ nextId <= MaxEntries
  /\ TornWrite(size, written)
  /\ nextId' = nextId + 1
  /\ departed' = departed \cup {nextId}
  /\ UNCHANGED <<up, stops>>

-----------------------------------------------------------------------------
(* Release: take the oldest entry under the lock, then persist the cursor  *)
(* after unlocking.  Only one Release runs at a time.                      *)

\* Mutant of DurableDue: the interval is off by one.
DurableDueLate(boundary) == boundary \/ releasesSincePersist + 1 > CursorDurableInterval

\* This release is the one that writes the cursor with fsync.
DurableDue(boundary) == boundary \/ releasesSincePersist + 1 >= CursorDurableInterval

SpoolRelease ==
  /\ up
  /\ persisting = NoPersist
  /\ \E i \in PeekEntry :
       LET first    == Head(segments)
           item     == files[first.seq][i]
           consumed == consumedBytes + item.size
           boundary == Consumed(consumed, first)
           durable  == DurableDue(boundary)
           segs     == IF boundary THEN Tail(segments) ELSE segments
       IN  /\ segments' = segs
           /\ consumedEntries' = IF boundary THEN 0 ELSE consumedEntries + 1
           /\ consumedBytes' = IF boundary THEN 0 ELSE consumed
           /\ \E removed \in Removals(IF boundary THEN {first.seq} ELSE {}) :
                files' = Without(files, removed)
           /\ releasesSincePersist' = IF durable THEN 0 ELSE releasesSincePersist + 1
           /\ persisting' = [cursor  |-> PendingCursor(segs, consumedBytes', nextSeq),
                             durable |-> durable,
                             id      |-> item.id]
           /\ departed' = departed \cup {item.id}
  /\ UNCHANGED <<up, nextSeq, tail, cursorFile, powerCursors, nextId, returned,
                 recorded, powerLost, stops>>

\* Release with nothing to release is a no-op.
SpoolReleaseNothing == up /\ persisting = NoPersist /\ PeekEntry = {} /\ UNCHANGED vars

\* Mutant of WriteCursor: the durable write forgets its fsync.
WriteCursorNoSync(cursor, durable) ==
  /\ cursorFile' = cursor
  /\ powerCursors' = powerCursors \cup {cursor}

\* writeAtomic: replace the cursor file.  Without fsync, a power loss may bring
\* back any earlier cursor down to the last fsynced one.
WriteCursor(cursor, durable) ==
  /\ cursorFile' = cursor
  /\ powerCursors' = IF durable THEN {cursor} ELSE powerCursors \cup {cursor}

\* A cursor written without fsync is lost by a power loss only.
Lasting(durable) == durable \/ "power" \notin Faults

ReleasePersist ==
  /\ up
  /\ persisting # NoPersist
  /\ \/ /\ WriteCursor(persisting.cursor, persisting.durable)
        /\ recorded' = IF Lasting(persisting.durable) THEN persisting.id ELSE recorded
     \/ /\ "persist" \in Faults
        /\ UNCHANGED <<cursorFile, powerCursors, recorded>>
  /\ returned' = returned \cup {persisting.id}
  /\ persisting' = NoPersist
  /\ UNCHANGED <<up, segments, consumedEntries, consumedBytes, nextSeq, tail,
                 releasesSincePersist, files, nextId, departed, powerLost, stops>>

-----------------------------------------------------------------------------
(* Stopping and starting.                                                  *)

\* Close persists the cursor durably and drops the tail handle.
SpoolClose ==
  /\ up
  /\ persisting = NoPersist
  /\ stops < MaxStops
  /\ \/ /\ WriteCursor(PendingCursor(segments, consumedBytes, nextSeq), TRUE)
        /\ recorded' = FifoHead
     \/ /\ "persist" \in Faults
        /\ UNCHANGED <<cursorFile, powerCursors, recorded>>
  /\ up' = FALSE
  /\ tail' = FALSE
  /\ stops' = stops + 1
  /\ UNCHANGED <<segments, consumedEntries, consumedBytes, nextSeq,
                 releasesSincePersist, persisting, files, nextId, departed,
                 returned, powerLost>>

\* The process is killed between two calls, or in Release before it persists.
Crash ==
  /\ up
  /\ stops < MaxStops
  /\ up' = FALSE
  /\ stops' = stops + 1
  /\ UNCHANGED <<memory, disk, nextId, departed, returned, recorded, powerLost>>

\* It is killed in Append, with part of the entry written.
CrashInAppend(size, written) ==
  /\ up
  /\ stops < MaxStops
  /\ nextId <= MaxEntries
  /\ TornWrite(size, written)
  /\ up' = FALSE
  /\ stops' = stops + 1
  /\ UNCHANGED <<nextId, departed>>

\* The host loses power: each segment file keeps a prefix of what was written,
\* since Append never fsyncs, and the cursor file is one of powerCursors.
PowerLoss ==
  /\ up
  /\ "power" \in Faults
  /\ stops < MaxStops
  /\ \E kept \in [DOMAIN files -> 0 .. MaxEntries] :
       /\ \A n \in DOMAIN files :
            /\ kept[n] <= Len(files[n])
            /\ \A i \in DOMAIN files[n] : files[n][i].safe => i <= kept[n]
       /\ files' = [n \in DOMAIN files |->
                      [i \in 1 .. kept[n] |-> [files[n][i] EXCEPT !.safe = TRUE]]]
       /\ powerLost' = powerLost \cup
            UNION {IdsOf(From(files[n], kept[n] + 1)) : n \in DOMAIN files}
  /\ cursorFile' \in powerCursors
  /\ powerCursors' = {cursorFile'}
  /\ up' = FALSE
  /\ stops' = stops + 1
  /\ UNCHANGED <<memory, nextId, departed, returned, recorded>>

\* NewSpool: recover the segments (dropping empty ones, truncating torn tails),
\* apply the cursor, delete what is older than it, evict, reopen the tail.
NewSpool ==
  /\ ~up
  /\ LET valid   == [n \in DOMAIN files |-> ScanEntries(files[n], BytesOf(files[n]))]
         scanned == [n \in DOMAIN files |-> Truncate(files[n], valid[n])]
         empty   == {n \in DOMAIN files : valid[n] = 0}
         found   == SetToSortSeq(DOMAIN files \ empty, Older)
         all     == [i \in DOMAIN found |-> [seq     |-> found[i],
                                             entries |-> valid[found[i]],
                                             bytes   |-> BytesOf(SubSeq(files[found[i]], 1, valid[found[i]]))]]
         next    == IF all = <<>> THEN 0 ELSE Last(all).seq + 1
         cursor  == cursorFile
         old     == {n \in DOMAIN files \ empty : n < cursor.segment}
         segs    == SelectSeq(all, LAMBDA seg : seg.seq >= cursor.segment)
         entries == IF segs # <<>> /\ Head(segs).seq = cursor.segment
                      THEN ScanEntries(scanned[cursor.segment], cursor.offset)
                      ELSE 0
         k       == EvictCount(segs)
         gone    == {segs[i].seq : i \in 1 .. k}
     IN  /\ segments' = From(segs, k + 1)
         /\ consumedEntries' = IF k = 0 THEN entries ELSE 0
         /\ consumedBytes' =
              IF k = 0 /\ entries > 0
                THEN ConsumedSize(scanned[cursor.segment], entries) ELSE 0
         /\ nextSeq' = IF cursor.segment >= next THEN cursor.segment + 1 ELSE next
         /\ tail' = (segs # <<>>)
         /\ \E removed \in Removals(empty \cup old \cup gone) :
              files' = Without([n \in DOMAIN files |->
                                 IF n \in empty THEN files[n] ELSE scanned[n]], removed)
         /\ departed' = departed \cup UNION {IdsOf(scanned[n]) : n \in gone}
  /\ releasesSincePersist' = 0
  /\ persisting' = NoPersist
  /\ up' = TRUE
  /\ UNCHANGED <<cursorFile, powerCursors, nextId, returned, recorded, powerLost, stops>>

-----------------------------------------------------------------------------
Init ==
  /\ up = TRUE
  /\ segments = <<>> /\ consumedEntries = 0 /\ consumedBytes = 0
  /\ nextSeq = 0 /\ tail = FALSE /\ releasesSincePersist = 0
  /\ persisting = NoPersist
  /\ files = <<>> /\ cursorFile = NoCursor /\ powerCursors = {NoCursor}
  /\ nextId = 1 /\ departed = {} /\ returned = {} /\ recorded = 0
  /\ powerLost = {} /\ stops = 0

Next ==
  \/ \E size \in Sizes :
       \/ SpoolAppend(size)
       \/ AppendOpenFails(size)
       \/ \E written \in 0 .. size - 1 :
            AppendWriteFails(size, written) \/ CrashInAppend(size, written)
  \/ SpoolRelease \/ SpoolReleaseNothing \/ ReleasePersist
  \/ SpoolClose \/ Crash \/ PowerLoss \/ NewSpool

Spec == Init /\ [][Next]_vars

-----------------------------------------------------------------------------
(* Properties.                                                             *)

Cursors == [segment : Int, offset : Nat]

\* Types of the bookkeeping and of the disk; the open handle, the number of
\* consumed entries and the files of all live segments exist when they must.
TypeOK ==
  /\ {up, tail} \subseteq BOOLEAN
  /\ segments \in Seq([seq : Nat, entries : Nat, bytes : Nat])
  /\ {consumedEntries, consumedBytes, nextSeq, releasesSincePersist, recorded, stops}
       \subseteq Nat
  /\ persisting \in [cursor : Cursors, durable : BOOLEAN, id : Nat]
  /\ DOMAIN files \subseteq Nat
  /\ \A n \in DOMAIN files :
       files[n] \in Seq([id : Nat, size : Nat \ {0}, ok : BOOLEAN, safe : BOOLEAN])
  /\ cursorFile \in Cursors /\ powerCursors \subseteq Cursors
  /\ nextId \in 1 .. MaxEntries + 1
  /\ departed \cup returned \subseteq 1 .. MaxEntries
  /\ up => {segments[i].seq : i \in DOMAIN segments} \subseteq DOMAIN files

\* Every entry Append accepted is still waiting, was released or evicted, or
\* was taken from the disk by a power loss: recovery never skips an entry that
\* nobody released (recoverCursor, "it can never skip data that was never
\* released").
NothingVanishes ==
  up => 1 .. nextId - 1 \subseteq departed \cup powerLost \cup IdsOf(Queue)

\* While Len reports a backlog, Peek finds its oldest entry, whole: ok=false
\* only "once the reader has caught up with everything appended so far", and
\* the bytes at the read position are never torn.
PeekReachesBacklog ==
  up /\ SpoolLen > 0 =>
    \E i \in PeekEntry : files[Head(segments).seq][i] = Head(Queue)

\* A write that failed halfway (Append returned its error) spoils the segment
\* it hit and no other: until the process restarts, a backlog whose oldest
\* segment is intact can be read.
DamageIsLocal ==
  stops = 0 /\ SpoolLen > 0 /\ (\A i \in DOMAIN files[Head(segments).seq] :
                           files[Head(segments).seq][i].ok) =>
    \E i \in PeekEntry : i = consumedEntries + 1

\* segmentInfo.bytes "is always the exact on-disk size of the file".
BytesAreDiskSize ==
  up => \A i \in DOMAIN segments : segments[i].bytes = BytesOf(files[segments[i].seq])

\* Entries wait in the order in which Append accepted them, across restarts
\* ("lexical order stays chronological"), whatever was lost in between.
QueueInOrder ==
  up => \A i, j \in DOMAIN Queue : i < j => Queue[i].id < Queue[j].id

\* enforceMaxBytesLocked keeps the segments within MaxBytes, except for a
\* single one that is too large by itself.
WithinMaxBytes ==
  up => TotalBytes(segments) <= MaxBytes \/ Len(segments) <= 1

\* An entry whose Release the cursor recorded for good is never handed out
\* again, whatever the crashes that follow (Release, writeAtomic).
DurableReleaseSticks == up => \A id \in IdsOf(Queue) : id > recorded

\* cursorDurableInterval: "at most cursorDurableInterval-1 already-released
\* entries ... can be re-read on the next restart".
ReplayBounded ==
  up => Cardinality(IdsOf(Queue) \cap returned) <= CursorDurableInterval - 1

\* The same bound for the first crash of an installation, where it holds.
FirstReplayBounded == stops <= 1 => ReplayBounded

\* Without a power loss or a failed write the spool is a FIFO, whatever crashes
\* and failing file operations do to it: a restart replays only entries whose
\* Release had not replaced the cursor file yet.
Fifo == INSTANCE SpoolFifo WITH
  head <- FifoHead, last <- nextId - 1, safe <- recorded
FifoSpec == Fifo!Spec
=============================================================================
