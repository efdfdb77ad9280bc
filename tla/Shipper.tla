------------------------------ MODULE Shipper ------------------------------
(***************************************************************************)
(* The agent's shipper, src/internal/agent/shipper.go: one goroutine that  *)
(* batches lines, sends batches to a collector over a stream, spools what  *)
(* it cannot send, and advances the checkpoint when acks come back.        *)
(*                                                                         *)
(* Run's select loop is one goroutine, so each case of the select is one   *)
(* atomic action here.  Inside a case the environment may still choose:    *)
(* Send may fail, Append may evict or fail, and a call in the middle of    *)
(* the case may tear the stream down.  The helpers therefore map a shipper *)
(* state (a record, the fields of the Shipper struct and the state of what *)
(* it talks to) to the SET of states they may leave it in.                 *)
(*                                                                         *)
(* Around the shipper: the spool is the FIFO that module SpoolFifo states  *)
(* and module Spool is checked against, with a capacity in entries; the    *)
(* checkpoint store is a value in memory and a committed one; the stream   *)
(* is a FIFO of batches one way and of acks the other; the collector       *)
(* answers batches strictly in order, with any code (ingest handler).      *)
(* A line is its source and its number in that source.                     *)
(***************************************************************************)
EXTENDS Integers, Sequences, FiniteSets, SequencesExt

CONSTANTS
  Labels,           \* source -> label set (a number), or 0 when unresolved
  LineKinds,        \* what a line may turn out to be: "valid", "invalid", "huge"
  Fits,             \* whether a record may fit beside the ones batched: BOOLEANs
  MaxBatchRecords, AckWindow,
  AckCodes,         \* codes the collector may answer with
  SpoolCap,         \* spooled entries past which Append evicts
  SpoolFaults,      \* subset of {"append", "corrupt"}
  PauseOutlastsAcks,\* the pause after OVERLOADED ends only once every batch
                    \* already sent was answered (a timing assumption)
  RotateAfter,      \* lines in the first generation of each file
  \* Bounds.
  MaxLine, MaxFaults, MaxRestarts

SourceNames == DOMAIN Labels
Lines == SourceNames \X (1 .. MaxLine)

ASSUME ShipperAssumption ==
  /\ \A src \in SourceNames : Labels[src] \in Nat
  /\ LineKinds \subseteq {"valid", "invalid", "huge"}
  /\ Fits \subseteq BOOLEAN /\ PauseOutlastsAcks \in BOOLEAN
  /\ AckCodes \subseteq {"ACCEPTED", "OVERLOADED", "INVALID", "INTERNAL"}
  /\ SpoolFaults \subseteq {"append", "corrupt"}
  /\ {MaxBatchRecords, AckWindow, SpoolCap} \subseteq Nat \ {0}
  /\ {RotateAfter, MaxLine, MaxFaults, MaxRestarts} \subseteq Nat

VARIABLES
  sh,        \* the shipper and what it talks to, see InitShipper
  phase,     \* "run", "drain" and "finish" (shutdown), "done", "panic", "down"
  next,      \* per source, the number of the next line it will deliver
  committed, \* the checkpoint on disk
  restarts

vars == <<sh, phase, next, committed, restarts>>

NoCursors == <<>>      \* a nil or empty map of per-source cursors
NoEntries == [records |-> {}, cursors |-> NoCursors]

\* faults counts down what the environment may still do wrong; accepted and
\* dropped are history: lines durable at the collector, lines counted dropped.
InitShipper ==
  [stream |-> FALSE, connectRetry |-> FALSE, sendPaused |-> FALSE,
   accums |-> <<>>, pendingAcks |-> <<>>, spool |-> <<>>, spoolMeta |-> <<>>,
   checkpoint |-> [src \in SourceNames |-> 0],
   wire |-> <<>>, acks |-> <<>>, faults |-> MaxFaults,
   accepted |-> {}, dropped |-> {}]

ForAll(S, Op(_)) == UNION {Op(x) : x \in S}
LinesOf(batches) == UNION {b.records : b \in ToSet(batches)}
From(q, i) == SubSeq(q, i, Len(q))

-----------------------------------------------------------------------------
(* Checkpoint.  A cursor is the line it points past; File and Offset are   *)
(* the parts of it that advanceCheckpoint compares.                        *)

File(n) == IF n <= RotateAfter THEN 1 ELSE 2
Offset(n) == IF n <= RotateAfter THEN n ELSE n - RotateAfter

\* Mutant of Stale: nothing is ever behind.
NeverStale(current, n) == FALSE

\* The guard of advanceCheckpoint.
Stale(current, n) ==
  current # 0 /\ File(n) = File(current) /\ Offset(n) < Offset(current)

AdvanceCheckpoint(s, cursors) ==
  [s EXCEPT !.checkpoint = [src \in SourceNames |->
     IF src \in DOMAIN cursors /\ ~Stale(@[src], cursors[src])
       THEN cursors[src] ELSE @[src]]]

-----------------------------------------------------------------------------
(* Spool and its parallel spoolMeta.                                       *)

\* Append evicts only from the front and never the entry it just added.
Evictions(n) == IF n <= SpoolCap THEN {0} ELSE (n - SpoolCap) .. (n - 1)

\* Mutant of TrimMeta: evictions are not reported to the shipper.
KeepMeta(meta, evicted) == meta

TrimMeta(meta, evicted) == From(meta, evicted + 1)

AppendToSpool(s, b) ==
  {LET entries == Append(s.spool, b)
   IN  [s EXCEPT !.spool = From(entries, evicted + 1),
                 !.spoolMeta = TrimMeta(Append(@, b.cursors), evicted),
                 !.dropped = @ \cup LinesOf(SubSeq(entries, 1, evicted))]
     : evicted \in Evictions(Len(s.spool) + 1)}
  \cup
  IF "append" \in SpoolFaults /\ s.faults > 0
    THEN {[s EXCEPT !.dropped = @ \cup b.records, !.faults = @ - 1]} ELSE {}

\* spool.Release and popSpoolMeta: both are no-ops on an empty queue.
ReleaseHead(s) ==
  [s EXCEPT !.spool = From(@, 2), !.spoolMeta = From(@, 2)]

DemoteOutstanding(S, outstanding) ==
  FoldLeft(LAMBDA T, o : IF o.fromSpool THEN T
                         ELSE ForAll(T, LAMBDA t : AppendToSpool(t, o.batch)),
           S, outstanding)

-----------------------------------------------------------------------------
(* The stream.                                                             *)

\* The stream is gone: of the batches on it, the collector may have made any
\* prefix durable, and no ack will be read any more.
LoseStream(s) ==
  {[s EXCEPT !.wire = <<>>, !.acks = <<>>,
             !.accepted = @ \cup LinesOf(SubSeq(s.wire, 1, k))] : k \in 0 .. Len(s.wire)}

\* Mutant of TeardownStream: no reconnection is scheduled.
TeardownNoRetry(s) ==
  {[t EXCEPT !.pendingAcks = <<>>, !.stream = FALSE]
     : t \in DemoteOutstanding(LoseStream(s), s.pendingAcks)}

TeardownStream(s) ==
  {[t EXCEPT !.pendingAcks = <<>>, !.stream = FALSE, !.connectRetry = TRUE]
     : t \in DemoteOutstanding(LoseStream(s), s.pendingAcks)}

\* The batch counts as outstanding whether or not Send reports an error.
SendNow(s, b, fromSpool) ==
  LET t == [s EXCEPT !.pendingAcks = Append(@, [batch |-> b, fromSpool |-> fromSpool])]
  IN  {[t EXCEPT !.wire = Append(@, b)]}
      \cup IF s.faults > 0 THEN TeardownStream([t EXCEPT !.faults = @ - 1]) ELSE {}

\* Mutant of MustSpool: a fresh batch may overtake the spooled ones.
MayOvertake(s) == ~s.stream \/ s.sendPaused \/ Len(s.pendingAcks) >= AckWindow

\* Mutant of MustSpool: the ack window is off by one.
WindowOffByOne(s) ==
  ~s.stream \/ s.sendPaused \/ s.spool # <<>> \/ Len(s.pendingAcks) > AckWindow

\* The condition of dispatch.
MustSpool(s) ==
  ~s.stream \/ s.sendPaused \/ s.spool # <<>> \/ Len(s.pendingAcks) >= AckWindow

Dispatch(s, b) == IF MustSpool(s) THEN AppendToSpool(s, b) ELSE SendNow(s, b, FALSE)

\* Entries at the head that do not unmarshal are dropped first.
DropCorrupt(s) ==
  {[s EXCEPT !.spool = From(@, k + 1), !.spoolMeta = From(@, k + 1),
             !.dropped = @ \cup LinesOf(SubSeq(s.spool, 1, k)), !.faults = @ - k]
     : k \in IF "corrupt" \in SpoolFaults
             THEN {k \in 0 .. Len(s.spool) : k <= s.faults} ELSE {0}}

SendSpoolHead(s) ==
  IF s.spool = <<>>
    THEN {s}
    ELSE SendNow(s, [records |-> Head(s.spool).records, cursors |-> Head(s.spoolMeta)], TRUE)

\* Mutant of TryDrainSpool: the backlog waits for a restart.
DrainNothing(s) == {s}

\* Mutant of TryDrainSpool: it does not wait for the answers still due.
DrainEager(s) ==
  IF ~s.stream \/ s.sendPaused THEN {s} ELSE ForAll(DropCorrupt(s), SendSpoolHead)

TryDrainSpool(s) ==
  IF ~s.stream \/ s.sendPaused \/ s.pendingAcks # <<>>
    THEN {s}
    ELSE ForAll(DropCorrupt(s), SendSpoolHead)

TryConnect(s) ==
  TryDrainSpool([s EXCEPT !.stream = TRUE])
  \cup IF s.faults > 0 THEN {[s EXCEPT !.connectRetry = TRUE, !.faults = @ - 1]} ELSE {}

-----------------------------------------------------------------------------
(* processAck: the ack belongs to the oldest outstanding batch, whichever  *)
(* batch the collector meant.                                              *)

\* demoteRemaining: the batch answered and all those behind it.
DemoteRemaining(s, o) ==
  {[t EXCEPT !.pendingAcks = <<>>]
     : t \in DemoteOutstanding({s}, <<o>> \o s.pendingAcks)}

OnAccepted(s, o) ==
  LET t == AdvanceCheckpoint(s, o.batch.cursors)
  IN  {IF o.fromSpool THEN ReleaseHead(t) ELSE t}

OnOverloaded(s, o) ==
  {[t EXCEPT !.sendPaused = TRUE] : t \in DemoteRemaining(s, o)}

OnInvalid(s, o) ==
  LET t == [s EXCEPT !.dropped = @ \cup o.batch.records]
  IN  {IF o.fromSpool THEN ReleaseHead(t) ELSE t}

OnInternal(s, o) == DemoteRemaining(s, o)

ProcessAck(s, code) ==
  IF s.pendingAcks = <<>>
    THEN {s}
    ELSE LET o == Head(s.pendingAcks)
             t == [s EXCEPT !.pendingAcks = Tail(@)]
         IN  ForAll(CASE code = "ACCEPTED"   -> OnAccepted(t, o)
                      [] code = "OVERLOADED" -> OnOverloaded(t, o)
                      [] code = "INVALID"    -> OnInvalid(t, o)
                      [] code = "INTERNAL"   -> OnInternal(t, o),
                    TryDrainSpool)

-----------------------------------------------------------------------------
(* Accumulators.                                                           *)

\* flushAccum: an accumulator without records has no ack to wait for.
FlushAccum(s, id) ==
  LET a == s.accums[id]
      t == [s EXCEPT !.accums = [l \in DOMAIN @ \ {id} |-> @[l]]]
  IN  IF id \notin DOMAIN s.accums THEN {s}
      ELSE IF a.records = {} THEN {AdvanceCheckpoint(t, a.cursors)}
      ELSE Dispatch(t, a)

\* flushDueAccums and flushAllAccums, in ascending order of the label set.
FlushAccums(s, ids) ==
  FoldLeft(LAMBDA T, id : ForAll(T, LAMBDA t : FlushAccum(t, id)), {s},
           SetToSortSeq(ids, <))

Accum(s, id) == IF id \in DOMAIN s.accums THEN s.accums[id] ELSE NoEntries
PutAccum(s, id, a) == [s EXCEPT !.accums = (id :> a) @@ @]

\* The rest of addLine, once the accumulator the line belongs to is settled.
AttributeLine(s, id, line, kind) ==
  LET a == Accum(s, id)
      b == [records |-> IF kind = "valid" THEN a.records \cup {line} ELSE a.records,
            cursors |-> (line[1] :> line[2]) @@ a.cursors]
      t == [PutAccum(s, id, b) EXCEPT
              !.dropped = IF kind = "valid" THEN @ ELSE @ \cup {line}]
  IN  IF Cardinality(b.records) >= MaxBatchRecords THEN FlushAccum(t, id) ELSE {t}

AddLineTo(s, id, line, kind, fits) ==
  IF kind # "invalid" /\ ~fits /\ Accum(s, id).records # {}
    THEN ForAll(FlushAccum(s, id), LAMBDA t : AttributeLine(t, id, line, kind))
    ELSE AttributeLine(s, id, line, kind)

-----------------------------------------------------------------------------
(* The cases of Run's select.                                              *)

AddLine(src, kind, fits) ==
  /\ phase = "run"
  /\ next[src] <= MaxLine
  /\ kind = "huge" => ~fits
  /\ LET line == <<src, next[src]>>
     IN  sh' \in IF Labels[src] = 0
                   THEN {[sh EXCEPT !.dropped = @ \cup {line}]}
                   ELSE AddLineTo(sh, Labels[src], line, kind, fits)
  /\ next' = [next EXCEPT ![src] = @ + 1]
  /\ UNCHANGED <<phase, committed, restarts>>

AccumTimer ==
  /\ phase = "run"
  /\ \E due \in (SUBSET DOMAIN sh.accums) \ {{}} : sh' \in FlushAccums(sh, due)
  /\ UNCHANGED <<phase, next, committed, restarts>>

ConnectRetry ==
  /\ phase = "run"
  /\ sh.connectRetry
  /\ sh' \in TryConnect([sh EXCEPT !.connectRetry = FALSE])
  /\ UNCHANGED <<phase, next, committed, restarts>>

PauseExpires ==
  /\ phase = "run"
  /\ sh.sendPaused
  /\ PauseOutlastsAcks => sh.wire = <<>> /\ sh.acks = <<>>
  /\ sh' \in TryDrainSpool([sh EXCEPT !.sendPaused = FALSE])
  /\ UNCHANGED <<phase, next, committed, restarts>>

AckArrives ==
  /\ phase = "run"
  /\ sh.acks # <<>>
  /\ sh' \in ProcessAck([sh EXCEPT !.acks = Tail(@)], Head(sh.acks))
  /\ UNCHANGED <<phase, next, committed, restarts>>

StreamBreaks ==
  /\ phase = "run"
  /\ sh.stream
  /\ sh.faults > 0
  /\ sh' \in TeardownStream([sh EXCEPT !.faults = @ - 1])
  /\ UNCHANGED <<phase, next, committed, restarts>>

CommitTicker ==
  /\ phase = "run"
  /\ committed' = sh.checkpoint
  /\ UNCHANGED <<sh, phase, next, restarts>>

-----------------------------------------------------------------------------
(* shutdown: flush, wait for acks while the stream lives, spool the rest,  *)
(* commit.                                                                 *)

Shutdown ==
  /\ phase = "run"
  /\ restarts < MaxRestarts
  /\ sh' \in FlushAccums(sh, DOMAIN sh.accums)
  /\ phase' = IF sh'.stream THEN "drain" ELSE "finish"
  /\ UNCHANGED <<next, committed, restarts>>

ShutdownAck ==
  /\ phase = "drain"
  /\ sh.pendingAcks # <<>>
  /\ sh.acks # <<>>
  /\ sh' \in ProcessAck([sh EXCEPT !.acks = Tail(@)], Head(sh.acks))
  /\ UNCHANGED <<phase, next, committed, restarts>>

\* The wait ends: all answered, the stream failed, or the deadline passed.
\* CloseSend is called on whatever s.stream is by then.
ShutdownWaitEnds ==
  /\ phase = "drain"
  /\ phase' = IF sh.stream THEN "finish" ELSE "panic"
  /\ UNCHANGED <<sh, next, committed, restarts>>

\* Mutant of LeftAtShutdown: unacknowledged batches are discarded.
DiscardAtShutdown(s) == {[s EXCEPT !.pendingAcks = <<>>]}

LeftAtShutdown(s) ==
  {[t EXCEPT !.pendingAcks = <<>>] : t \in DemoteOutstanding({s}, s.pendingAcks)}

ShutdownFinish ==
  /\ phase = "finish"
  /\ sh' \in LeftAtShutdown(sh)
  /\ committed' = sh'.checkpoint
  /\ phase' = "done"
  /\ UNCHANGED <<next, restarts>>

-----------------------------------------------------------------------------
(* The process dies, or ended; a new one starts from what is on disk.      *)

Crash ==
  /\ phase \in {"run", "drain", "finish"}
  /\ restarts < MaxRestarts
  /\ phase' = "down"
  /\ UNCHANGED <<sh, next, committed, restarts>>

\* Nothing remembers the cursors of the entries found in the spool, and the
\* sources resume after the committed checkpoint.
Restart ==
  /\ phase \in {"done", "panic", "down"}
  /\ phase' = "run"
  /\ restarts' = restarts + 1
  /\ next' = [src \in SourceNames |-> committed[src] + 1]
  /\ \E s \in LoseStream(sh) :
       sh' \in TryConnect([InitShipper EXCEPT
                 !.spool = s.spool, !.spoolMeta = [i \in DOMAIN s.spool |-> NoCursors],
                 !.checkpoint = committed, !.faults = s.faults,
                 !.accepted = s.accepted, !.dropped = s.dropped])
  /\ UNCHANGED committed

-----------------------------------------------------------------------------
(* The collector answers the oldest batch on the stream.                   *)

CollectorAnswers(code) ==
  /\ sh.wire # <<>>
  /\ code # "ACCEPTED" => sh.faults > 0
  /\ sh' = [sh EXCEPT !.wire = Tail(@),
                      !.acks = Append(@, code),
                      !.accepted = IF code = "ACCEPTED"
                                     THEN @ \cup Head(sh.wire).records ELSE @,
                      !.faults = IF code = "ACCEPTED" THEN @ ELSE @ - 1]
  /\ UNCHANGED <<phase, next, committed, restarts>>

Init ==
  /\ sh \in TryConnect(InitShipper)
  /\ phase = "run"
  /\ next = [src \in SourceNames |-> 1]
  /\ committed = InitShipper.checkpoint
  /\ restarts = 0

Next ==
  \/ \E src \in SourceNames, kind \in LineKinds, fits \in Fits : AddLine(src, kind, fits)
  \/ AccumTimer \/ ConnectRetry \/ PauseExpires \/ AckArrives \/ StreamBreaks
  \/ CommitTicker
  \/ Shutdown \/ ShutdownAck \/ ShutdownWaitEnds \/ ShutdownFinish
  \/ Crash \/ Restart
  \/ \E code \in AckCodes : CollectorAnswers(code)

Spec == Init /\ [][Next]_vars

-----------------------------------------------------------------------------
(* Properties.                                                             *)

Batches == [records : SUBSET Lines, cursors : UNION {[S -> 0 .. MaxLine] : S \in SUBSET SourceNames}]
Outstanding == [batch : Batches, fromSpool : BOOLEAN]

\* The types of the shipper's fields; accumulators are never full, and one
\* spooled entry at most is outstanding.
TypeOK ==
  /\ {sh.stream, sh.connectRetry, sh.sendPaused} \subseteq BOOLEAN
  /\ \A id \in DOMAIN sh.accums :
       sh.accums[id] \in Batches /\ Cardinality(sh.accums[id].records) < MaxBatchRecords
  /\ sh.pendingAcks \in Seq(Outstanding)
  /\ Len(SelectSeq(sh.pendingAcks, LAMBDA o : o.fromSpool)) <= 1
  /\ sh.spool \in Seq(Batches)
  /\ {sh.checkpoint, committed} \subseteq [SourceNames -> 0 .. MaxLine]
  /\ sh.wire \in Seq(Batches) /\ sh.acks \in Seq(AckCodes)
  /\ sh.accepted \cup sh.dropped \subseteq Lines
  /\ phase \in {"run", "drain", "finish", "done", "panic", "down"}
  /\ next \in [SourceNames -> 1 .. MaxLine + 1]

\* "A line's progress is durable only once the collector has acknowledged it":
\* every line a checkpoint has passed is durable at the collector, or was
\* dropped and counted.  A restart after any crash therefore skips nothing.
CheckpointSafe ==
  \A src \in SourceNames :
    \A n \in 1 .. MaxLine :
      n <= sh.checkpoint[src] \/ n <= committed[src] =>
        <<src, n>> \in sh.accepted \cup sh.dropped

\* While the process runs, each line it has read is batched, outstanding,
\* spooled, durable at the collector, or counted dropped: none is in limbo,
\* and shutdown discards nothing in flight.
Held(s) ==
  (UNION {s.accums[id].records : id \in DOMAIN s.accums})
    \cup LinesOf([i \in DOMAIN s.pendingAcks |-> s.pendingAcks[i].batch])
    \cup LinesOf(s.spool)
NothingInLimbo ==
  phase \in {"run", "drain", "finish", "done"} =>
    \A src \in SourceNames : \A n \in 1 .. next[src] - 1 :
      <<src, n>> \in Held(sh) \cup sh.accepted \cup sh.dropped

\* spoolMeta is aligned with the spool entry for entry: each element is nil or
\* holds the cursors of exactly that entry, whatever Append evicts.
MetaAligned ==
  phase \in {"run", "drain"} =>
    /\ Len(sh.spoolMeta) = Len(sh.spool)
    /\ \A i \in DOMAIN sh.spool : sh.spoolMeta[i] \in {NoCursors, sh.spool[i].cursors}

\* A spooled backlog always has something coming that will resume draining it:
\* a reconnection, the end of a pause, or an answer to an outstanding batch.
BacklogHasATrigger ==
  phase = "run" /\ sh.spool # <<>> =>
    sh.connectRetry \/ sh.sendPaused \/ sh.pendingAcks # <<>>

\* AckWindow bounds the batches sent and not yet acknowledged.
WithinAckWindow == Len(sh.wire) + Len(sh.acks) <= AckWindow

\* The committed checkpoint never moves back within one generation of a file.
Advancing ==
  \A src \in SourceNames : File(committed'[src]) = File(committed[src]) =>
    committed'[src] >= committed[src]
CommittedAdvances == [][Advancing]_vars

\* advanceCheckpoint: "a stale cursor from the old generation arriving after a
\* new one ... cannot happen".
NoGenerationRegress ==
  [][phase = "run" /\ phase' = "run" =>
       \A src \in SourceNames :
         File(sh'.checkpoint[src]) >= File(sh.checkpoint[src])
           \/ restarts' # restarts]_vars

\* shutdown always gets to its final commit: CloseSend is never called on a
\* stream that was torn down while waiting for acks.
ShutdownCompletes == phase # "panic"

\* With a finite number of faults every line is, in the end, durable at the
\* collector or counted dropped.
Settled == Lines = sh.accepted \cup sh.dropped
AllSettled == <>Settled

\* Run's select takes every case that stays ready, sources deliver, the
\* collector answers, and a stopped agent is started again.
FairSpec ==
  /\ Spec
  /\ WF_vars(\E src \in SourceNames, kind \in LineKinds, fits \in Fits : AddLine(src, kind, fits))
  /\ WF_vars(AccumTimer) /\ WF_vars(ConnectRetry) /\ WF_vars(PauseExpires)
  /\ WF_vars(AckArrives) /\ WF_vars(ShutdownAck) /\ WF_vars(ShutdownWaitEnds)
  /\ WF_vars(ShutdownFinish) /\ WF_vars(Restart)
  /\ WF_vars(\E code \in AckCodes : CollectorAnswers(code))
=============================================================================
