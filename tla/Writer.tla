------------------------------- MODULE Writer -------------------------------
(***************************************************************************)
(* From the queue to the database inside one collector:                    *)
(*   src/internal/ingest/consumer.go   deliveries become shipments         *)
(*   src/internal/storage/writer.go    workers batch and write shipments   *)
(*   src/internal/storage/streams.go   which stream rows are known to exist*)
(*   src/cmd/collector/main.go         the order of a shutdown             *)
(* around them, external, the JetStream work queue and TimescaleDB.        *)
(*                                                                         *)
(* A delivery is a pair <<message, n>>, its n-th delivery.  The consumer's *)
(* callback runs on one goroutine, so one delivery at a time is being      *)
(* handled (inFlight is 0 or 1); workers run concurrently with it and with *)
(* each other.  The channel `in` and a worker's batch are kept as sets:    *)
(* nothing here depends on the order of shipments, and any order of        *)
(* receiving them is allowed.  A transaction is one step; a failing one    *)
(* may have committed (its reply was lost).  `faults` is the number of     *)
(* unlucky events (failed transactions, lost acks, a delivery that         *)
(* overtakes an unfinished one) that may still happen.                     *)
(***************************************************************************)
EXTENDS Integers, FiniteSets, FiniteSetsExt

CONSTANTS
  Messages,      \* messages in the stream
  StreamOf,      \* message -> the stream of its label set
  RecordsOf,     \* message -> its records that are valid on arrival
  Poison,        \* messages that do not decode or whose labels are invalid
  MayAge,        \* records that may get older than MaxBackfill meanwhile
  Workers, QueueDepth, BatchSize, MaxAttempts, StreamCacheSize,
  CopyMode,      \* "staging" or "direct"
  \* Bounds.
  MaxDeliveries, MaxFaults, MaxRestarts

Streams == {StreamOf[m] : m \in Messages}
Records == UNION {RecordsOf[m] : m \in Messages}
Deliveries == Messages \X (1 .. MaxDeliveries)

ASSUME WriterAssumption ==
  /\ Poison \subseteq Messages /\ MayAge \subseteq Records
  /\ Workers # {} /\ IsFiniteSet(Workers) /\ IsFiniteSet(Records)
  /\ {QueueDepth, BatchSize, MaxAttempts, StreamCacheSize} \subseteq Nat \ {0}
  /\ CopyMode \in {"staging", "direct"}
  /\ {MaxDeliveries, MaxFaults, MaxRestarts} \subseteq Nat

VARIABLES
  \* The queue and the database survive the collector.
  queue,        \* messages neither acked nor termed
  deliveries,   \* message -> number of times it was delivered
  streamRows,   \* rows of table streams
  rows,         \* rows of table logs, by their dedup key
  aged,         \* records that Validate no longer accepts
  \* Consumer.
  hpc, hd,      \* where its callback is, and the delivery it handles
  \* Writer.
  in,           \* the channel of shipments
  kept,         \* delivery -> the records Submit accepted
  cache,        \* streamCache: streams known to exist
  pc, mode, batch, streams, attempt, outcome,  \* per worker
  \* Process.
  phase, ctxDone,
  \* History and bounds.
  calls,        \* delivery -> how often it was acked, naked or termed
  forgotten,    \* deliveries in memory when a process ended
  abandoned,    \* shipments that drainAbandoned failed
  timedOut,     \* the waits of a shutdown that its deadline cut short
  faults, restarts

external == <<queue, deliveries, streamRows, rows, aged>>
worker   == <<pc, mode, batch, streams, attempt, outcome>>
process  == <<phase, ctxDone>>
vars == <<external, hpc, hd, in, kept, cache, worker, process, calls, forgotten,
          abandoned, timedOut, faults, restarts>>

NoDelivery == <<>>
Up == phase # "down"
\* Consumer.closing, and Writer.closing with quit closed in the same breath.
ConsumerClosing == phase \notin {"run", "down"}
WriterClosing == phase \in {"closing", "closed"}
InMemory == in \cup (UNION {batch[w] : w \in Workers})
               \cup (IF hpc = "idle" THEN {} ELSE {hd})

-----------------------------------------------------------------------------
(* Terminating a delivery.  A lost ack or term leaves the message queued.  *)

Call(D) == calls' = [d \in Deliveries |-> IF d \in D THEN calls[d] + 1 ELSE calls[d]]

AckOrTerm(d) ==
  /\ Call({d})
  /\ \/ queue' = queue \ {d[1]} /\ UNCHANGED faults
     \/ faults > 0 /\ faults' = faults - 1 /\ UNCHANGED queue

Nak(d) == Call({d}) /\ UNCHANGED <<queue, faults>>

\* Mutant of Finish: a failed write is acked too.
FinishAlwaysAcks(d, result) == AckOrTerm(d)

\* Consumer.finish: the Ack closure of a shipment.
Finish(d, result) == IF result = "ok" THEN AckOrTerm(d) ELSE Nak(d)

-----------------------------------------------------------------------------
(* Consumer: the callback of Start, handle, and Writer.Submit inside it.   *)

\* AckWait has run out for a delivery still in memory, or one is racing Stop.
Unlucky(m) == ConsumerClosing \/ \E d \in InMemory : d[1] = m

Deliver(m) ==
  /\ phase \in {"run", "stopping"}    \* until sub.Stop
  /\ hpc = "idle"
  /\ m \in queue
  /\ deliveries[m] < MaxDeliveries
  /\ Unlucky(m) => faults > 0
  /\ LET d == <<m, deliveries[m] + 1>>
     IN  /\ deliveries' = [deliveries EXCEPT ![m] = @ + 1]
         /\ \/ /\ ConsumerClosing
               /\ Call({d})
               /\ faults' = faults - 1
               /\ UNCHANGED <<queue, hpc, hd>>
            \/ /\ ~ConsumerClosing /\ m \in Poison
               /\ AckOrTerm(d)
               /\ UNCHANGED <<hpc, hd>>
            \/ /\ ~ConsumerClosing /\ m \notin Poison
               /\ hpc' = "submit" /\ hd' = d
               /\ faults' = IF Unlucky(m) THEN faults - 1 ELSE faults
               /\ UNCHANGED <<queue, calls>>
  /\ UNCHANGED <<streamRows, rows, aged, in, kept, cache, worker, process, forgotten,
                 abandoned, timedOut, restarts>>

\* The callback returns.
HandlerDone == hpc' = "idle" /\ hd' = NoDelivery

\* Submit up to its select: a closing writer refuses, and a shipment without a
\* single valid record is acked at once.
SubmitCheck ==
  /\ Up /\ hpc = "submit"
  /\ LET valid == RecordsOf[hd[1]] \ aged
     IN  \/ /\ WriterClosing
            /\ Nak(hd) /\ HandlerDone /\ UNCHANGED kept
         \/ /\ ~WriterClosing /\ valid = {}
            /\ AckOrTerm(hd) /\ HandlerDone /\ UNCHANGED kept
         \/ /\ ~WriterClosing /\ valid # {}
            /\ hpc' = "select" /\ kept' = [kept EXCEPT ![hd] = valid]
            /\ UNCHANGED <<queue, hd, calls, faults>>
  /\ UNCHANGED <<deliveries, streamRows, rows, aged, in, cache, worker, process,
                 forgotten, abandoned, timedOut, restarts>>

\* The select: with room in the channel and quit closed, either case may win,
\* but a Submit that was already blocked is woken by quit.
SubmitSends ==
  /\ Up
  /\ hpc = "select" \/ (hpc = "blocked" /\ ~WriterClosing)
  /\ Cardinality(in) < QueueDepth
  /\ in' = in \cup {hd}
  /\ HandlerDone
  /\ UNCHANGED <<external, kept, cache, worker, process, calls, forgotten, abandoned,
                 timedOut, faults, restarts>>

SubmitBlocks ==
  /\ Up
  /\ hpc = "select" /\ ~WriterClosing
  /\ Cardinality(in) >= QueueDepth
  /\ hpc' = "blocked"
  /\ UNCHANGED <<external, hd, in, kept, cache, worker, process, calls, forgotten,
                 abandoned, timedOut, faults, restarts>>

\* Mutant of SubmitRefused: the refused shipment is left in the channel.
SubmitRefusedQueued ==
  /\ Up
  /\ hpc \in {"select", "blocked"} /\ WriterClosing
  /\ Nak(hd)
  /\ HandlerDone
  /\ in' = in \cup {hd}
  /\ UNCHANGED <<deliveries, streamRows, rows, aged, kept, cache, worker, process,
                 forgotten, abandoned, timedOut, restarts>>

SubmitRefused ==
  /\ Up
  /\ hpc \in {"select", "blocked"} /\ WriterClosing
  /\ Nak(hd)
  /\ HandlerDone
  /\ UNCHANGED <<deliveries, streamRows, rows, aged, in, kept, cache, worker, process,
                 forgotten, abandoned, timedOut, restarts>>

-----------------------------------------------------------------------------
(* Writer workers.  A worker collects a batch; flush writes it in two      *)
(* transactions, each retried with the whole attempt, then calls the Acks. *)

RecordCount(D) == MapThenSumSet(LAMBDA d : Cardinality(kept[d]), D)
RecordsIn(D) == UNION {kept[d] : d \in D}

\* needsUpsert: an unknown stream must be written (a known one may be, when its
\* entry is older than refreshAfter).
NeedsUpsert(s) == s \notin cache

\* Mutant of PendingStreams: a stream is assumed to exist.
NoPendingStreams(w, s) == {streams[w]}

\* The streams to upsert after writeBatch.add.
PendingStreams(w, s) ==
  {streams[w] \cup {s}} \cup (IF NeedsUpsert(s) THEN {} ELSE {streams[w]})

\* markUpserted for each of S: an LRU of StreamCacheSize entries keeps S, the
\* most recently used, before any other; which others it keeps depends on the past.
MarkUpserted(S) ==
  {c \in SUBSET (cache \cup S) :
     /\ Cardinality(c) = Min({StreamCacheSize, Cardinality(cache \cup S)})
     /\ S \subseteq c \/ c \subseteq S}

\* A shipment is received, in work or in drainInto, and the batch flushed when full.
WorkerTake(w) ==
  /\ Up /\ pc[w] = "collect"
  /\ \E d \in in :
       /\ in' = in \ {d}
       /\ batch' = [batch EXCEPT ![w] = @ \cup {d}]
       /\ \E pending \in PendingStreams(w, StreamOf[d[1]]) :
            streams' = [streams EXCEPT ![w] = pending]
       /\ pc' = [pc EXCEPT ![w] =
                  IF RecordCount(batch[w] \cup {d}) >= BatchSize THEN "streams" ELSE @]
  /\ UNCHANGED <<external, hpc, hd, kept, cache, mode, attempt, outcome, process, calls,
                 forgotten, abandoned, timedOut, faults, restarts>>

\* The flush timer, armed while a batch is open.
WorkerTimer(w) ==
  /\ Up /\ pc[w] = "collect" /\ mode[w] = "run" /\ batch[w] # {}
  /\ pc' = [pc EXCEPT ![w] = "streams"]
  /\ UNCHANGED <<external, hpc, hd, in, kept, cache, mode, batch, streams, attempt,
                 outcome, process, calls, forgotten, abandoned, timedOut, faults, restarts>>

\* quit was closed, or the context given to Start was canceled.
WorkerDrains(w) ==
  /\ Up /\ pc[w] = "collect" /\ mode[w] = "run"
  /\ WriterClosing \/ ctxDone
  /\ mode' = [mode EXCEPT ![w] = "drain"]
  /\ UNCHANGED <<external, hpc, hd, in, kept, cache, pc, batch, streams, attempt,
                 outcome, process, calls, forgotten, abandoned, timedOut, faults, restarts>>

\* Mutant of WorkerLast: drainInto does not empty the channel.
WorkerLastEarly(w) ==
  /\ Up /\ pc[w] = "collect" /\ mode[w] = "drain"
  /\ mode' = [mode EXCEPT ![w] = "last"]
  /\ pc' = [pc EXCEPT ![w] = IF batch[w] = {} THEN "done" ELSE "streams"]
  /\ UNCHANGED <<external, hpc, hd, in, kept, cache, batch, streams, attempt, outcome,
                 process, calls, forgotten, abandoned, timedOut, faults, restarts>>

\* drainInto meets a momentarily empty channel: one last flush, then the end.
WorkerLast(w) ==
  /\ Up /\ pc[w] = "collect" /\ mode[w] = "drain"
  /\ in = {}
  /\ mode' = [mode EXCEPT ![w] = "last"]
  /\ pc' = [pc EXCEPT ![w] = IF batch[w] = {} THEN "done" ELSE "streams"]
  /\ UNCHANGED <<external, hpc, hd, in, kept, cache, batch, streams, attempt, outcome,
                 process, calls, forgotten, abandoned, timedOut, faults, restarts>>

\* Mutant of AttemptFails: one attempt too many.
AttemptFailsLate(w, retryable) ==
  IF retryable /\ attempt[w] <= MaxAttempts
    THEN /\ attempt' = [attempt EXCEPT ![w] = @ + 1]
         /\ pc' = [pc EXCEPT ![w] = "streams"]
         /\ UNCHANGED outcome
    ELSE /\ pc' = [pc EXCEPT ![w] = "ack"]
         /\ outcome' = [outcome EXCEPT ![w] = "failed"]
         /\ UNCHANGED attempt

\* flush after writeOnce failed: another attempt, or give up.
AttemptFails(w, retryable) ==
  IF retryable /\ attempt[w] < MaxAttempts
    THEN /\ attempt' = [attempt EXCEPT ![w] = @ + 1]
         /\ pc' = [pc EXCEPT ![w] = "streams"]
         /\ UNCHANGED outcome
    ELSE /\ pc' = [pc EXCEPT ![w] = "ack"]
         /\ outcome' = [outcome EXCEPT ![w] = "failed"]
         /\ UNCHANGED attempt

\* commitStreams, committed (or with nothing to upsert).
CommitStreams(w) ==
  /\ Up /\ pc[w] = "streams"
  /\ streamRows' = streamRows \cup streams[w]
  /\ cache' \in MarkUpserted(streams[w])
  /\ streams' = [streams EXCEPT ![w] = {}]
  /\ pc' = [pc EXCEPT ![w] = "records"]
  /\ UNCHANGED <<queue, deliveries, rows, aged, hpc, hd, in, kept, mode, batch, attempt,
                 outcome, process, calls, forgotten, abandoned, timedOut, faults, restarts>>

\* Mutant of StreamsFail: the cache is filled before the commit.
StreamsFailCached(w) ==
  /\ Up /\ pc[w] = "streams" /\ streams[w] # {}
  /\ faults > 0 /\ faults' = faults - 1
  /\ \E retryable \in BOOLEAN : AttemptFails(w, retryable)
  /\ streamRows' \in {streamRows, streamRows \cup streams[w]}
  /\ cache' \in MarkUpserted(streams[w])
  /\ UNCHANGED <<queue, deliveries, rows, aged, hpc, hd, in, kept, mode, batch, streams,
                 process, calls, forgotten, abandoned, timedOut, restarts>>

StreamsFail(w) ==
  /\ Up /\ pc[w] = "streams" /\ streams[w] # {}
  /\ faults > 0 /\ faults' = faults - 1
  /\ \E retryable \in BOOLEAN : AttemptFails(w, retryable)
  /\ streamRows' \in {streamRows, streamRows \cup streams[w]}
  /\ UNCHANGED <<queue, deliveries, rows, aged, hpc, hd, in, kept, cache, mode, batch,
                 streams, process, calls, forgotten, abandoned, timedOut, restarts>>

\* The foreign key of logs on streams.
ForeignKeyOK(w) == \A d \in batch[w] : StreamOf[d[1]] \in streamRows

\* A record of the batch meets the dedup index: it is stored already, or twice
\* in the batch.
Replayed(w) ==
  \/ RecordsIn(batch[w]) \cap rows # {}
  \/ \E d, e \in batch[w] : d # e /\ kept[d] \cap kept[e] # {}

\* Both copy paths end in one transaction for the whole batch.
Insert(w) ==
  /\ rows' = rows \cup RecordsIn(batch[w])
  /\ pc' = [pc EXCEPT ![w] = "ack"]
  /\ outcome' = [outcome EXCEPT ![w] = "ok"]

\* Mutant of CopyDirect: a unique violation is an error like any other.
CopyDirectOnly(w) ==
  /\ Up /\ pc[w] = "records" /\ CopyMode = "direct"
  /\ ForeignKeyOK(w)
  /\ IF Replayed(w)
       THEN AttemptFails(w, FALSE) /\ UNCHANGED rows
       ELSE Insert(w) /\ UNCHANGED attempt
  /\ UNCHANGED <<queue, deliveries, streamRows, aged, hpc, hd, in, kept, cache, mode, batch,
                 streams, process, calls, forgotten, abandoned, timedOut, faults, restarts>>

\* copyDirect: a unique violation rolls back and the batch goes through staging.
CopyDirect(w) ==
  /\ Up /\ pc[w] = "records" /\ CopyMode = "direct"
  /\ ForeignKeyOK(w)
  /\ IF Replayed(w)
       THEN /\ pc' = [pc EXCEPT ![w] = "staging"]
            /\ UNCHANGED <<rows, outcome>>
       ELSE Insert(w)
  /\ UNCHANGED <<queue, deliveries, streamRows, aged, hpc, hd, in, kept, cache, mode, batch,
                 streams, attempt, process, calls, forgotten, abandoned, timedOut, faults,
                 restarts>>

\* copyViaStaging: ON CONFLICT DO NOTHING.
CopyViaStaging(w) ==
  /\ Up
  /\ pc[w] = "staging" \/ (pc[w] = "records" /\ CopyMode = "staging")
  /\ ForeignKeyOK(w)
  /\ Insert(w)
  /\ UNCHANGED <<queue, deliveries, streamRows, aged, hpc, hd, in, kept, cache, mode, batch,
                 streams, attempt, process, calls, forgotten, abandoned, timedOut, faults,
                 restarts>>

\* commitRecords fails; a missing stream row fails it for good.
CopyFails(w) ==
  /\ Up /\ pc[w] \in {"records", "staging"}
  /\ ForeignKeyOK(w) => faults > 0
  /\ faults' = IF ForeignKeyOK(w) THEN faults - 1 ELSE faults
  /\ \E retryable \in BOOLEAN :
       (retryable => ForeignKeyOK(w)) /\ AttemptFails(w, retryable)
  /\ rows' = rows \/ (ForeignKeyOK(w) /\ rows' = rows \cup RecordsIn(batch[w]))
  /\ UNCHANGED <<queue, deliveries, streamRows, aged, hpc, hd, in, kept, cache, mode, batch,
                 streams, process, calls, forgotten, abandoned, timedOut, restarts>>

\* ackAll, one closure at a time; after the last one flush resets the batch and
\* returns to where it was called.
AckNext(w) ==
  /\ Up /\ pc[w] = "ack"
  /\ \E d \in batch[w] :
       /\ Finish(d, outcome[w])
       /\ batch' = [batch EXCEPT ![w] = @ \ {d}]
       /\ IF batch[w] # {d}
            THEN UNCHANGED <<pc, streams, attempt>>
            ELSE /\ pc' = [pc EXCEPT ![w] = IF mode[w] = "last" THEN "done" ELSE "collect"]
                 /\ streams' = [streams EXCEPT ![w] = {}]
                 /\ attempt' = [attempt EXCEPT ![w] = 1]
  /\ UNCHANGED <<deliveries, streamRows, rows, aged, hpc, hd, in, kept, cache, mode,
                 outcome, process, forgotten, abandoned, timedOut, restarts>>

-----------------------------------------------------------------------------
(* The process: shutdown in the order of main, crash, restart.             *)

\* SIGTERM cancels the context the workers were started with.
Signal ==
  /\ Up /\ ~ctxDone
  /\ restarts < MaxRestarts
  /\ ctxDone' = TRUE
  /\ UNCHANGED <<external, hpc, hd, in, kept, cache, worker, phase, calls, forgotten,
                 abandoned, timedOut, faults, restarts>>

Advance(from, to) ==
  /\ phase = from /\ phase' = to
  /\ UNCHANGED <<external, hpc, hd, kept, cache, worker, ctxDone, forgotten, faults, restarts>>

\* Consumer.Stop begins, after a signal or because a listener failed.
StopBegins ==
  /\ restarts < MaxRestarts
  /\ Advance("run", "stopping")
  /\ UNCHANGED <<in, calls, abandoned, timedOut>>

\* sub.Stop: no more deliveries.
SubStop == Advance("stopping", "waiting") /\ UNCHANGED <<in, calls, abandoned, timedOut>>

\* Mutant of StopReturns: handlers already running are not waited for.
StopReturnsAtOnce ==
  Advance("waiting", "stopped") /\ UNCHANGED <<in, calls, abandoned, timedOut>>

\* Stop returns when the handler has left, or at the deadline.
StopReturns ==
  /\ Advance("waiting", "stopped")
  /\ timedOut' = IF hpc = "idle" THEN timedOut ELSE timedOut \cup {"stop"}
  /\ UNCHANGED <<in, calls, abandoned>>

\* Writer.Close stores closing and closes quit.
CloseBegins == Advance("stopped", "closing") /\ UNCHANGED <<in, calls, abandoned, timedOut>>

\* Close returns: the workers are done and drainAbandoned fails what they left,
\* or the deadline has passed.
CloseReturns ==
  /\ Advance("closing", "closed")
  /\ \/ /\ \A w \in Workers : pc[w] = "done"
        /\ Call(in)
        /\ abandoned' = abandoned \cup in
        /\ in' = {}
        /\ UNCHANGED timedOut
     \/ timedOut' = timedOut \cup {"close"} /\ UNCHANGED <<in, calls, abandoned>>

\* The process exits after a shutdown, or is killed: its memory is gone, and
\* what it had not terminated will be delivered again.
Exit ==
  /\ phase = "closed" \/ (Up /\ restarts < MaxRestarts)
  /\ phase' = "down" /\ ctxDone' = FALSE
  /\ forgotten' = forgotten \cup InMemory
  /\ HandlerDone
  /\ in' = {} /\ cache' = {}
  /\ pc' = [w \in Workers |-> "collect"] /\ mode' = [w \in Workers |-> "run"]
  /\ batch' = [w \in Workers |-> {}] /\ streams' = [w \in Workers |-> {}]
  /\ attempt' = [w \in Workers |-> 1] /\ outcome' = [w \in Workers |-> "ok"]
  /\ abandoned' = {} /\ timedOut' = {}
  /\ UNCHANGED <<external, kept, calls, faults, restarts>>

Restart ==
  /\ phase = "down"
  /\ phase' = "run" /\ restarts' = restarts + 1
  /\ UNCHANGED <<external, hpc, hd, in, kept, cache, worker, ctxDone, calls, forgotten,
                 abandoned, timedOut, faults>>

\* A record outlives MaxBackfill while its message waits.
Age(r) ==
  /\ r \in MayAge \ aged
  /\ aged' = aged \cup {r}
  /\ UNCHANGED <<queue, deliveries, streamRows, rows, hpc, hd, in, kept, cache, worker,
                 process, calls, forgotten, abandoned, timedOut, faults, restarts>>

-----------------------------------------------------------------------------
Init ==
  /\ queue = Messages /\ deliveries = [m \in Messages |-> 0]
  /\ streamRows = {} /\ rows = {} /\ aged = {}
  /\ hpc = "idle" /\ hd = NoDelivery
  /\ in = {} /\ kept = [d \in Deliveries |-> {}] /\ cache = {}
  /\ pc = [w \in Workers |-> "collect"] /\ mode = [w \in Workers |-> "run"]
  /\ batch = [w \in Workers |-> {}] /\ streams = [w \in Workers |-> {}]
  /\ attempt = [w \in Workers |-> 1] /\ outcome = [w \in Workers |-> "ok"]
  /\ phase = "run" /\ ctxDone = FALSE
  /\ calls = [d \in Deliveries |-> 0] /\ forgotten = {}
  /\ abandoned = {} /\ timedOut = {}
  /\ faults = MaxFaults /\ restarts = 0

WorkerStep(w) ==
  \/ WorkerTake(w) \/ WorkerTimer(w) \/ WorkerDrains(w) \/ WorkerLast(w)
  \/ CommitStreams(w) \/ StreamsFail(w)
  \/ CopyDirect(w) \/ CopyViaStaging(w) \/ CopyFails(w)
  \/ AckNext(w)

SubmitStep == SubmitCheck \/ SubmitSends \/ SubmitBlocks \/ SubmitRefused

ShutdownStep == SubStop \/ StopReturns \/ CloseBegins \/ CloseReturns

Next ==
  \/ \E m \in Messages : Deliver(m)
  \/ SubmitStep
  \/ \E w \in Workers : WorkerStep(w)
  \/ Signal \/ StopBegins \/ ShutdownStep \/ Exit \/ Restart
  \/ \E r \in MayAge : Age(r)

Spec == Init /\ [][Next]_vars

\* The callback and the workers are goroutines that run when they can, the
\* broker delivers what is queued, a shutdown that began goes on (its waits end
\* at a deadline), and a collector that is down is started again.  Signals,
\* crashes, failures and the passing of time are not fair.
FairSpec ==
  /\ Spec
  /\ \A m \in Messages : WF_vars(Deliver(m))
  /\ WF_vars(SubmitStep)
  /\ \A w \in Workers : WF_vars(WorkerStep(w))
  /\ WF_vars(ctxDone /\ StopBegins) /\ WF_vars(ShutdownStep)
  /\ WF_vars(phase = "closed" /\ Exit) /\ WF_vars(Restart)

-----------------------------------------------------------------------------
(* Properties.                                                             *)

Phases == {"run", "stopping", "waiting", "stopped", "closing", "closed", "down"}
Steps == {"collect", "streams", "records", "staging", "ack", "done"}

\* The types of the state; the handler holds a delivery unless it is idle.
TypeOK ==
  /\ queue \subseteq Messages /\ deliveries \in [Messages -> 0 .. MaxDeliveries]
  /\ streamRows \subseteq Streams /\ rows \subseteq Records /\ aged \subseteq MayAge
  /\ \/ hpc = "idle" /\ hd = NoDelivery
     \/ hpc \in {"submit", "select", "blocked"} /\ hd \in Deliveries
  /\ in \subseteq Deliveries /\ kept \in [Deliveries -> SUBSET Records]
  /\ cache \subseteq Streams
  /\ pc \in [Workers -> Steps] /\ mode \in [Workers -> {"run", "drain", "last"}]
  /\ batch \in [Workers -> SUBSET Deliveries]
  /\ streams \in [Workers -> SUBSET Streams]
  /\ attempt \in [Workers -> 1 .. MaxAttempts]
  /\ outcome \in [Workers -> {"ok", "failed"}]
  /\ phase \in Phases /\ ctxDone \in BOOLEAN
  /\ calls \in [Deliveries -> Nat]
  /\ forgotten \subseteq Deliveries /\ abandoned \subseteq Deliveries
  /\ timedOut \subseteq {"stop", "close"}
  /\ faults \in 0 .. MaxFaults /\ restarts \in Nat

\* A message leaves the queue only when every record it carried is in the
\* hypertable or was rejected as too old, or when it was poison: "a crash
\* before the write lands leads to redelivery rather than to loss" (Shipment.Ack).
AckedIsDurable ==
  \A m \in Messages \ queue : m \in Poison \/ RecordsOf[m] \subseteq rows \cup aged

\* No delivery is ever terminated twice, whichever of the callback, a worker
\* and drainAbandoned gets to it ("Ack is called exactly once", "exactly one of
\* Ack, Nak or Term").
OneTerminator == \A d \in Deliveries : calls[d] <= 1

\* When a batch is copied, the stream row of each of its records exists: what
\* the shared cache claims was committed, so the foreign key never fails.
StreamsFirst ==
  \A w \in Workers : pc[w] \in {"records", "staging"} => ForeignKeyOK(w)

\* After a shutdown in which no wait timed out, every delivery the process had
\* taken has been terminated: nothing waits for AckWait to come back.
CleanShutdownSettles ==
  phase = "closed" /\ timedOut = {} =>
    \A m \in Messages : \A n \in 1 .. deliveries[m] :
      <<m, n>> \in forgotten \/ calls[<<m, n>>] = 1

\* A shutdown caused by a failing listener writes every shipment Submit
\* accepted, unless a wait timed out.
DiscardNeedsSignal == abandoned # {} => ctxDone \/ timedOut # {}

\* "Nothing new is pulled; nothing nearly-queued is discarded", whatever the
\* cause of the shutdown.
NothingDiscarded == timedOut = {} => abandoned = {}

\* A Submit that waits for room in the channel has a worker left to make it, or
\* a closing writer to refuse it.
SubmitIsServed ==
  hpc = "blocked" => WriterClosing \/ \E w \in Workers : pc[w] # "done"

\* drainAbandoned leaves no shipment in the channel of a closed writer, where
\* its caller would wait forever for the Ack.
NoneLeftBehind == phase = "closed" /\ "close" \notin timedOut => in = {}

\* What makes the safety properties inductive, in four parts.  Places: a
\* delivery in memory is in one place only, not yet terminated, and delivered.
Waiting(d) == calls[d] = 0 /\ d[2] <= deliveries[d[1]]
Places ==
  /\ \A d \in in : Waiting(d)
  /\ \A w \in Workers : \A d \in batch[w] : Waiting(d)
  /\ hpc # "idle" => Waiting(hd)
  /\ hpc # "idle" => hd \notin in /\ \A w \in Workers : hd \notin batch[w]
  /\ \A w \in Workers : in \cap batch[w] = {}
  /\ \A v, w \in Workers : v # w => batch[v] \cap batch[w] = {}
  /\ \A d \in Deliveries : calls[d] > 0 => d[2] <= deliveries[d[1]]

\* Durability: a shipment carries every record of its message that is not too
\* old, and a batch about to be acked as written is written.
Complete(d) == RecordsOf[d[1]] \subseteq kept[d] \cup aged
Durability ==
  /\ \A d \in in : Complete(d)
  /\ \A w \in Workers : \A d \in batch[w] : Complete(d)
  /\ hpc \in {"select", "blocked"} => Complete(hd)
  /\ \A w \in Workers : pc[w] = "ack" /\ outcome[w] = "ok" =>
       \A d \in batch[w] : kept[d] \subseteq rows

\* Cached streams have their row; so do those of a batch, or they are pending.
StreamRows ==
  /\ cache \subseteq streamRows
  /\ \A w \in Workers : \A d \in batch[w] : StreamOf[d[1]] \in streams[w] \cup streamRows
  /\ \A w \in Workers : pc[w] \in {"records", "staging"} => streams[w] = {}

\* Shutdown: what the waits of Stop and Close guarantee when they are not cut
\* short, and that only a signal makes a worker drain before the writer closes.
Shutdown ==
  /\ \A d \in Deliveries :
       d[2] <= deliveries[d[1]] =>
         \/ calls[d] = 1 \/ d \in forgotten \/ d \in in
         \/ hpc # "idle" /\ d = hd
         \/ \E w \in Workers : d \in batch[w]
  /\ phase \in {"stopped", "closing", "closed"} /\ timedOut = {} => hpc = "idle"
  /\ \A w \in Workers : pc[w] = "done" => batch[w] = {} /\ mode[w] = "last"
  /\ ~ctxDone /\ ~WriterClosing => \A w \in Workers : mode[w] = "run"
  /\ ~ctxDone /\ WriterClosing /\ timedOut = {} =>
       \A w \in Workers : mode[w] = "last" => in = {}
  /\ phase = "closed" /\ timedOut = {} => in = {} /\ \A w \in Workers : pc[w] = "done"

\* The inductive invariant: the callback, the workers and a shutdown never get
\* hold of the same delivery, and each knows of it what its next step relies on.
IInv ==
  /\ TypeOK /\ Places /\ Durability /\ StreamRows /\ Shutdown
  /\ AckedIsDurable /\ OneTerminator /\ DiscardNeedsSignal

\* Every message is eventually stored, or dropped as poison, across failed
\* writes, lost acks, crashes and shutdowns.
QueueDrains == <>(queue = {})
=============================================================================
