------------------------------- MODULE Ingest -------------------------------
(***************************************************************************)
(* The ingest side of one collector:                                       *)
(*   src/internal/ingest/handler.go    one handler per gRPC stream         *)
(*   src/internal/ingest/pipeline.go   bounded channel, publisher pool     *)
(*   src/internal/ingest/server.go     the order of a shutdown             *)
(*   src/internal/queue/nats.go        Publish, its errors, Fanout         *)
(* around them, external, the gRPC server and the JetStream broker.        *)
(*                                                                         *)
(* A batch is a pair <<s, n>>, the n-th one read from stream s.  A payload *)
(* is the batch its buffer was last marshaled from, so that a buffer that  *)
(* is reused while it is still being written to the broker shows up as a   *)
(* message whose payload is not the batch it was published for.  Metrics   *)
(* and traces are left out.                                                *)
(***************************************************************************)
EXTENDS Integers, Sequences, FiniteSets, Functions

CONSTANTS
  Streams,      \* streams agents may open
  Publishers,   \* the pipeline's publishers
  BufferSize,   \* capacity of the pipeline's channel
  \* Bounds.
  MaxBatches,   \* stream -> batches sent on it
  MaxBufs       \* payload buffers in the process

ASSUME IngestAssumption ==
  /\ Publishers # {} /\ IsFiniteSet(Publishers) /\ IsFiniteSet(Streams)
  /\ BufferSize \in Nat \ {0}
  /\ MaxBatches \in [Streams -> Nat]
  \* One for every handler, every publisher and every queued job.
  /\ MaxBufs \in Nat /\ MaxBufs >= Cardinality(Streams) + Cardinality(Publishers) + BufferSize

VARIABLES
  \* Per stream: its handler's position, batches read, the ack being built, the
  \* result of submit's reply channel, and whether the stream is broken.
  hpc, read, code, reply, gone,
  buf,          \* stream -> the payload buffer its handler holds
  answers,      \* stream -> acks sent, in order
  \* Pipeline.
  in, ppc, draining, job,
  \* Payload buffers.
  pool, content,
  \* Broker: <<batch published, payload>> pairs.
  stored, late, tailed,
  \* Server.
  phase, timedOut

handlerVars == <<hpc, read, code, reply, buf, answers>>
pubVars == <<ppc, draining, job>>
brokerVars == <<stored, late, tailed>>
serverVars == <<phase, timedOut>>
vars == <<handlerVars, gone, in, pubVars, pool, content, brokerVars, serverVars>>

Batches == UNION {{s} \X (1 .. MaxBatches[s]) : s \in Streams}
Bufs == 1 .. MaxBufs
NoBuf == 0
NoJob == [batch |-> <<>>, buf |-> NoBuf]
Jobs == [batch : Batches, buf : Bufs]
\* "bad": invalid labels or no valid record; "odd": does not encode.
Kinds == {"good", "bad", "odd"}
Codes == {"ACCEPTED", "OVERLOADED", "INVALID", "INTERNAL"}
Results == {"ok", "unavailable", "overloaded", "tooLarge"}
Current(s) == <<s, read[s]>>

-----------------------------------------------------------------------------
(* The payload pool.                                                       *)

\* Buffers some handler, queued job or publisher still refers to.
Referenced ==
  {buf[s] : s \in Streams} \cup {j.buf : j \in Range(in)} \cup {job[p].buf : p \in Publishers}

\* payloadPool.Get: a pooled buffer or a new one.  A buffer that nobody refers
\* to and that was not put back is garbage, hence as good as new; of the
\* buffers that are alike any is taken.
Get ==
  LET new == Bufs \ (pool \cup Referenced)
  IN  CHOOSE b \in IF pool # {} THEN pool ELSE new : TRUE

\* Get's user truncates the buffer, so the bytes of a buffer nobody refers to
\* are never read and are not kept.
KeepContent ==
  content' = [b \in Bufs |-> IF b \in Referenced' THEN content[b] ELSE <<>>]

-----------------------------------------------------------------------------
(* Handlers.                                                               *)

OpenStream(s) ==
  /\ phase = "serve" /\ hpc[s] = "none"
  /\ hpc' = [hpc EXCEPT ![s] = "recv"]
  /\ UNCHANGED <<read, code, reply, buf, answers, gone, in, pubVars, pool, content,
                 brokerVars, serverVars>>

\* The connection breaks or the agent cancels: the stream's context is done.
HangUp(s) ==
  /\ hpc[s] \notin {"none", "done"} /\ ~gone[s]
  /\ gone' = [gone EXCEPT ![s] = TRUE]
  /\ UNCHANGED <<handlerVars, in, pubVars, pool, content, brokerVars, serverVars>>

\* Recv fails, or reports that the agent closed its side.
RecvEnds(s) ==
  /\ hpc[s] = "recv"
  /\ hpc' = [hpc EXCEPT ![s] = "done"]
  /\ UNCHANGED <<read, code, reply, buf, answers, gone, in, pubVars, pool, content,
                 brokerVars, serverVars>>

\* Recv returns a batch and process rejects it: it is not valid, it does not
\* encode, or the pipeline is closed (a buffer is taken and put back).
Reject(s, kind) ==
  /\ hpc[s] = "recv" /\ read[s] < MaxBatches[s]
  /\ kind \in {"bad", "odd"} \/ phase \in {"closing", "closed"}
  /\ read' = [read EXCEPT ![s] = @ + 1]
  /\ code' = [code EXCEPT ![s] = IF kind = "bad" THEN "INVALID" ELSE "INTERNAL"]
  /\ hpc' = [hpc EXCEPT ![s] = "send"]
  /\ pool' = IF kind = "bad" THEN pool ELSE pool \cup {Get}
  /\ UNCHANGED <<reply, buf, answers, gone, in, pubVars, content, brokerVars, serverVars>>

\* Recv returns a batch, process marshals it and submit finds the pipeline open.
Receive(s) ==
  /\ hpc[s] = "recv" /\ read[s] < MaxBatches[s]
  /\ phase \notin {"closing", "closed"}
  /\ read' = [read EXCEPT ![s] = @ + 1]
  /\ pool' = pool \ {Get}
  /\ content' = [content EXCEPT ![Get] = Current(s)']
  /\ buf' = [buf EXCEPT ![s] = Get]
  /\ hpc' = [hpc EXCEPT ![s] = "offer"]
  /\ UNCHANGED <<code, reply, answers, gone, in, pubVars, brokerVars, serverVars>>

\* submit's first select: the job enters the channel.
Enqueue(s) ==
  /\ hpc[s] = "offer" /\ Len(in) < BufferSize
  /\ in' = Append(in, [batch |-> Current(s), buf |-> buf[s]])
  /\ reply' = [reply EXCEPT ![s] = "empty"]
  /\ hpc' = [hpc EXCEPT ![s] = "wait"]
  /\ UNCHANGED <<read, code, buf, answers, gone, pubVars, pool, content, brokerVars,
                 serverVars>>

\* submit's first select: the channel is full, the batch is shed.
Shed(s) ==
  /\ hpc[s] = "offer" /\ Len(in) = BufferSize
  /\ code' = [code EXCEPT ![s] = "OVERLOADED"]
  /\ pool' = pool \cup {buf[s]}
  /\ buf' = [buf EXCEPT ![s] = NoBuf]
  /\ hpc' = [hpc EXCEPT ![s] = "send"]
  /\ UNCHANGED <<read, reply, answers, gone, in, pubVars, brokerVars, serverVars>>
  /\ KeepContent

\* Mutant of PublishFailed: a broker that did not answer reads as a bad batch.
PublishFailedDrops(err) ==
  CASE err = "overloaded" -> "OVERLOADED"
    [] err \in {"tooLarge", "unavailable"} -> "INVALID"
    [] err = "canceled" -> "INTERNAL"

\* publishFailed's switch, for the errors that do not keep the job out of the
\* pipeline (Reject and Shed have the others).
PublishFailed(err) ==
  CASE err = "overloaded" -> "OVERLOADED"
    [] err = "tooLarge" -> "INVALID"
    [] err \in {"unavailable", "canceled"} -> "INTERNAL"

\* submit returns nil: the tail copy goes out, the buffer goes back.
Accepted(s) ==
  /\ hpc[s] = "wait" /\ reply[s] = "ok"
  /\ code' = [code EXCEPT ![s] = "ACCEPTED"]
  /\ tailed' = tailed \cup {<<Current(s), content[buf[s]]>>}
  /\ pool' = pool \cup {buf[s]}
  /\ buf' = [buf EXCEPT ![s] = NoBuf]
  /\ hpc' = [hpc EXCEPT ![s] = "send"]
  /\ UNCHANGED <<read, reply, answers, gone, in, pubVars, stored, late, serverVars>>
  /\ KeepContent

\* What submit may return with, other than nil: the publisher's error, or the
\* stream's context being done; when both are ready the select takes either.
SubmitErrors(s) ==
  ({reply[s]} \cap (Results \ {"ok"})) \cup (IF gone[s] THEN {"canceled"} ELSE {})

\* Mutant of Failed: the buffer is put back whatever the error.
FailedPutsBack(s) ==
  /\ hpc[s] = "wait"
  /\ \E err \in SubmitErrors(s) : code' = [code EXCEPT ![s] = PublishFailed(err)]
  /\ pool' = pool \cup {buf[s]}
  /\ buf' = [buf EXCEPT ![s] = NoBuf]
  /\ hpc' = [hpc EXCEPT ![s] = "send"]
  /\ UNCHANGED <<read, reply, answers, gone, in, pubVars, brokerVars, serverVars>>
  /\ KeepContent

\* submit returns an error other than shed or closed: the publisher may still be
\* writing the buffer, so it is not put back.
Failed(s) ==
  /\ hpc[s] = "wait"
  /\ \E err \in SubmitErrors(s) : code' = [code EXCEPT ![s] = PublishFailed(err)]
  /\ buf' = [buf EXCEPT ![s] = NoBuf]
  /\ hpc' = [hpc EXCEPT ![s] = "send"]
  /\ UNCHANGED <<read, reply, answers, gone, in, pubVars, pool, brokerVars,
                 serverVars>>
  /\ KeepContent

\* Mutant of Send: a failed Send does not end the handler.
SendGoesOn(s) ==
  /\ hpc[s] = "send"
  /\ hpc' = [hpc EXCEPT ![s] = "recv"]
  /\ answers' = IF gone[s] THEN answers ELSE [answers EXCEPT ![s] = Append(@, code[s])]
  /\ code' = [code EXCEPT ![s] = "none"]
  /\ reply' = [reply EXCEPT ![s] = "none"]
  /\ UNCHANGED <<read, buf, gone, in, pubVars, pool, content, brokerVars, serverVars>>

\* Send fails on a broken stream, which ends the handler.
Send(s) ==
  /\ hpc[s] = "send"
  /\ IF gone[s]
       THEN hpc' = [hpc EXCEPT ![s] = "done"] /\ UNCHANGED answers
       ELSE /\ hpc' = [hpc EXCEPT ![s] = "recv"]
            /\ answers' = [answers EXCEPT ![s] = Append(@, code[s])]
  /\ code' = [code EXCEPT ![s] = "none"]
  /\ reply' = [reply EXCEPT ![s] = "none"]
  /\ UNCHANGED <<read, buf, gone, in, pubVars, pool, content, brokerVars, serverVars>>

-----------------------------------------------------------------------------
(* Publishers.                                                             *)

\* The select of publish, or of drain, receives a job.
Take(p) ==
  /\ ppc[p] = "idle" /\ in # <<>>
  /\ job' = [job EXCEPT ![p] = Head(in)]
  /\ in' = Tail(in)
  /\ ppc' = [ppc EXCEPT ![p] = "busy"]
  /\ UNCHANGED <<handlerVars, gone, draining, pool, content, brokerVars, serverVars>>

\* External: what Publish may report for a job and what the broker then holds.
\* A message the broker finds too large or has no room for is not stored;
\* without an answer in time it may be lost or still be stored later.
Outcomes(j) ==
  LET message == <<j.batch, content[j.buf]>>
  IN  {[err |-> "ok", stored |-> {message}, late |-> {}],
       [err |-> "unavailable", stored |-> {}, late |-> {message}]}
      \cup {[err |-> e, stored |-> {}, late |-> {}]
               : e \in {"overloaded", "tooLarge", "unavailable"}}

\* The reply channel is buffered: a handler that has left never reads it.
Publish(p) ==
  /\ ppc[p] = "busy"
  /\ \E o \in Outcomes(job[p]) :
       /\ stored' = stored \cup o.stored
       /\ late' = late \cup o.late
       /\ reply' = [s \in Streams |->
                     IF hpc[s] = "wait" /\ Current(s) = job[p].batch THEN o.err ELSE reply[s]]
  /\ ppc' = [ppc EXCEPT ![p] = "idle"]
  /\ job' = [job EXCEPT ![p] = NoJob]
  /\ UNCHANGED <<hpc, read, code, buf, answers, gone, in, draining, pool, tailed,
                 serverVars>>
  /\ KeepContent

\* External: the broker gets to a message whose publisher gave up on it.
LateStore(m) ==
  /\ m \in late
  /\ stored' = stored \cup {m}
  /\ late' = late \ {m}
  /\ UNCHANGED <<handlerVars, gone, in, pubVars, pool, content, tailed, serverVars>>

\* The select of publish sees quit closed, and drain begins.
Quit(p) ==
  /\ ppc[p] = "idle" /\ ~draining[p] /\ phase \in {"closing", "closed"}
  /\ draining' = [draining EXCEPT ![p] = TRUE]
  /\ UNCHANGED <<handlerVars, gone, in, ppc, job, pool, content, brokerVars, serverVars>>

\* Mutant of Drained: quit ends a publisher without draining the channel.
DrainedAtOnce(p) ==
  /\ ppc[p] = "idle" /\ draining[p]
  /\ ppc' = [ppc EXCEPT ![p] = "exited"]
  /\ UNCHANGED <<handlerVars, gone, in, draining, job, pool, content, brokerVars, serverVars>>

\* drain finds the channel empty.
Drained(p) ==
  /\ ppc[p] = "idle" /\ draining[p] /\ in = <<>>
  /\ ppc' = [ppc EXCEPT ![p] = "exited"]
  /\ UNCHANGED <<handlerVars, gone, in, draining, job, pool, content, brokerVars, serverVars>>

-----------------------------------------------------------------------------
(* Server.Shutdown.                                                        *)

HandlersGone == \A s \in Streams : hpc[s] \in {"none", "done"}

\* GracefulStop refuses new streams and waits for the handlers.
ShutdownBegins ==
  /\ phase = "serve"
  /\ phase' = "graceful"
  /\ UNCHANGED <<handlerVars, gone, in, pubVars, pool, content, brokerVars, timedOut>>

\* Mutant of DeadlinePasses: streams are left to end by themselves.
DeadlineWaits ==
  /\ phase = "graceful"
  /\ phase' = "forced"
  /\ UNCHANGED <<handlerVars, gone, in, pubVars, pool, content, brokerVars, timedOut>>

\* ctx expires: Stop closes every connection.
DeadlinePasses ==
  /\ phase = "graceful"
  /\ phase' = "forced"
  /\ gone' = [s \in Streams |-> gone[s] \/ hpc[s] \notin {"none", "done"}]
  /\ UNCHANGED <<handlerVars, in, pubVars, pool, content, brokerVars, timedOut>>

\* Mutant of ClosePipeline: the publishers are stopped first.
ClosePipelineFirst ==
  /\ phase \in {"graceful", "forced"}
  /\ phase' = "closing"
  /\ UNCHANGED <<handlerVars, gone, in, pubVars, pool, content, brokerVars, timedOut>>

\* GracefulStop returned, on its own or because of Stop; close sets closing
\* and closes quit.
ClosePipeline ==
  /\ phase \in {"graceful", "forced"} /\ HandlersGone
  /\ phase' = "closing"
  /\ UNCHANGED <<handlerVars, gone, in, pubVars, pool, content, brokerVars, timedOut>>

\* close returns: every publisher has exited, or its context expired first
\* (pipelineDrainGrace, after a forced stop).
CloseReturns(expired) ==
  /\ phase = "closing"
  /\ expired \/ \A p \in Publishers : ppc[p] = "exited"
  /\ phase' = "closed"
  /\ timedOut' = expired
  /\ UNCHANGED <<handlerVars, gone, in, pubVars, pool, content, brokerVars>>

-----------------------------------------------------------------------------

Init ==
  /\ hpc = [s \in Streams |-> "none"]
  /\ read = [s \in Streams |-> 0]
  /\ code = [s \in Streams |-> "none"]
  /\ reply = [s \in Streams |-> "none"]
  /\ gone = [s \in Streams |-> FALSE]
  /\ buf = [s \in Streams |-> NoBuf]
  /\ answers = [s \in Streams |-> <<>>]
  /\ in = <<>>
  /\ ppc = [p \in Publishers |-> "idle"]
  /\ draining = [p \in Publishers |-> FALSE]
  /\ job = [p \in Publishers |-> NoJob]
  /\ pool = {}
  /\ content = [b \in Bufs |-> <<>>]
  /\ stored = {} /\ late = {} /\ tailed = {}
  /\ phase = "serve" /\ timedOut = FALSE

Submit(s) == Enqueue(s) \/ Shed(s)
Reply(s) == Accepted(s) \/ Failed(s)
Stop == ClosePipeline \/ DeadlinePasses \/ \E expired \in BOOLEAN : CloseReturns(expired)
PublisherStep(p) == Take(p) \/ Publish(p) \/ Quit(p) \/ Drained(p)
\* What a handler does whether or not its agent does anything.
HandlerStep(s) == Submit(s) \/ Reply(s) \/ Send(s) \/ (gone[s] /\ RecvEnds(s))

Next ==
  \/ \E s \in Streams :
       \/ OpenStream(s) \/ HangUp(s) \/ RecvEnds(s) \/ Receive(s)
       \/ \E kind \in Kinds : Reject(s, kind)
       \/ Submit(s) \/ Reply(s) \/ Send(s)
  \/ \E p \in Publishers : PublisherStep(p)
  \/ \E m \in late : LateStore(m)
  \/ ShutdownBegins \/ Stop

Spec == Init /\ [][Next]_vars

\* Goroutines run, Publish returns within the publish timeout, Recv notices a
\* broken stream, contexts expire.  A handler is in one place at a time, so its
\* steps share a conjunct.  Agents need not send, nor end a stream.
FairSpec ==
  /\ Spec
  /\ \A s \in Streams : WF_vars(HandlerStep(s))
  /\ \A p \in Publishers : WF_vars(PublisherStep(p))
  /\ WF_vars(Stop)

-----------------------------------------------------------------------------

\* Types; a stream is owed at most one answer, and a reply belongs to a handler
\* that waits (Stream handles batches strictly one after the other).
TypeOK ==
  /\ hpc \in [Streams -> {"none", "recv", "offer", "wait", "send", "done"}]
  /\ read \in [Streams -> Nat] /\ \A s \in Streams : read[s] <= MaxBatches[s]
  /\ code \in [Streams -> Codes \cup {"none"}]
  /\ reply \in [Streams -> Results \cup {"none", "empty"}]
  /\ gone \in [Streams -> BOOLEAN]
  /\ buf \in [Streams -> Bufs \cup {NoBuf}]
  /\ answers \in [Streams -> Seq(Codes)]
  /\ in \in Seq(Jobs) /\ Len(in) <= BufferSize
  /\ ppc \in [Publishers -> {"idle", "busy", "exited"}]
  /\ draining \in [Publishers -> BOOLEAN]
  /\ job \in [Publishers -> Jobs \cup {NoJob}]
  /\ pool \subseteq Bufs
  /\ content \in [Bufs -> Batches \cup {<<>>}]
  /\ stored \cup late \cup tailed \subseteq Batches \X Batches
  /\ phase \in {"serve", "graceful", "forced", "closing", "closed"}
  /\ timedOut \in BOOLEAN
  /\ \A s \in Streams : read[s] - Len(answers[s]) \in {0, 1}

\* The collector keeps the contract of AckStream: answers in order, ACCEPTED
\* only after the publish was acknowledged, INVALID and OVERLOADED only when
\* nothing can become durable any more ("an ack means durable, you may forget
\* it, so it is produced only after the queue has acknowledged the publish").
Contract == INSTANCE AckStream WITH durable <- {b \in Batches : <<b, b>> \in stored}
AckContract == Contract!Spec

\* process: "a leaked buffer is garbage while a reused live one is corruption".
\* What is published, durably or to the tail, is the batch it was published for.
PayloadIntact == \A m \in stored \cup late \cup tailed : m[1] = m[2]

\* main: "in-flight batches get their publish finished": when Shutdown returns
\* without having given up on the pipeline, no job is queued or in a
\* publisher's hands, not even one whose handler has left.
CleanShutdown ==
  phase = "closed" /\ ~timedOut =>
    /\ in = <<>>
    /\ \A p \in Publishers : job[p] = NoJob

\* Every handler that waits for a reply will get one: its job is queued with a
\* publisher left to take it, is being published, or has been replied to ("a
\* handler blocked on a reply would otherwise be waiting on publishers that
\* have already exited").
NoOrphanWait ==
  \A s \in Streams : hpc[s] = "wait" =>
    \/ reply[s] # "empty"
    \/ \E p \in Publishers : job[p].batch = Current(s)
    \/ /\ \E j \in Range(in) : j.batch = Current(s)
       /\ \E p \in Publishers : ppc[p] # "exited"

\* Every goroutine of the service ends its work with another to take it over: no
\* handler waits for publishers that have exited, and none of the jobs accepted
\* before a shutdown is left in the channel after it.
ShutdownOrdered == TypeOK /\ NoOrphanWait /\ CleanShutdown

\* Shutdown returns, although idle agents keep their streams open.
ShutdownReturns == phase = "graceful" ~> phase = "closed"

=============================================================================
