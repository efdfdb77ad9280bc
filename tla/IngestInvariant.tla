-------------------------- MODULE IngestInvariant --------------------------
(***************************************************************************)
(* The inductive invariant of module Ingest.  First the parts of it that   *)
(* do not depend on what was answered: types, positions of handlers and    *)
(* publishers, the order of a shutdown, and that a batch is submitted      *)
(* once.  Then the parts that are about batches: what has been said of     *)
(* each (Verdict) agrees with whether it still has a job (Outstanding) and *)
(* with what the broker holds, and whoever refers to a payload buffer      *)
(* finds its own batch there.                                              *)
(***************************************************************************)
EXTENDS Ingest, TLAPS

USE SMTT(30)

-----------------------------------------------------------------------------
(* The inductive invariant.                                                *)

\* What a handler has read, holds and owes at each point of Stream's loop.
Positions ==
  \A s \in Streams :
    /\ hpc[s] \in {"none", "recv"} => read[s] = Len(answers[s])
    /\ hpc[s] \in {"offer", "wait", "send"} => read[s] = Len(answers[s]) + 1
    /\ hpc[s] = "wait" => reply[s] # "none"
    /\ hpc[s] = "send" => code[s] # "none"
    /\ buf[s] # NoBuf <=> hpc[s] \in {"offer", "wait"}

\* A publisher has a job exactly while it publishes.
Hands == \A p \in Publishers : job[p] \in Jobs <=> ppc[p] = "busy"

\* Whoever refers to a buffer finds its own batch there, and no such buffer is
\* in the pool.
Buffers ==
  /\ \A s \in Streams : hpc[s] \in {"offer", "wait"} => content[buf[s]] = Current(s)
  /\ \A i \in DOMAIN in : content[in[i].buf] = in[i].batch
  /\ \A p \in Publishers : ppc[p] = "busy" => content[job[p].buf] = job[p].batch
  /\ pool \cap Referenced = {}

\* A batch is submitted once.
OneJobEach ==
  /\ \A i, k \in DOMAIN in : in[i].batch = in[k].batch => i = k
  /\ \A i \in DOMAIN in, p \in Publishers : ppc[p] = "busy" => in[i].batch # job[p].batch
  /\ \A p, q \in Publishers :
       ppc[p] = "busy" /\ ppc[q] = "busy" /\ job[p].batch = job[q].batch => p = q

\* What has been said of a batch so far: the answer sent, the ack being built,
\* the publisher's result, or how far its handler got with it.
Verdict(b) ==
  LET s == b[1]
      n == b[2]
  IN  IF n <= Len(answers[s]) THEN answers[s][n]
      ELSE IF n # read[s] THEN "unread"
      ELSE IF hpc[s] = "send" THEN code[s]
      ELSE IF hpc[s] = "wait" THEN reply[s]
      ELSE hpc[s]

\* Batches that are queued or being published.
Outstanding ==
  {in[i].batch : i \in DOMAIN in} \cup {job[p].batch : p \in {q \in Publishers : ppc[q] = "busy"}}

\* A job may still be published, or a message stored, only if nobody was told
\* that it will not be; whoever was told that it is stored was told the truth.
\* "done": the handler left without an answer.
Ledger ==
  \A b \in Batches :
    /\ b \in Outstanding => Verdict(b) \in {"empty", "INTERNAL", "done"}
    /\ <<b, b>> \in late => Verdict(b) \in {"unavailable", "INTERNAL", "done"}
    /\ <<b, b>> \in stored =>
         Verdict(b) \in {"ok", "unavailable", "ACCEPTED", "INTERNAL", "done"}
    /\ Verdict(b) \in {"ok", "ACCEPTED"} => <<b, b>> \in stored

\* A handler that waits without a result has a job somewhere.
Awaited ==
  \A s \in Streams : hpc[s] = "wait" /\ reply[s] = "empty" => Current(s) \in Outstanding

\* The order of Server.Shutdown: handlers, then publishers, then the return.
Stopping ==
  /\ phase \in {"closing", "closed"} => HandlersGone
  /\ \A p \in Publishers : draining[p] => phase \in {"closing", "closed"}
  /\ \A p \in Publishers : ppc[p] = "exited" => draining[p] /\ in = <<>>
  /\ phase = "closed" /\ ~timedOut => \A p \in Publishers : ppc[p] = "exited"

\* payloadPool.Get always finds a buffer nobody refers to.
FreeBuffer == \A s \in Streams : buf[s] = NoBuf => Get \in Bufs /\ Get \notin Referenced

IInv ==
  /\ TypeOK /\ Positions /\ Hands /\ Buffers /\ OneJobEach /\ Ledger
  /\ Awaited /\ Stopping /\ PayloadIntact

-----------------------------------------------------------------------------
(* Facts the proofs keep needing.                                          *)

\* What the proofs use of the assumptions on the constants.
LEMMA Bounds ==
  /\ Publishers # {} /\ IsFiniteSet(Publishers) /\ IsFiniteSet(Streams)
  /\ BufferSize \in Nat \ {0} /\ MaxBufs \in Nat
  /\ MaxBatches \in [Streams -> Nat]
  /\ MaxBufs >= Cardinality(Streams) + Cardinality(Publishers) + BufferSize
  BY IngestAssumption, Zenon

\* A batch is a stream and the number of one of its batches.
LEMMA BatchIs ==
  /\ \A b \in Batches : /\ b[1] \in Streams /\ b[2] \in Nat
                       /\ 1 <= b[2] /\ b[2] <= MaxBatches[b[1]] /\ b = <<b[1], b[2]>>
  /\ \A s \in Streams, n \in Nat : 1 <= n /\ n <= MaxBatches[s] => <<s, n>> \in Batches
<1>1. ASSUME NEW b \in Batches
      PROVE  /\ b[1] \in Streams /\ b[2] \in Nat
             /\ 1 <= b[2] /\ b[2] <= MaxBatches[b[1]] /\ b = <<b[1], b[2]>>
  <2>1. PICK s \in Streams : b \in {s} \X (1 .. MaxBatches[s])
    BY Zenon DEF Batches
  <2> QED
    BY <2>1, Bounds
<1>2. ASSUME NEW s \in Streams, NEW n \in Nat, 1 <= n, n <= MaxBatches[s]
      PROVE  <<s, n>> \in Batches
  <2>1. <<s, n>> \in {s} \X (1 .. MaxBatches[s])
    BY <1>2, Bounds
  <2> QED
    BY <2>1, Zenon DEF Batches
<1> QED
  BY <1>1, <1>2, Zenon

\* The batch a handler has in its hands is a batch.
LEMMA CurrentIs ==
  ASSUME TypeOK, Positions, NEW s \in Streams, hpc[s] \in {"offer", "wait", "send"}
  PROVE  /\ Current(s) \in Batches /\ Current(s)[1] = s /\ Current(s)[2] = read[s]
         /\ read[s] = Len(answers[s]) + 1
<1>1. read[s] \in Nat /\ read[s] <= MaxBatches[s] /\ answers[s] \in Seq(Codes)
  BY Zenon DEF TypeOK
<1>2. read[s] = Len(answers[s]) + 1
  BY Zenon DEF Positions
<1> QED
  BY <1>1, <1>2, BatchIs DEF Current

-----------------------------------------------------------------------------
(* Types.                                                                  *)

\* A collector that has just started (NewServer, newPipeline).
LEMMA InitKeeps == Init => IInv
<1> SUFFICES ASSUME Init PROVE IInv
  BY Zenon
<1> USE DEF Init
<1>1. TypeOK
  <2>1. /\ read \in [Streams -> Nat] /\ \A s \in Streams : read[s] <= MaxBatches[s]
        /\ answers \in [Streams -> Seq(Codes)]
        /\ \A s \in Streams : read[s] - Len(answers[s]) \in {0, 1}
        /\ in \in Seq(Jobs) /\ Len(in) <= BufferSize
    BY Bounds
  <2>2. /\ gone \in [Streams -> BOOLEAN] /\ draining \in [Publishers -> BOOLEAN]
        /\ timedOut \in BOOLEAN /\ job \in [Publishers -> Jobs \cup {NoJob}]
        /\ buf \in [Streams -> Bufs \cup {NoBuf}] /\ content \in [Bufs -> Batches \cup {<<>>}]
        /\ code \in [Streams -> Codes \cup {"none"}]
        /\ reply \in [Streams -> Results \cup {"none", "empty"}]
        /\ hpc \in [Streams -> {"none", "recv", "offer", "wait", "send", "done"}]
        /\ ppc \in [Publishers -> {"idle", "busy", "exited"}]
    BY Zenon
  <2> QED
    BY <2>1, <2>2, Zenon DEF TypeOK
<1>2. Positions
  BY Zenon DEF Positions, NoBuf
<1>3. Hands
  <2>1. NoJob \notin Jobs
    BY Bounds DEF NoJob, Jobs, NoBuf, Bufs
  <2> QED
    BY <2>1, Zenon DEF Hands
<1>4. Buffers /\ OneJobEach /\ Awaited /\ Stopping
  BY DEF Buffers, OneJobEach, Awaited, Stopping, HandlersGone
<1>5. Ledger
  <2>1. ASSUME NEW b \in Batches PROVE Verdict(b) = "unread"
    BY BatchIs DEF Verdict
  <2>2. Outstanding = {}
    BY DEF Outstanding
  <2> QED
    BY <2>1, <2>2, Zenon DEF Ledger
<1>6. PayloadIntact
  BY Zenon DEF PayloadIntact
<1> QED
  BY <1>1, <1>2, <1>3, <1>4, <1>5, <1>6, Zenon DEF IInv

\* The bytes of a buffer somebody refers to are kept, and types with them.
LEMMA KeptContent ==
  ASSUME TypeOK, KeepContent
  PROVE  /\ content' \in [Bufs -> Batches \cup {<<>>}]
         /\ \A b \in Bufs : b \in Referenced' => content'[b] = content[b]
  BY Zenon DEF KeepContent, TypeOK

\* Recv adds a batch to those read.
LEMMA OneMoreRead ==
  ASSUME TypeOK, NEW s \in Streams, read[s] < MaxBatches[s], read[s] = Len(answers[s]),
         read' = [read EXCEPT ![s] = @ + 1]
  PROVE  /\ read' \in [Streams -> Nat] /\ \A t \in Streams : read'[t] <= MaxBatches[t]
         /\ \A t \in Streams : read'[t] - Len(answers[t]) \in {0, 1}
         /\ read'[s] = read[s] + 1
<1>1. /\ read \in [Streams -> Nat] /\ \A t \in Streams : read[t] <= MaxBatches[t]
      /\ \A t \in Streams : read[t] - Len(answers[t]) \in {0, 1}
  BY Zenon DEF TypeOK
<1>2. read'[s] = read[s] + 1 /\ \A t \in Streams \ {s} : read'[t] = read[t]
  BY <1>1, Zenon
<1>3. read[s] + 1 <= MaxBatches[s] /\ (read[s] + 1) - Len(answers[s]) = 1
  BY <1>1, Bounds
<1> QED
  BY <1>1, <1>2, <1>3

\* Every action preserves the types.
LEMMA TypeNext == IInv /\ FreeBuffer /\ Next => TypeOK'
<1> SUFFICES ASSUME IInv, FreeBuffer, Next PROVE TypeOK'
  BY Zenon
<1> USE DEF IInv
<1>1. ASSUME NEW s \in Streams, OpenStream(s) \/ HangUp(s) \/ RecvEnds(s)
      PROVE  TypeOK'
  <2>1. /\ hpc' \in [Streams -> {"none", "recv", "offer", "wait", "send", "done"}]
        /\ gone' \in [Streams -> BOOLEAN]
    BY <1>1, Zenon DEF OpenStream, HangUp, RecvEnds, TypeOK, handlerVars
  <2>2. UNCHANGED <<read, code, reply, buf, answers, in, pubVars, pool, content, brokerVars,
                    serverVars>>
    BY <1>1, Zenon DEF OpenStream, HangUp, RecvEnds, handlerVars
  <2> QED
    BY <2>1, <2>2, Zenon DEF TypeOK, pubVars, brokerVars, serverVars
<1>2. ASSUME NEW s \in Streams, NEW kind \in Kinds, Reject(s, kind)
      PROVE  TypeOK'
  <2>1. hpc[s] = "recv" /\ read[s] < MaxBatches[s] /\ read[s] = Len(answers[s]) /\ buf[s] = NoBuf
    BY <1>2, Zenon DEF Reject, Positions
  <2>2. Get \in Bufs
    BY <2>1, Zenon DEF FreeBuffer
  <2>3. pool' \subseteq Bufs
    BY <1>2, <2>2, Zenon DEF Reject, TypeOK
  <2>4. /\ read' \in [Streams -> Nat] /\ \A t \in Streams : read'[t] <= MaxBatches[t]
        /\ \A t \in Streams : read'[t] - Len(answers[t]) \in {0, 1}
    BY <1>2, <2>1, OneMoreRead, Zenon DEF Reject
  <2> QED
    BY <1>2, <2>3, <2>4, Zenon DEF Reject, TypeOK, Codes, pubVars, brokerVars, serverVars
<1>3. ASSUME NEW s \in Streams, Receive(s)
      PROVE  TypeOK'
  <2>1. hpc[s] = "recv" /\ read[s] < MaxBatches[s] /\ read[s] = Len(answers[s]) /\ buf[s] = NoBuf
    BY <1>3, Zenon DEF Receive, Positions
  <2>2. Get \in Bufs
    BY <2>1, Zenon DEF FreeBuffer
  <2>3. pool' \subseteq Bufs /\ buf' \in [Streams -> Bufs \cup {NoBuf}]
    BY <1>3, <2>2, Zenon DEF Receive, TypeOK
  <2>4. /\ read' \in [Streams -> Nat] /\ \A t \in Streams : read'[t] <= MaxBatches[t]
        /\ \A t \in Streams : read'[t] - Len(answers[t]) \in {0, 1}
        /\ read'[s] = read[s] + 1
    BY <1>3, <2>1, OneMoreRead, Zenon DEF Receive
  <2>5. Current(s)' \in Batches
    BY <2>1, <2>4, BatchIs DEF Current, TypeOK
  <2>6. content' \in [Bufs -> Batches \cup {<<>>}]
    BY <1>3, <2>2, <2>5, Zenon DEF Receive, TypeOK
  <2> QED
    BY <1>3, <2>3, <2>4, <2>6, Zenon DEF Receive, TypeOK, pubVars, brokerVars, serverVars
<1>4. ASSUME NEW s \in Streams, Enqueue(s)
      PROVE  TypeOK'
  <2>1. Current(s) \in Batches /\ buf[s] \in Bufs
    BY <1>4, CurrentIs DEF Enqueue, Positions, TypeOK
  <2>2. in' \in Seq(Jobs) /\ Len(in') <= BufferSize
    BY <1>4, <2>1, Bounds DEF Enqueue, TypeOK, Jobs
  <2> QED
    BY <1>4, <2>2, Zenon DEF Enqueue, TypeOK, pubVars, brokerVars, serverVars
<1>5. ASSUME NEW s \in Streams, Shed(s)
      PROVE  TypeOK'
  <2>1. content' \in [Bufs -> Batches \cup {<<>>}]
    BY <1>5, KeptContent, Zenon DEF Shed
  <2>2. buf[s] \in Bufs
    BY <1>5, Zenon DEF Shed, Positions, TypeOK
  <2> QED
    BY <1>5, <2>1, <2>2, Zenon DEF Shed, TypeOK, Codes, pubVars, brokerVars, serverVars
<1>6. ASSUME NEW s \in Streams, Accepted(s)
      PROVE  TypeOK'
  <2>1. content' \in [Bufs -> Batches \cup {<<>>}]
    BY <1>6, KeptContent, Zenon DEF Accepted
  <2>2. buf[s] \in Bufs
    BY <1>6, Zenon DEF Accepted, Positions, TypeOK
  <2>3. Current(s) \in Batches /\ content[buf[s]] = Current(s)
    BY <1>6, CurrentIs, Zenon DEF Accepted, Buffers
  <2> QED
    BY <1>6, <2>1, <2>2, <2>3 DEF Accepted, TypeOK, Codes, pubVars, serverVars
<1>7. ASSUME NEW s \in Streams, Failed(s)
      PROVE  TypeOK'
  <2>1. content' \in [Bufs -> Batches \cup {<<>>}]
    BY <1>7, KeptContent, Zenon DEF Failed
  <2>2. code' \in [Streams -> Codes \cup {"none"}]
    <3>1. PICK err \in SubmitErrors(s) : code' = [code EXCEPT ![s] = PublishFailed(err)]
      BY <1>7, Zenon DEF Failed
    <3>2. err \in {"unavailable", "overloaded", "tooLarge", "canceled"}
      BY Zenon DEF SubmitErrors, Results
    <3>3. PublishFailed(err) \in Codes
      BY <3>2, Zenon DEF PublishFailed, Codes
    <3> QED
      BY <3>1, <3>3, Zenon DEF TypeOK
  <2> QED
    BY <1>7, <2>1, <2>2, Zenon DEF Failed, TypeOK, pubVars, brokerVars, serverVars
<1>8. ASSUME NEW s \in Streams, Send(s)
      PROVE  TypeOK'
  <2>1. read[s] = Len(answers[s]) + 1 /\ code[s] \in Codes
    BY <1>8, Zenon DEF Send, Positions, TypeOK
  <2>2. /\ answers' \in [Streams -> Seq(Codes)]
        /\ \A t \in Streams : read[t] - Len(answers'[t]) \in {0, 1}
    <3>1. CASE gone[s]
      BY <1>8, <3>1, Zenon DEF Send, TypeOK
    <3>2. CASE ~gone[s]
      <4>1. answers' = [answers EXCEPT ![s] = Append(@, code[s])]
        BY <1>8, <3>2, Zenon DEF Send
      <4>2. \A t \in Streams : answers[t] \in Seq(Codes) /\ read[t] - Len(answers[t]) \in {0, 1}
        BY Zenon DEF TypeOK
      <4>3. Append(answers[s], code[s]) \in Seq(Codes)
            /\ Len(Append(answers[s], code[s])) = Len(answers[s]) + 1
        BY <2>1, <4>2
      <4>4. answers \in [Streams -> Seq(Codes)] /\ read \in [Streams -> Nat]
        BY Zenon DEF TypeOK
      <4> QED
        BY <2>1, <4>1, <4>2, <4>3, <4>4
    <3> QED
      BY <3>1, <3>2, Zenon
  <2>3. /\ hpc' \in [Streams -> {"none", "recv", "offer", "wait", "send", "done"}]
        /\ code' \in [Streams -> Codes \cup {"none"}]
        /\ reply' \in [Streams -> Results \cup {"none", "empty"}]
    BY <1>8, Zenon DEF Send, TypeOK
  <2> QED
    BY <1>8, <2>2, <2>3, Zenon DEF Send, TypeOK, pubVars, brokerVars, serverVars
<1>9. ASSUME NEW p \in Publishers, Take(p)
      PROVE  TypeOK'
  <2>1. Head(in) \in Jobs /\ Tail(in) \in Seq(Jobs) /\ Len(Tail(in)) <= BufferSize
    BY <1>9, Bounds DEF Take, TypeOK
  <2>2. /\ job' \in [Publishers -> Jobs \cup {NoJob}]
        /\ ppc' \in [Publishers -> {"idle", "busy", "exited"}]
    BY <1>9, <2>1, Zenon DEF Take, TypeOK
  <2> QED
    BY <1>9, <2>1, <2>2, Zenon DEF Take, TypeOK, handlerVars, brokerVars, serverVars
<1>10. ASSUME NEW p \in Publishers, Publish(p)
      PROVE  TypeOK'
  <2>1. content' \in [Bufs -> Batches \cup {<<>>}]
    BY <1>10, KeptContent, Zenon DEF Publish
  <2>2. job[p] \in Jobs /\ content[job[p].buf] = job[p].batch
    BY <1>10, Zenon DEF Publish, Hands, Buffers
  <2>3. PICK o \in Outcomes(job[p]) :
          /\ stored' = stored \cup o.stored /\ late' = late \cup o.late
          /\ reply' = [s \in Streams |->
                        IF hpc[s] = "wait" /\ Current(s) = job[p].batch THEN o.err ELSE reply[s]]
    BY <1>10, Zenon DEF Publish
  <2>4. /\ o.err \in Results /\ o.stored \subseteq {<<job[p].batch, job[p].batch>>}
        /\ o.late \subseteq {<<job[p].batch, job[p].batch>>}
    BY <2>2 DEF Outcomes, Results
  <2>5. /\ stored' \cup late' \subseteq Batches \X Batches
        /\ reply' \in [Streams -> Results \cup {"none", "empty"}]
    BY <2>2, <2>3, <2>4 DEF Jobs, TypeOK
  <2> QED
    BY <1>10, <2>1, <2>5, Zenon DEF Publish, TypeOK, serverVars
<1>11. ASSUME NEW m \in late, LateStore(m)
      PROVE  TypeOK'
  <2>1. stored' \cup late' \cup tailed \subseteq Batches \X Batches
    BY <1>11 DEF LateStore, TypeOK
  <2> QED
    BY <1>11, <2>1, Zenon DEF LateStore, TypeOK, handlerVars, pubVars, serverVars
<1>12. ASSUME NEW p \in Publishers, Quit(p) \/ Drained(p)
      PROVE  TypeOK'
  <2>1. /\ ppc' \in [Publishers -> {"idle", "busy", "exited"}]
        /\ draining' \in [Publishers -> BOOLEAN]
    BY <1>12, Zenon DEF Quit, Drained, TypeOK
  <2>2. UNCHANGED <<handlerVars, gone, in, job, pool, content, brokerVars, serverVars>>
    BY <1>12, Zenon DEF Quit, Drained
  <2> QED
    BY <2>1, <2>2, Zenon DEF TypeOK, handlerVars, brokerVars, serverVars
<1>13. ASSUME ShutdownBegins \/ Stop
      PROVE  TypeOK'
  <2>1. /\ phase' \in {"serve", "graceful", "forced", "closing", "closed"}
        /\ timedOut' \in BOOLEAN
    BY <1>13, Zenon DEF ShutdownBegins, Stop, ClosePipeline, DeadlinePasses, CloseReturns, TypeOK
  <2>2. gone' \in [Streams -> BOOLEAN]
    <3>1. CASE DeadlinePasses
      BY <3>1, Zenon DEF DeadlinePasses
    <3>2. CASE ~DeadlinePasses
      <4>1. UNCHANGED gone
        BY <1>13, <3>2, Zenon DEF ShutdownBegins, Stop, ClosePipeline, CloseReturns
      <4> QED
        BY <4>1, Zenon DEF TypeOK
    <3> QED
      BY <3>1, <3>2
  <2>3. UNCHANGED <<handlerVars, in, pubVars, pool, content, brokerVars>>
    BY <1>13, Zenon DEF ShutdownBegins, Stop, ClosePipeline, DeadlinePasses, CloseReturns
  <2> QED
    BY <2>1, <2>2, <2>3, Zenon DEF TypeOK, handlerVars, pubVars, brokerVars
<1> QED
  BY <1>1, <1>2, <1>3, <1>4, <1>5, <1>6, <1>7, <1>8, <1>9, <1>10, <1>11, <1>12, <1>13, Zenon
     DEF Next, Submit, Reply, PublisherStep

-----------------------------------------------------------------------------
(* Positions, and what a publisher holds.                                  *)

\* A handler touches no other handler's state.
LEMMA OnlyItsOwn ==
  ASSUME TypeOK, NEW s \in Streams,
         \/ OpenStream(s) \/ HangUp(s) \/ RecvEnds(s) \/ Receive(s)
         \/ \E kind \in Kinds : Reject(s, kind)
         \/ Submit(s) \/ Reply(s) \/ Send(s)
  PROVE  /\ UNCHANGED <<ppc, job, draining, stored, late, phase, timedOut>>
         /\ \A t \in Streams \ {s} :
              /\ hpc'[t] = hpc[t] /\ read'[t] = read[t] /\ code'[t] = code[t]
              /\ reply'[t] = reply[t] /\ buf'[t] = buf[t] /\ answers'[t] = answers[t]
<1> DEFINE Own(f) == f' = f \/ \E v : f' = [f EXCEPT ![s] = v]
<1>1. Own(hpc) /\ Own(read) /\ Own(code)
  BY Zenon DEF OpenStream, HangUp, RecvEnds, Receive, Reject, Submit, Enqueue, Shed, Reply,
     Accepted, Failed, Send, handlerVars
<1>2. Own(reply) /\ Own(buf) /\ Own(answers)
  BY Zenon DEF OpenStream, HangUp, RecvEnds, Receive, Reject, Submit, Enqueue, Shed, Reply,
     Accepted, Failed, Send, handlerVars
<1>3. UNCHANGED <<ppc, job, draining, stored, late, phase, timedOut>>
  BY Zenon DEF OpenStream, HangUp, RecvEnds, Receive, Reject, Submit, Enqueue, Shed, Reply,
     Accepted, Failed, Send, pubVars, brokerVars, serverVars
<1>4. /\ DOMAIN hpc = Streams /\ DOMAIN read = Streams /\ DOMAIN code = Streams
      /\ DOMAIN reply = Streams /\ DOMAIN buf = Streams /\ DOMAIN answers = Streams
  BY Zenon DEF TypeOK
<1> QED
  BY <1>1, <1>2, <1>3, <1>4, Zenon

\* Nobody but a publisher changes what publishers hold.
LEMMA OthersKeepJobs ==
  ASSUME TypeOK, Next
  PROVE  \/ \E p \in Publishers : PublisherStep(p)
         \/ UNCHANGED <<ppc, job>>
<1>1. ASSUME \E m \in late : LateStore(m)
      PROVE  UNCHANGED <<ppc, job>>
  BY <1>1, Zenon DEF LateStore, pubVars
<1>2. ASSUME ShutdownBegins \/ Stop
      PROVE  UNCHANGED <<ppc, job>>
  BY <1>2, Zenon DEF ShutdownBegins, Stop, ClosePipeline, DeadlinePasses, CloseReturns, pubVars
<1> QED
  BY <1>1, <1>2, OnlyItsOwn, Zenon DEF Next

\* A handler's position goes with what it has read, holds and owes (Stream,
\* process, submit).
LEMMA PositionsNext == IInv /\ FreeBuffer /\ Next => Positions'
<1> SUFFICES ASSUME IInv, FreeBuffer, Next PROVE Positions'
  BY Zenon
<1> DEFINE Fits(s) ==
             /\ hpc[s] \in {"none", "recv"} => read[s] = Len(answers[s])
             /\ hpc[s] \in {"offer", "wait", "send"} => read[s] = Len(answers[s]) + 1
             /\ hpc[s] = "wait" => reply[s] # "none"
             /\ hpc[s] = "send" => code[s] # "none"
             /\ buf[s] # NoBuf <=> hpc[s] \in {"offer", "wait"}
<1>0. \A s \in Streams : Fits(s)
  BY Zenon DEF IInv, Positions
<1>1. ASSUME NEW s \in Streams,
             \/ OpenStream(s) \/ HangUp(s) \/ RecvEnds(s) \/ Receive(s)
             \/ \E kind \in Kinds : Reject(s, kind)
             \/ Submit(s) \/ Reply(s) \/ Send(s),
             NEW t \in Streams \ {s}
      PROVE  Fits(t)'
  <2>1. /\ hpc'[t] = hpc[t] /\ read'[t] = read[t] /\ code'[t] = code[t]
        /\ reply'[t] = reply[t] /\ buf'[t] = buf[t] /\ answers'[t] = answers[t]
    BY <1>1, OnlyItsOwn, Zenon DEF IInv
  <2> QED
    BY <1>0, <2>1, Zenon
<1>2. ASSUME NEW s \in Streams, OpenStream(s) \/ HangUp(s) \/ RecvEnds(s)
      PROVE  Fits(s)'
  <2>1. UNCHANGED <<read, code, reply, buf, answers>>
    BY <1>2, Zenon DEF OpenStream, HangUp, RecvEnds, handlerVars
  <2>2. \/ hpc'[s] = hpc[s]
        \/ hpc[s] = "none" /\ hpc'[s] = "recv"
        \/ hpc[s] = "recv" /\ hpc'[s] = "done"
    <3>1. DOMAIN hpc = Streams
      BY Zenon DEF IInv, TypeOK
    <3> QED
      BY <1>2, <3>1, Zenon DEF OpenStream, HangUp, RecvEnds, handlerVars
  <2> QED
    BY <1>0, <2>1, <2>2, Zenon
<1>3. ASSUME NEW s \in Streams, NEW kind \in Kinds, Reject(s, kind)
      PROVE  Fits(s)'
  <2>1. hpc[s] = "recv" /\ read'[s] = read[s] + 1 /\ hpc'[s] = "send" /\ code'[s] # "none"
    BY <1>3, Zenon DEF Reject, IInv, TypeOK
  <2>2. UNCHANGED <<reply, buf, answers>>
    BY <1>3, Zenon DEF Reject
  <2> QED
    BY <1>0, <2>1, <2>2, Zenon
<1>4. ASSUME NEW s \in Streams, Receive(s)
      PROVE  Fits(s)'
  <2>1. hpc[s] = "recv" /\ buf[s] = NoBuf /\ read[s] = Len(answers[s])
    BY <1>0, <1>4, Zenon DEF Receive
  <2>2. Get # NoBuf
    BY <2>1 DEF FreeBuffer, Bufs, NoBuf
  <2>3. /\ hpc'[s] = "offer" /\ buf'[s] = Get /\ read'[s] = read[s] + 1
        /\ answers' = answers
    BY <1>4 DEF Receive, IInv, TypeOK
  <2> QED
    BY <2>1, <2>2, <2>3, Zenon
<1>5. ASSUME NEW s \in Streams, Submit(s)
      PROVE  Fits(s)'
  BY <1>0, <1>5 DEF Submit, Enqueue, Shed, IInv, TypeOK
<1>6. ASSUME NEW s \in Streams, Accepted(s)
      PROVE  Fits(s)'
  BY <1>0, <1>6 DEF Accepted, IInv, TypeOK
<1>7. ASSUME NEW s \in Streams, Failed(s)
      PROVE  Fits(s)'
  <2>1. PICK err \in SubmitErrors(s) : code' = [code EXCEPT ![s] = PublishFailed(err)]
    BY <1>7, Zenon DEF Failed
  <2>2. PublishFailed(err) # "none"
    BY Zenon DEF SubmitErrors, Results, PublishFailed
  <2> QED
    BY <1>0, <1>7, <2>1, <2>2 DEF Failed, IInv, TypeOK
<1>8. ASSUME NEW s \in Streams, Send(s)
      PROVE  Fits(s)'
  <2>1. hpc[s] = "send" /\ read[s] = Len(answers[s]) + 1 /\ buf[s] = NoBuf
    BY <1>0, <1>8, Zenon DEF Send
  <2>2. hpc'[s] = "recv" => Len(answers'[s]) = Len(answers[s]) + 1
    BY <1>8 DEF Send, IInv, TypeOK
  <2>3. hpc'[s] \in {"recv", "done"} /\ UNCHANGED <<read, buf>>
    BY <1>8 DEF Send, IInv, TypeOK
  <2> QED
    BY <2>1, <2>2, <2>3, Zenon
<1>9. ASSUME \/ \E p \in Publishers : Take(p) \/ Quit(p) \/ Drained(p)
             \/ \E m \in late : LateStore(m)
             \/ ShutdownBegins \/ Stop,
             NEW t \in Streams
      PROVE  Fits(t)'
  <2>1. UNCHANGED handlerVars
    BY <1>9, Zenon DEF Take, Quit, Drained, LateStore, ShutdownBegins, Stop, ClosePipeline,
       DeadlinePasses, CloseReturns
  <2> QED
    BY <1>0, <2>1, Zenon DEF handlerVars
<1>10. ASSUME NEW p \in Publishers, Publish(p), NEW t \in Streams
      PROVE  Fits(t)'
  <2>1. PICK o \in Outcomes(job[p]) :
          reply' = [s \in Streams |->
                     IF hpc[s] = "wait" /\ Current(s) = job[p].batch THEN o.err ELSE reply[s]]
    BY <1>10, Zenon DEF Publish
  <2>2. o.err # "none"
    BY DEF Outcomes
  <2>3. reply'[t] = reply[t] \/ reply'[t] # "none"
    BY <2>1, <2>2, Zenon
  <2> QED
    BY <1>0, <1>10, <2>3, Zenon DEF Publish
<1> QED
  BY <1>1, <1>2, <1>3, <1>4, <1>5, <1>6, <1>7, <1>8, <1>9, <1>10, Zenon
     DEF Next, Reply, PublisherStep, Positions

\* A publisher takes a job and gives it up with its result (publish, drain).
LEMMA HandsNext == IInv /\ Next => Hands'
<1> SUFFICES ASSUME IInv, Next PROVE Hands'
  BY Zenon
<1>1. NoJob \notin Jobs
  BY Bounds DEF NoJob, Jobs, NoBuf, Bufs
<1>2. ASSUME NEW p \in Publishers, Take(p)
      PROVE  Hands'
  <2>1. Head(in) \in Jobs
    BY <1>2 DEF Take, IInv, TypeOK
  <2> QED
    BY <1>2, <2>1, Zenon DEF Take, Hands, IInv, TypeOK
<1>3. ASSUME NEW p \in Publishers, Publish(p)
      PROVE  Hands'
  BY <1>1, <1>3 DEF Publish, Hands, IInv, TypeOK
<1>4. ASSUME NEW p \in Publishers, Quit(p) \/ Drained(p)
      PROVE  Hands'
  BY <1>4 DEF Quit, Drained, Hands, IInv, TypeOK
<1>5. ASSUME UNCHANGED <<ppc, job>>
      PROVE  Hands'
  BY <1>5, Zenon DEF Hands, IInv
<1>6. (\E p \in Publishers : PublisherStep(p)) \/ UNCHANGED <<ppc, job>>
  BY OthersKeepJobs, Zenon DEF IInv
<1> QED
  BY <1>2, <1>3, <1>4, <1>5, <1>6, Zenon DEF PublisherStep

-----------------------------------------------------------------------------
(* The order of a shutdown.                                                *)

\* Server.Shutdown stops the handlers before the publishers, which drain the
\* channel that nobody fills any more.
LEMMA StoppingNext == IInv /\ Next => Stopping'
<1> SUFFICES ASSUME IInv, Next PROVE Stopping'
  BY Zenon
<1> USE DEF Stopping, HandlersGone
<1>0. Stopping /\ TypeOK
  BY Zenon DEF IInv
<1>1. ASSUME NEW s \in Streams,
             \/ OpenStream(s) \/ HangUp(s) \/ RecvEnds(s) \/ Receive(s)
             \/ \E kind \in Kinds : Reject(s, kind)
             \/ Submit(s) \/ Reply(s) \/ Send(s)
      PROVE  Stopping'
  <2>1. /\ UNCHANGED <<ppc, draining, phase, timedOut>>
        /\ \A t \in Streams \ {s} : hpc'[t] = hpc[t]
    BY <1>0, <1>1, OnlyItsOwn, Zenon
  <2>2. (hpc'[s] = hpc[s] /\ in' = in) \/ phase \notin {"closing", "closed"}
    <3>1. CASE OpenStream(s) \/ HangUp(s)
      BY <3>1, Zenon DEF OpenStream, HangUp, handlerVars
    <3>2. CASE hpc[s] \notin {"none", "done"}
      BY <1>0, <3>2, Zenon
    <3>3. OpenStream(s) \/ HangUp(s) \/ hpc[s] \in {"recv", "offer", "wait", "send"}
      BY <1>1, Zenon DEF RecvEnds, Receive, Reject, Submit, Enqueue, Shed, Reply, Accepted,
         Failed, Send
    <3> QED
      BY <3>1, <3>2, <3>3, Zenon
  <2> QED
    BY <1>0, <2>1, <2>2, Zenon
<1>2. ASSUME NEW p \in Publishers, Take(p)
      PROVE  Stopping'
  <2>1. /\ ppc' = [ppc EXCEPT ![p] = "busy"] /\ ppc[p] = "idle" /\ in # <<>>
        /\ UNCHANGED <<hpc, draining, phase, timedOut>>
    BY <1>2, Zenon DEF Take, handlerVars, serverVars
  <2> QED
    BY <1>0, <2>1, Zenon DEF TypeOK
<1>3. ASSUME NEW p \in Publishers, Publish(p)
      PROVE  Stopping'
  <2>1. /\ ppc' = [ppc EXCEPT ![p] = "idle"] /\ ppc[p] = "busy"
        /\ UNCHANGED <<hpc, in, draining, phase, timedOut>>
    BY <1>3, Zenon DEF Publish, serverVars
  <2> QED
    BY <1>0, <2>1, Zenon DEF TypeOK
<1>4. ASSUME NEW p \in Publishers, Quit(p)
      PROVE  Stopping'
  <2>1. \A q \in Publishers : draining'[q] => draining[q] \/ phase \in {"closing", "closed"}
    BY <1>0, <1>4, Zenon DEF Quit, TypeOK
  <2>2. \A q \in Publishers : draining[q] => draining'[q]
    BY <1>0, <1>4, Zenon DEF Quit, TypeOK
  <2>3. UNCHANGED <<hpc, ppc, in, phase, timedOut>>
    BY <1>4, Zenon DEF Quit, handlerVars, serverVars
  <2> QED
    BY <1>0, <2>1, <2>2, <2>3, Zenon
<1>5. ASSUME NEW p \in Publishers, Drained(p)
      PROVE  Stopping'
  <2>1. /\ ppc' = [ppc EXCEPT ![p] = "exited"] /\ draining[p] /\ in = <<>>
        /\ UNCHANGED <<hpc, in, draining, phase, timedOut>>
    BY <1>5, Zenon DEF Drained, handlerVars, serverVars
  <2> QED
    BY <1>0, <2>1 DEF TypeOK
<1>6. ASSUME NEW m \in late, LateStore(m)
      PROVE  Stopping'
  BY <1>0, <1>6, Zenon DEF LateStore, handlerVars, pubVars, serverVars
<1>7. ASSUME ShutdownBegins \/ ClosePipeline \/ DeadlinePasses
      PROVE  Stopping'
  <2>1. /\ UNCHANGED <<hpc, ppc, draining, in, timedOut>> /\ phase' # "closed"
        /\ phase' = "closing" => HandlersGone
        /\ phase \in {"serve", "graceful", "forced"}
    BY <1>7, Zenon DEF ShutdownBegins, ClosePipeline, DeadlinePasses, handlerVars, pubVars
  <2> QED
    BY <1>0, <2>1, Zenon
<1>8. ASSUME NEW expired \in BOOLEAN, CloseReturns(expired)
      PROVE  Stopping'
  <2>1. /\ UNCHANGED <<hpc, ppc, draining, in>> /\ phase = "closing" /\ phase' = "closed"
    BY <1>8, Zenon DEF CloseReturns, handlerVars, pubVars
  <2>2. timedOut' \/ \A p \in Publishers : ppc[p] = "exited"
    BY <1>8, Zenon DEF CloseReturns
  <2> QED
    BY <1>0, <2>1, <2>2, Zenon
<1> QED
  BY <1>1, <1>2, <1>3, <1>4, <1>5, <1>6, <1>7, <1>8, Zenon DEF Next, PublisherStep, Stop

-----------------------------------------------------------------------------
(* What is said of a batch.                                                *)

\* A verdict depends on its own stream alone.
LEMMA VerdictOfOthers ==
  ASSUME NEW b, answers'[b[1]] = answers[b[1]], read'[b[1]] = read[b[1]],
         hpc'[b[1]] = hpc[b[1]], code'[b[1]] = code[b[1]], reply'[b[1]] = reply[b[1]]
  PROVE  Verdict(b)' = Verdict(b)
  BY Zenon DEF Verdict

\* The verdict on the batch a handler has in its hands, before and after a step.
LEMMA VerdictOfCurrent ==
  ASSUME NEW s \in Streams, NEW c
  PROVE  /\ TypeOK /\ Positions /\ hpc[s] \in {"offer", "wait", "send"} /\ c = Current(s) =>
              Verdict(c) = IF hpc[s] = "send" THEN code[s]
                           ELSE IF hpc[s] = "wait" THEN reply[s] ELSE "offer"
         /\ TypeOK' /\ Positions' /\ hpc'[s] \in {"offer", "wait", "send"} /\ c = Current(s)' =>
              Verdict(c)' = IF hpc'[s] = "send" THEN code'[s]
                            ELSE IF hpc'[s] = "wait" THEN reply'[s] ELSE "offer"
<1>1. ASSUME TypeOK, Positions, hpc[s] \in {"offer", "wait", "send"}, c = Current(s)
      PROVE  Verdict(c) = IF hpc[s] = "send" THEN code[s]
                           ELSE IF hpc[s] = "wait" THEN reply[s] ELSE "offer"
  <2>1. ~(read[s] <= Len(answers[s]))
    BY <1>1 DEF TypeOK, Positions
  <2> QED
    BY <1>1, <2>1, Zenon DEF Verdict, Current
<1>2. ASSUME TypeOK', Positions', hpc'[s] \in {"offer", "wait", "send"}, c = Current(s)'
      PROVE  Verdict(c)' = IF hpc'[s] = "send" THEN code'[s]
                            ELSE IF hpc'[s] = "wait" THEN reply'[s] ELSE "offer"
  <2>1. ~(read'[s] <= Len(answers'[s]))
    BY <1>2 DEF TypeOK, Positions
  <2> QED
    BY <1>2, <2>1, Zenon DEF Verdict, Current
<1> QED
  BY <1>1, <1>2, Zenon

\* A step of a handler within one batch changes the verdict on that batch only.
LEMMA VerdictMoves ==
  ASSUME TypeOK, Positions, NEW s \in Streams, hpc[s] \in {"offer", "wait", "send"},
         UNCHANGED <<read, answers>>,
         \A t \in Streams \ {s} :
           hpc'[t] = hpc[t] /\ code'[t] = code[t] /\ reply'[t] = reply[t]
  PROVE  \A b \in Batches \ {Current(s)} : Verdict(b)' = Verdict(b)
<1> SUFFICES ASSUME NEW b \in Batches \ {Current(s)} PROVE Verdict(b)' = Verdict(b)
  BY Zenon
<1>1. b[1] \in Streams /\ b[2] \in Nat /\ b = <<b[1], b[2]>>
  BY BatchIs, Zenon
<1>2. CASE b[1] # s
  BY <1>1, <1>2, VerdictOfOthers, Zenon
<1>3. CASE b[1] = s
  <2>1. b[2] # read[s]
    BY <1>1, <1>3, Zenon DEF Current
  <2>2. b[2] <= Len(answers[s]) \/ (b[2] > Len(answers[s]) /\ b[2] # read[s])
    BY <1>1, <2>1 DEF TypeOK
  <2> QED
    BY <1>3, <2>1, <2>2, Zenon DEF Verdict
<1> QED
  BY <1>2, <1>3, Zenon

\* Recv brings in one batch more, which nothing was said of before.
LEMMA VerdictOfNew ==
  ASSUME TypeOK, NEW s \in Streams, read[s] = Len(answers[s]),
         read' = [read EXCEPT ![s] = @ + 1], UNCHANGED answers,
         \A t \in Streams \ {s} :
           hpc'[t] = hpc[t] /\ code'[t] = code[t] /\ reply'[t] = reply[t],
         NEW c, c = <<s, read[s] + 1>>
  PROVE  /\ Verdict(c) = "unread"
         /\ \A b \in Batches \ {c} : Verdict(b)' = Verdict(b)
<1>1. /\ read \in [Streams -> Nat] /\ read'[s] = read[s] + 1
      /\ \A t \in Streams \ {s} : read'[t] = read[t]
      /\ Len(answers[s]) \in Nat
  BY DEF TypeOK
<1>2. Verdict(c) = "unread"
  <2>1. c[1] = s /\ ~(c[2] <= Len(answers[s])) /\ c[2] # read[s]
    BY <1>1
  <2> QED
    BY <2>1, Zenon DEF Verdict
<1>3. ASSUME NEW b \in Batches \ {c} PROVE Verdict(b)' = Verdict(b)
  <2>1. b[1] \in Streams /\ b[2] \in Nat /\ b = <<b[1], b[2]>>
    BY BatchIs, Zenon
  <2>2. CASE b[1] # s
    BY <1>1, <2>1, <2>2, VerdictOfOthers
  <2>3. CASE b[1] = s
    <3>1. b[2] # read'[s]
      BY <1>1, <1>3, <2>1, <2>3, Zenon
    <3>2. CASE b[2] <= Len(answers[s])
      BY <2>3, <3>2, Zenon DEF Verdict
    <3>3. CASE ~(b[2] <= Len(answers[s]))
      <4>1. b[2] > Len(answers[s]) /\ b[2] # read[s]
        BY <1>1, <2>1, <3>3
      <4> QED
        BY <2>3, <3>1, <3>3, <4>1, Zenon DEF Verdict
    <3> QED
      BY <3>2, <3>3, Zenon
  <2> QED
    BY <2>2, <2>3, Zenon
<1> QED
  BY <1>2, <1>3, Zenon

\* A handler that is between two batches says nothing new.
LEMMA VerdictBetween ==
  ASSUME TypeOK, Positions, NEW s \in Streams, OpenStream(s) \/ HangUp(s) \/ RecvEnds(s)
  PROVE  \A b \in Batches : Verdict(b)' = Verdict(b)
<1> SUFFICES ASSUME NEW b \in Batches PROVE Verdict(b)' = Verdict(b)
  BY Zenon
<1>1. b[1] \in Streams /\ b[2] \in Nat
  BY BatchIs, Zenon
<1>2. UNCHANGED <<read, code, reply, answers>> /\ \A t \in Streams \ {s} : hpc'[t] = hpc[t]
  <2>1. DOMAIN hpc = Streams
    BY Zenon DEF TypeOK
  <2> QED
    BY <2>1, Zenon DEF OpenStream, HangUp, RecvEnds, handlerVars
<1>3. CASE b[1] # s \/ hpc' = hpc
  BY <1>1, <1>2, <1>3, VerdictOfOthers, Zenon
<1>4. CASE b[1] = s /\ hpc' # hpc
  <2>1. hpc[s] \in {"none", "recv"}
    BY <1>4, Zenon DEF OpenStream, HangUp, RecvEnds, handlerVars
  <2>2. read[s] = Len(answers[s]) /\ Len(answers[s]) \in Nat
    BY <2>1 DEF Positions, TypeOK
  <2>3. \/ b[2] <= Len(answers[s])
        \/ ~(b[2] <= Len(answers[s])) /\ b[2] > Len(answers[s]) /\ b[2] # read[s]
    BY <1>1, <2>2
  <2> QED
    BY <1>2, <1>4, <2>3, Zenon DEF Verdict
<1> QED
  BY <1>3, <1>4, Zenon

\* Send passes the code on, or the handler leaves without an answer.
LEMMA VerdictSent ==
  ASSUME TypeOK, Positions, NEW s \in Streams, Send(s)
  PROVE  /\ \A b \in Batches \ {Current(s)} : Verdict(b)' = Verdict(b)
         /\ \A c : c = Current(s) =>
              Verdict(c) = code[s] /\ Verdict(c)' \in {code[s], "done"}
<1>0. PICK c : c = Current(s)
  BY Zenon
<1>1. /\ hpc[s] = "send" /\ UNCHANGED read /\ DOMAIN hpc = Streams /\ DOMAIN code = Streams
      /\ DOMAIN reply = Streams /\ DOMAIN answers = Streams
      /\ answers[s] \in Seq(Codes) /\ code[s] \in Codes
  BY Zenon DEF Send, TypeOK, Positions
<1>2. \A t \in Streams \ {s} :
        hpc'[t] = hpc[t] /\ code'[t] = code[t] /\ reply'[t] = reply[t] /\ answers'[t] = answers[t]
  BY OnlyItsOwn, Zenon
<1>3. c = <<s, read[s]>>
  BY <1>0, Zenon DEF Current
<1>4. read[s] = Len(answers[s]) + 1 /\ Len(answers[s]) \in Nat
  BY <1>1 DEF Positions
<1>5. Verdict(c) = code[s]
  BY <1>0, <1>1, VerdictOfCurrent, Zenon
<1>6. CASE gone[s]
  <2>1. UNCHANGED answers /\ hpc'[s] = "done"
    BY <1>1, <1>6, Zenon DEF Send
  <2>2. \A b \in Batches \ {Current(s)} : Verdict(b)' = Verdict(b)
    BY <1>1, <1>2, <2>1, VerdictMoves, Zenon
  <2>3. Verdict(c)' = "done"
    <3>1. ~(read[s] <= Len(answers[s]))
      BY <1>4
    <3> QED
      BY <1>1, <1>3, <2>1, <3>1, Zenon DEF Verdict
  <2> QED
    BY <1>0, <1>5, <2>2, <2>3, Zenon
<1>7. CASE ~gone[s]
  <2>1. answers'[s] = Append(answers[s], code[s]) /\ hpc'[s] = "recv"
    BY <1>1, <1>7, Zenon DEF Send
  <2>2. /\ Len(answers'[s]) = Len(answers[s]) + 1 /\ answers'[s][read[s]] = code[s]
        /\ \A n \in 1 .. Len(answers[s]) : answers'[s][n] = answers[s][n]
    BY <1>1, <1>4, <2>1
  <2>3. Verdict(c)' = code[s]
    <3>1. read[s] <= Len(answers'[s])
      BY <1>4, <2>2
    <3> QED
      BY <1>1, <1>3, <2>2, <3>1, Zenon DEF Verdict
  <2>4. ASSUME NEW b \in Batches \ {Current(s)} PROVE Verdict(b)' = Verdict(b)
    <3>1. b[1] \in Streams /\ b[2] \in Nat /\ 1 <= b[2] /\ b = <<b[1], b[2]>>
      BY BatchIs, Zenon
    <3>2. CASE b[1] # s
      BY <1>1, <1>2, <3>1, <3>2, VerdictOfOthers
    <3>3. CASE b[1] = s
      <4>1. b[2] # read[s]
        BY <1>0, <1>3, <3>1, <3>3, Zenon
      <4>2. CASE b[2] <= Len(answers[s])
        <5>1. b[2] <= Len(answers'[s]) /\ answers'[s][b[2]] = answers[s][b[2]]
          BY <1>4, <2>2, <3>1, <4>2
        <5> QED
          BY <3>3, <4>2, <5>1, Zenon DEF Verdict
      <4>3. CASE ~(b[2] <= Len(answers[s]))
        <5>1. /\ b[2] > Len(answers[s]) /\ ~(b[2] <= Len(answers'[s])) /\ b[2] > Len(answers'[s])
          BY <1>4, <2>2, <3>1, <4>1, <4>3
        <5> QED
          BY <1>1, <3>3, <4>1, <4>3, <5>1, Zenon DEF Verdict
      <4> QED
        BY <4>2, <4>3, Zenon
    <3> QED
      BY <3>2, <3>3, Zenon
  <2> QED
    BY <1>0, <1>5, <2>3, <2>4, Zenon
<1> QED
  BY <1>6, <1>7, Zenon

\* A change of one verdict that takes back no promise keeps the books.
LEMMA LedgerKept ==
  ASSUME Ledger, UNCHANGED <<in, ppc, job, late, stored>>,
         NEW c, \A b \in Batches \ {c} : Verdict(b)' = Verdict(b),
         Verdict(c) \in {"empty", "INTERNAL", "done"} =>
           Verdict(c)' \in {"empty", "INTERNAL", "done"},
         Verdict(c) \in {"unavailable", "INTERNAL", "done"} =>
           Verdict(c)' \in {"unavailable", "INTERNAL", "done"},
         Verdict(c) \in {"ok", "unavailable", "ACCEPTED", "INTERNAL", "done"} =>
           Verdict(c)' \in {"ok", "unavailable", "ACCEPTED", "INTERNAL", "done"},
         Verdict(c)' \in {"ok", "ACCEPTED"} => Verdict(c) \in {"ok", "ACCEPTED"}
  PROVE  Ledger'
<1>1. Outstanding' = Outstanding
  BY Zenon DEF Outstanding
<1> SUFFICES ASSUME NEW b \in Batches
             PROVE  /\ b \in Outstanding => Verdict(b)' \in {"empty", "INTERNAL", "done"}
                    /\ <<b, b>> \in late => Verdict(b)' \in {"unavailable", "INTERNAL", "done"}
                    /\ <<b, b>> \in stored =>
                         Verdict(b)' \in {"ok", "unavailable", "ACCEPTED", "INTERNAL", "done"}
                    /\ Verdict(b)' \in {"ok", "ACCEPTED"} => <<b, b>> \in stored
  BY <1>1, Zenon DEF Ledger
<1>2. CASE b = c
  BY <1>2, Zenon DEF Ledger
<1>3. CASE b # c
  BY <1>3, Zenon DEF Ledger
<1> QED
  BY <1>2, <1>3, Zenon

-----------------------------------------------------------------------------
(* Jobs.                                                                   *)

\* What Append does to a channel.
LEMMA AppendDomain ==
  ASSUME NEW q \in Seq(Jobs), NEW j
  PROVE  /\ DOMAIN q = 1 .. Len(q) /\ DOMAIN Append(q, j) = DOMAIN q \cup {Len(q) + 1}
         /\ Len(q) + 1 \notin DOMAIN q
         /\ \A i \in DOMAIN q : Append(q, j)[i] = q[i]
         /\ Append(q, j)[Len(q) + 1] = j
  OBVIOUS

\* A batch is outstanding if there is a job with it.
LEMMA OutstandingIs ==
  ASSUME NEW b
  PROVE  /\ b \in Outstanding <=> \/ \E k \in DOMAIN in : in[k].batch = b
                                 \/ \E q \in Publishers : ppc[q] = "busy" /\ job[q].batch = b
         /\ b \in Outstanding' <=> \/ \E k \in DOMAIN in' : in'[k].batch = b
                                  \/ \E q \in Publishers : ppc'[q] = "busy" /\ job'[q].batch = b
  BY Zenon DEF Outstanding

\* submit's send on the channel adds its batch to the outstanding ones.
LEMMA EnqueueAdds ==
  ASSUME TypeOK, NEW s \in Streams, Enqueue(s)
  PROVE  Outstanding' = Outstanding \cup {Current(s)}
<1>1. /\ in' = Append(in, [batch |-> Current(s), buf |-> buf[s]]) /\ in \in Seq(Jobs)
      /\ UNCHANGED <<ppc, job>>
  BY Zenon DEF Enqueue, TypeOK, pubVars
<1>2. /\ DOMAIN in' = DOMAIN in \cup {Len(in) + 1} /\ \A i \in DOMAIN in : in'[i] = in[i]
      /\ in'[Len(in) + 1] = [batch |-> Current(s), buf |-> buf[s]]
  BY <1>1, AppendDomain
<1>3. ASSUME NEW b PROVE b \in Outstanding' <=> b \in Outstanding \/ b = Current(s)
  BY <1>1, <1>2, OutstandingIs
<1> QED
  BY <1>3, Zenon

\* A publisher's receive moves a job.
LEMMA TakeMoves ==
  ASSUME TypeOK, NEW p \in Publishers, Take(p)
  PROVE  Outstanding' = Outstanding
<1>1. /\ in # <<>> /\ in \in Seq(Jobs) /\ in' = Tail(in) /\ ppc[p] = "idle"
      /\ \A q \in Publishers \ {p} : job'[q] = job[q] /\ ppc'[q] = ppc[q]
      /\ job'[p] = Head(in) /\ ppc'[p] = "busy"
  BY DEF Take, TypeOK
<1>2. /\ \A i \in DOMAIN in' : i + 1 \in DOMAIN in /\ in'[i] = in[i + 1]
      /\ \A k \in DOMAIN in : k = 1 \/ (k - 1 \in DOMAIN in' /\ in[k] = in'[k - 1])
      /\ 1 \in DOMAIN in /\ in[1] = Head(in)
  BY <1>1
<1>3. ASSUME NEW b, b \in Outstanding' PROVE b \in Outstanding
  <2>1. CASE \E i \in DOMAIN in' : in'[i].batch = b
    BY <1>2, <2>1, OutstandingIs
  <2>2. CASE \E q \in Publishers : ppc'[q] = "busy" /\ job'[q].batch = b
    BY <1>1, <1>2, <2>2, OutstandingIs
  <2> QED
    BY <1>3, <2>1, <2>2, OutstandingIs, Zenon
<1>4. ASSUME NEW b, b \in Outstanding PROVE b \in Outstanding'
  <2>1. CASE \E k \in DOMAIN in : in[k].batch = b
    <3>1. PICK k \in DOMAIN in : in[k].batch = b
      BY <2>1, Zenon
    <3>2. CASE k = 1
      BY <1>1, <1>2, <3>1, <3>2, OutstandingIs
    <3>3. CASE k # 1
      BY <1>2, <3>1, <3>3, OutstandingIs
    <3> QED
      BY <3>2, <3>3, Zenon
  <2>2. CASE \E q \in Publishers : ppc[q] = "busy" /\ job[q].batch = b
    BY <1>1, <2>2, OutstandingIs
  <2> QED
    BY <1>4, <2>1, <2>2, OutstandingIs, Zenon
<1> QED
  BY <1>3, <1>4, Zenon

\* The result of a publish ends the job, of which there is no other.
LEMMA PublishEnds ==
  ASSUME TypeOK, OneJobEach, NEW p \in Publishers, Publish(p)
  PROVE  Outstanding' = Outstanding \ {job[p].batch} /\ job[p].batch \in Outstanding
<1>1. /\ ppc[p] = "busy" /\ ppc'[p] = "idle" /\ in' = in
      /\ \A q \in Publishers \ {p} : job'[q] = job[q] /\ ppc'[q] = ppc[q]
  BY DEF Publish, TypeOK
<1>2. /\ \A k \in DOMAIN in : in[k].batch # job[p].batch
      /\ \A q \in Publishers \ {p} : ppc[q] = "busy" => job[q].batch # job[p].batch
  BY <1>1, Zenon DEF OneJobEach
<1>3. ASSUME NEW b PROVE b \in Outstanding' <=> b \in Outstanding /\ b # job[p].batch
  BY <1>1, <1>2, OutstandingIs
<1>4. job[p].batch \in Outstanding
  BY <1>1, OutstandingIs, Zenon
<1> QED
  BY <1>3, <1>4, Zenon

\* Nobody but submit and the publishers touches the channel and the jobs.
LEMMA OthersKeepTheChannel ==
  ASSUME TypeOK, Next
  PROVE  \/ \E p \in Publishers : PublisherStep(p)
         \/ \E s \in Streams : Enqueue(s)
         \/ UNCHANGED <<in, ppc, job>>
<1>1. ASSUME NEW s \in Streams,
             \/ OpenStream(s) \/ HangUp(s) \/ RecvEnds(s) \/ Receive(s)
             \/ \E kind \in Kinds : Reject(s, kind)
             \/ Shed(s) \/ Reply(s) \/ Send(s)
      PROVE  UNCHANGED in
  BY <1>1, Zenon DEF OpenStream, HangUp, RecvEnds, Receive, Reject, Shed, Reply, Accepted,
     Failed, Send
<1>2. ASSUME \/ \E m \in late : LateStore(m)
             \/ ShutdownBegins \/ Stop
      PROVE  UNCHANGED in
  BY <1>2, Zenon DEF LateStore, ShutdownBegins, Stop, ClosePipeline, DeadlinePasses, CloseReturns
<1> QED
  BY <1>1, <1>2, OthersKeepJobs, Zenon DEF Next, Submit

\* A handler that has not submitted its batch, or has a result, has no job.
LEMMA NotOutstanding ==
  ASSUME TypeOK, Positions, Ledger, NEW s \in Streams,
         hpc[s] = "offer" \/ (hpc[s] = "wait" /\ reply[s] = "ok")
  PROVE  Current(s) \notin Outstanding
<1>1. Current(s) \in Batches
  BY CurrentIs, Zenon
<1>2. PICK c \in Batches : c = Current(s)
  BY <1>1, Zenon
<1>3. Verdict(c) \in {"offer", "ok"}
  BY <1>2, VerdictOfCurrent, Zenon
<1>4. c \in Outstanding => Verdict(c) \in {"empty", "INTERNAL", "done"}
  BY Zenon DEF Ledger
<1> QED
  BY <1>2, <1>3, <1>4, Zenon

\* A new job is the first with its batch, of which nobody was told yet.
LEMMA OneJobNext == IInv /\ Next => OneJobEach'
<1> SUFFICES ASSUME IInv, Next PROVE OneJobEach'
  BY Zenon
<1>0. TypeOK /\ Positions /\ Hands /\ OneJobEach /\ Ledger
  BY Zenon DEF IInv
<1>1. ASSUME NEW s \in Streams, Enqueue(s)
      PROVE  OneJobEach'
  <2>1. Current(s) \notin Outstanding
    BY <1>0, <1>1, NotOutstanding, Zenon DEF Enqueue
  <2>2. /\ in' = Append(in, [batch |-> Current(s), buf |-> buf[s]]) /\ in \in Seq(Jobs)
        /\ UNCHANGED <<ppc, job>>
    BY <1>0, <1>1, Zenon DEF Enqueue, TypeOK, pubVars
  <2>3. /\ DOMAIN in' = DOMAIN in \cup {Len(in) + 1} /\ \A i \in DOMAIN in : in'[i] = in[i]
        /\ in'[Len(in) + 1].batch = Current(s)
    BY <2>2, AppendDomain
  <2>4. /\ \A i \in DOMAIN in : in[i].batch # Current(s)
        /\ \A p \in Publishers : ppc[p] = "busy" => job[p].batch # Current(s)
    BY <2>1, OutstandingIs, Zenon
  <2> QED
    BY <1>0, <2>2, <2>3, <2>4 DEF OneJobEach
<1>2. ASSUME NEW p \in Publishers, Take(p)
      PROVE  OneJobEach'
  <2>1. /\ in # <<>> /\ in \in Seq(Jobs) /\ in' = Tail(in) /\ ppc[p] = "idle"
        /\ \A q \in Publishers \ {p} : job'[q] = job[q] /\ ppc'[q] = ppc[q]
        /\ job'[p] = Head(in) /\ ppc'[p] = "busy"
    BY <1>0, <1>2 DEF Take, TypeOK
  <2>2. /\ \A i \in DOMAIN in' : i \in Nat /\ i >= 1 /\ i + 1 \in DOMAIN in /\ in'[i] = in[i + 1]
        /\ 1 \in DOMAIN in /\ in[1] = Head(in)
    BY <2>1
  <2>3. ASSUME NEW i \in DOMAIN in', NEW k \in DOMAIN in', in'[i].batch = in'[k].batch
        PROVE  i = k
    BY <1>0, <2>2, <2>3 DEF OneJobEach
  <2>4. ASSUME NEW i \in DOMAIN in', NEW q \in Publishers, ppc'[q] = "busy"
        PROVE  in'[i].batch # job'[q].batch
    <3>1. CASE q = p
      BY <1>0, <2>1, <2>2, <3>1 DEF OneJobEach
    <3>2. CASE q # p
      BY <1>0, <2>1, <2>2, <2>4, <3>2 DEF OneJobEach
    <3> QED
      BY <3>1, <3>2, Zenon
  <2>5. ASSUME NEW q \in Publishers, NEW r \in Publishers, ppc'[q] = "busy", ppc'[r] = "busy",
               job'[q].batch = job'[r].batch
        PROVE  q = r
    BY <1>0, <2>1, <2>2, <2>5 DEF OneJobEach
  <2> QED
    BY <2>3, <2>4, <2>5, Zenon DEF OneJobEach
<1>3. ASSUME NEW p \in Publishers, Publish(p)
      PROVE  OneJobEach'
  <2>1. /\ ppc'[p] = "idle" /\ in' = in
        /\ \A q \in Publishers \ {p} : job'[q] = job[q] /\ ppc'[q] = ppc[q]
    BY <1>0, <1>3, Zenon DEF Publish, TypeOK
  <2> QED
    BY <1>0, <2>1 DEF OneJobEach
<1>4. ASSUME NEW p \in Publishers, Quit(p) \/ Drained(p)
      PROVE  OneJobEach'
  <2>1. UNCHANGED <<in, job>> /\ \A q \in Publishers : ppc'[q] = "busy" => ppc[q] = "busy"
    BY <1>0, <1>4 DEF Quit, Drained, TypeOK
  <2> QED
    BY <1>0, <2>1, Zenon DEF OneJobEach
<1>5. ASSUME UNCHANGED <<in, ppc, job>>
      PROVE  OneJobEach'
  BY <1>0, <1>5, Zenon DEF OneJobEach
<1> QED
  BY <1>0, <1>1, <1>2, <1>3, <1>4, <1>5, OthersKeepTheChannel, Zenon DEF PublisherStep

-----------------------------------------------------------------------------
(* The books.                                                              *)

\* Without a new verdict, or a new job or message, nothing has to be shown.
LEMMA LedgerSame ==
  ASSUME Ledger, \A b \in Batches : Verdict(b)' = Verdict(b),
         Outstanding' \subseteq Outstanding, UNCHANGED <<late, stored>>
  PROVE  Ledger'
  BY Zenon DEF Ledger

\* Taking a batch in: it is rejected, or offered to the pipeline.
LEMMA LedgerReceives ==
  ASSUME IInv, TypeOK', Positions', NEW s \in Streams,
         Receive(s) \/ \E kind \in Kinds : Reject(s, kind)
  PROVE  Ledger'
<1>1. /\ hpc[s] = "recv" /\ read' = [read EXCEPT ![s] = @ + 1]
      /\ UNCHANGED <<reply, answers, in, ppc, job, late, stored>>
      /\ hpc'[s] = "offer" \/ (hpc'[s] = "send" /\ code'[s] \in {"INVALID", "INTERNAL"})
  BY DEF Receive, Reject, pubVars, brokerVars, IInv, TypeOK
<1>2. /\ read[s] = Len(answers[s])
      /\ \A t \in Streams \ {s} :
           hpc'[t] = hpc[t] /\ code'[t] = code[t] /\ reply'[t] = reply[t]
  <2>1. read[s] = Len(answers[s])
    BY <1>1, Zenon DEF IInv, Positions
  <2> QED
    BY <2>1, OnlyItsOwn, Zenon DEF IInv
<1>3. PICK c : c = <<s, read[s] + 1>>
  BY Zenon
<1>4. Verdict(c) = "unread" /\ \A b \in Batches \ {c} : Verdict(b)' = Verdict(b)
  BY <1>1, <1>2, <1>3, VerdictOfNew, Zenon DEF IInv
<1>5. Verdict(c)' \in {"offer", "INVALID", "INTERNAL"}
  <2>1. c = Current(s)'
    BY <1>1, <1>3 DEF Current, IInv, TypeOK
  <2> QED
    BY <1>1, <2>1, VerdictOfCurrent, Zenon
<1> QED
  BY <1>1, <1>4, <1>5, LedgerKept, Zenon DEF IInv

\* The end of submit: shed, accepted or failed.
LEMMA LedgerReplies ==
  ASSUME IInv, TypeOK', Positions', NEW s \in Streams, Shed(s) \/ Reply(s)
  PROVE  Ledger'
<1>1. /\ hpc[s] \in {"offer", "wait"} /\ hpc'[s] = "send"
      /\ UNCHANGED <<read, answers, reply, in, ppc, job, late, stored>>
  BY DEF Shed, Reply, Accepted, Failed, pubVars, brokerVars, IInv, TypeOK
<1>2. \A t \in Streams \ {s} :
        hpc'[t] = hpc[t] /\ code'[t] = code[t] /\ reply'[t] = reply[t]
  BY OnlyItsOwn, Zenon DEF IInv, Submit
<1>3. PICK c : c = Current(s)
  BY Zenon
<1>4. \A b \in Batches \ {c} : Verdict(b)' = Verdict(b)
  BY <1>1, <1>2, <1>3, VerdictMoves, Zenon DEF IInv
<1>5. Verdict(c)' = code'[s]
  <2>1. c = Current(s)'
    BY <1>1, <1>3, Zenon DEF Current
  <2> QED
    BY <1>1, <2>1, VerdictOfCurrent, Zenon
<1>6. Verdict(c) = IF hpc[s] = "wait" THEN reply[s] ELSE "offer"
  BY <1>1, <1>3, VerdictOfCurrent, Zenon DEF IInv
<1>7. \/ hpc[s] = "offer" /\ code'[s] = "OVERLOADED"
      \/ hpc[s] = "wait" /\ reply[s] = "ok" /\ code'[s] = "ACCEPTED"
      \/ hpc[s] = "wait" /\ code'[s] = "INTERNAL"
      \/ hpc[s] = "wait" /\ reply[s] = "overloaded" /\ code'[s] = "OVERLOADED"
      \/ hpc[s] = "wait" /\ reply[s] = "tooLarge" /\ code'[s] = "INVALID"
  <2>1. CASE Shed(s)
    BY <2>1 DEF Shed, IInv, TypeOK
  <2>2. CASE Accepted(s)
    BY <2>2 DEF Accepted, IInv, TypeOK
  <2>3. CASE Failed(s)
    <3>1. PICK err \in SubmitErrors(s) : code' = [code EXCEPT ![s] = PublishFailed(err)]
      BY <2>3, Zenon DEF Failed
    <3>2. \/ err = "canceled"
          \/ err = reply[s] /\ err \in {"unavailable", "overloaded", "tooLarge"}
      BY Zenon DEF SubmitErrors, Results
    <3>3. code'[s] = PublishFailed(err) /\ hpc[s] = "wait"
      BY <2>3, <3>1 DEF Failed, IInv, TypeOK
    <3> QED
      BY <3>2, <3>3, Zenon DEF PublishFailed
  <2> QED
    BY <2>1, <2>2, <2>3, Zenon DEF Reply
<1>8. hpc[s] = "wait" => reply[s] \in {"empty", "ok", "unavailable", "overloaded", "tooLarge"}
  BY Zenon DEF IInv, TypeOK, Positions, Results
<1> QED
  BY <1>1, <1>4, <1>5, <1>6, <1>7, <1>8, LedgerKept, Zenon DEF IInv

\* submit's send: the batch is outstanding from now on.
LEMMA LedgerEnqueues ==
  ASSUME IInv, TypeOK', Positions', NEW s \in Streams, Enqueue(s)
  PROVE  Ledger'
<1>1. /\ hpc[s] = "offer" /\ hpc'[s] = "wait" /\ reply'[s] = "empty"
      /\ UNCHANGED <<read, answers, late, stored>>
  <2>1. DOMAIN hpc = Streams /\ DOMAIN reply = Streams
    BY Zenon DEF IInv, TypeOK
  <2> QED
    BY <2>1, Zenon DEF Enqueue, brokerVars
<1>2. \A t \in Streams \ {s} :
        hpc'[t] = hpc[t] /\ code'[t] = code[t] /\ reply'[t] = reply[t]
  BY OnlyItsOwn, Zenon DEF IInv, Submit
<1>3. PICK c : c = Current(s)
  BY Zenon
<1>4. \A b \in Batches \ {c} : Verdict(b)' = Verdict(b)
  <2>1. TypeOK /\ Positions
    BY Zenon DEF IInv
  <2> QED
    BY <1>1, <1>2, <1>3, <2>1, VerdictMoves, Zenon
<1>5. Verdict(c)' = "empty"
  <2>1. c = Current(s)'
    BY <1>1, <1>3, Zenon DEF Current
  <2> QED
    BY <1>1, <2>1, VerdictOfCurrent, Zenon
<1>6. Verdict(c) = "offer"
  BY <1>1, <1>3, VerdictOfCurrent, Zenon DEF IInv
<1>7. Outstanding' = Outstanding \cup {c}
  BY <1>3, EnqueueAdds, Zenon DEF IInv
<1> SUFFICES ASSUME NEW b \in Batches
             PROVE  /\ b \in Outstanding' => Verdict(b)' \in {"empty", "INTERNAL", "done"}
                    /\ <<b, b>> \in late => Verdict(b)' \in {"unavailable", "INTERNAL", "done"}
                    /\ <<b, b>> \in stored =>
                         Verdict(b)' \in {"ok", "unavailable", "ACCEPTED", "INTERNAL", "done"}
                    /\ Verdict(b)' \in {"ok", "ACCEPTED"} => <<b, b>> \in stored
  BY <1>1, Zenon DEF Ledger
<1>8. /\ b \in Outstanding => Verdict(b) \in {"empty", "INTERNAL", "done"}
      /\ <<b, b>> \in late => Verdict(b) \in {"unavailable", "INTERNAL", "done"}
      /\ <<b, b>> \in stored =>
           Verdict(b) \in {"ok", "unavailable", "ACCEPTED", "INTERNAL", "done"}
      /\ Verdict(b) \in {"ok", "ACCEPTED"} => <<b, b>> \in stored
  BY Zenon DEF IInv, Ledger
<1>9. CASE b = c
  BY <1>5, <1>6, <1>8, <1>9, Zenon
<1>10. CASE b # c
  BY <1>4, <1>7, <1>8, <1>10, Zenon
<1> QED
  BY <1>9, <1>10, Zenon

\* What a publish reports and what the broker then holds (nats.go, Publish).
LEMMA OutcomeIs ==
  ASSUME NEW j, NEW c, c = j.batch, content[j.buf] = c, NEW o \in Outcomes(j)
  PROVE  /\ o.err = "ok" => o.stored = {<<c, c>>} /\ o.late = {}
         /\ o.err = "unavailable" => o.stored = {} /\ o.late \subseteq {<<c, c>>}
         /\ o.err \in {"overloaded", "tooLarge"} => o.stored = {} /\ o.late = {}
         /\ o.err \in Results
<1>1. \/ o = [err |-> "ok", stored |-> {<<c, c>>}, late |-> {}]
      \/ o = [err |-> "unavailable", stored |-> {}, late |-> {<<c, c>>}]
      \/ \E e \in {"overloaded", "tooLarge", "unavailable"} :
           o = [err |-> e, stored |-> {}, late |-> {}]
  BY Zenon DEF Outcomes
<1> QED
  BY <1>1 DEF Results

\* A publish answers the handler that waits for it, if there is one; the job of
\* a handler that has left was answered INTERNAL or not at all.
LEMMA LedgerPublishes ==
  ASSUME IInv, TypeOK', Positions', NEW p \in Publishers, Publish(p)
  PROVE  Ledger'
<1>1. PICK c \in Batches : c = job[p].batch
  <2>1. job[p].batch \in Batches
    BY Zenon DEF Publish, IInv, Hands, Jobs
  <2> QED
    BY <2>1, Zenon
<1>2. PICK o \in Outcomes(job[p]) :
        /\ stored' = stored \cup o.stored /\ late' = late \cup o.late
        /\ reply' = [s \in Streams |->
                      IF hpc[s] = "wait" /\ Current(s) = c THEN o.err ELSE reply[s]]
  BY <1>1, Zenon DEF Publish
<1>o. /\ o.err = "ok" => o.stored = {<<c, c>>} /\ o.late = {}
      /\ o.err = "unavailable" => o.stored = {} /\ o.late \subseteq {<<c, c>>}
      /\ o.err \in {"overloaded", "tooLarge"} => o.stored = {} /\ o.late = {}
      /\ o.err \in Results
  <2>1. content[job[p].buf] = c
    BY <1>1, Zenon DEF Publish, IInv, Buffers
  <2> QED
    BY <1>1, <2>1, OutcomeIs, Zenon
<1>3. Outstanding' = Outstanding \ {c} /\ c \in Outstanding
  BY <1>1, PublishEnds, Zenon DEF IInv
<1>4. UNCHANGED <<hpc, read, code, answers>>
  BY Zenon DEF Publish
<1>5. Verdict(c) \in {"empty", "INTERNAL", "done"}
  BY <1>3, Zenon DEF IInv, Ledger
<1>6. (\A b \in Batches \ {c} : Verdict(b)' = Verdict(b))
      /\ \/ Verdict(c) = "empty" /\ Verdict(c)' = o.err
         \/ Verdict(c) \in {"INTERNAL", "done"} /\ Verdict(c)' = Verdict(c)
  <2>1. CASE \E s \in Streams : hpc[s] = "wait" /\ Current(s) = c
    <3>1. PICK s \in Streams : hpc[s] = "wait" /\ Current(s) = c
      BY <2>1, Zenon
    <3>2. \A t \in Streams \ {s} : reply'[t] = reply[t]
      <4>1. \A t \in Streams \ {s} : Current(t) # c
        BY <3>1, Zenon DEF Current
      <4> QED
        BY <1>2, <4>1, Zenon
    <3>3. \A b \in Batches \ {c} : Verdict(b)' = Verdict(b)
      BY <1>4, <3>1, <3>2, VerdictMoves, Zenon DEF IInv
    <3>4. Verdict(c) = reply[s]
      BY <3>1, VerdictOfCurrent, Zenon DEF IInv
    <3>5. Verdict(c)' = reply'[s] /\ reply'[s] = o.err
      <4>1. c = Current(s)'
        BY <1>4, <3>1, Zenon DEF Current
      <4>2. Verdict(c)' = reply'[s]
        BY <1>4, <3>1, <4>1, VerdictOfCurrent, Zenon
      <4> QED
        BY <1>2, <3>1, <4>2, Zenon
    <3>6. reply[s] \in Results \cup {"none", "empty"}
      BY Zenon DEF IInv, TypeOK
    <3> QED
      BY <1>5, <3>3, <3>4, <3>5, <3>6, Zenon DEF Results
  <2>2. CASE ~\E s \in Streams : hpc[s] = "wait" /\ Current(s) = c
    <3>1. \A s \in Streams : reply'[s] = reply[s]
      BY <1>2, <2>2, Zenon
    <3>2. \A b \in Batches : Verdict(b)' = Verdict(b)
      <4> SUFFICES ASSUME NEW b \in Batches PROVE Verdict(b)' = Verdict(b)
        BY Zenon
      <4>1. b[1] \in Streams
        BY BatchIs, Zenon
      <4> QED
        BY <1>4, <3>1, <4>1, VerdictOfOthers, Zenon
    <3>3. Verdict(c) # "empty"
      <4>1. c[1] \in Streams /\ c[2] \in Nat /\ c = <<c[1], c[2]>>
        BY BatchIs, Zenon
      <4>2. /\ c[2] <= Len(answers[c[1]]) /\ 1 <= c[2] => answers[c[1]][c[2]] \in Codes
            /\ code[c[1]] # "empty" /\ hpc[c[1]] # "empty"
        <5>0. PICK s \in Streams : s = c[1]
          BY <4>1, Zenon
        <5>1. answers[c[1]] \in Seq(Codes) /\ code[c[1]] \in Codes \cup {"none"}
          BY <5>0, Zenon DEF IInv, TypeOK
        <5>2. hpc[c[1]] # "empty"
          <6>1. hpc \in [Streams -> {"none", "recv", "offer", "wait", "send", "done"}]
            BY Zenon DEF IInv, TypeOK
          <6>2. hpc[s] # "empty"
            BY <6>1, Zenon
          <6> QED
            BY <5>0, <6>2, Zenon
        <5>3. c[2] <= Len(answers[c[1]]) /\ 1 <= c[2] => answers[c[1]][c[2]] \in Codes
          BY <4>1, <5>1
        <5> QED
          BY <5>1, <5>2, <5>3, Zenon DEF Codes
      <4>3. hpc[c[1]] = "wait" => c[2] # read[c[1]]
        BY <2>2, <4>1, Zenon DEF Current
      <4>4. 1 <= c[2]
        BY BatchIs, Zenon
      <4> QED
        BY <4>1, <4>2, <4>3, <4>4, Zenon DEF Verdict, Codes
    <3> QED
      BY <1>5, <3>2, <3>3, Zenon
  <2> QED
    BY <2>1, <2>2, Zenon
<1> SUFFICES ASSUME NEW b \in Batches
             PROVE  /\ b \in Outstanding' => Verdict(b)' \in {"empty", "INTERNAL", "done"}
                    /\ <<b, b>> \in late' => Verdict(b)' \in {"unavailable", "INTERNAL", "done"}
                    /\ <<b, b>> \in stored' =>
                         Verdict(b)' \in {"ok", "unavailable", "ACCEPTED", "INTERNAL", "done"}
                    /\ Verdict(b)' \in {"ok", "ACCEPTED"} => <<b, b>> \in stored'
  BY Zenon DEF Ledger
<1>7. /\ b \in Outstanding => Verdict(b) \in {"empty", "INTERNAL", "done"}
      /\ <<b, b>> \in late => Verdict(b) \in {"unavailable", "INTERNAL", "done"}
      /\ <<b, b>> \in stored =>
           Verdict(b) \in {"ok", "unavailable", "ACCEPTED", "INTERNAL", "done"}
      /\ Verdict(b) \in {"ok", "ACCEPTED"} => <<b, b>> \in stored
  BY Zenon DEF IInv, Ledger
<1>8. /\ b # c => /\ <<b, b>> \in late' <=> <<b, b>> \in late
                  /\ <<b, b>> \in stored' <=> <<b, b>> \in stored
  BY <1>2, <1>o, Zenon DEF Results
<1>9. CASE b # c
  BY <1>3, <1>6, <1>7, <1>8, <1>9, Zenon
<1>10. CASE b = c
  BY <1>2, <1>o, <1>3, <1>6, <1>7, <1>10, Zenon DEF Results
<1> QED
  BY <1>9, <1>10, Zenon

\* The books are kept: no promise is broken, whatever the order of steps.
LEMMA LedgerNext == IInv /\ FreeBuffer /\ Next => Ledger'
<1> SUFFICES ASSUME IInv, FreeBuffer, Next PROVE Ledger'
  BY Zenon
<1>0. TypeOK /\ Positions /\ Hands /\ OneJobEach /\ Ledger /\ PayloadIntact
  BY Zenon DEF IInv
<1>1. TypeOK' /\ Positions'
  BY TypeNext, PositionsNext, Zenon
<1>2. ASSUME NEW s \in Streams, OpenStream(s) \/ HangUp(s) \/ RecvEnds(s)
      PROVE  Ledger'
  <2>1. UNCHANGED <<in, ppc, job, late, stored>>
    BY <1>2, Zenon DEF OpenStream, HangUp, RecvEnds, pubVars, brokerVars
  <2>2. Outstanding' = Outstanding
    BY <2>1, Zenon DEF Outstanding
  <2> QED
    BY <1>0, <1>2, <2>1, <2>2, VerdictBetween, LedgerSame, Zenon
<1>3. ASSUME NEW s \in Streams, Send(s)
      PROVE  Ledger'
  <2>1. UNCHANGED <<in, ppc, job, late, stored>>
    BY <1>3, Zenon DEF Send, pubVars, brokerVars
  <2>2. PICK c : c = Current(s)
    BY Zenon
  <2>3. /\ \A b \in Batches \ {c} : Verdict(b)' = Verdict(b)
        /\ Verdict(c) = code[s] /\ Verdict(c)' \in {code[s], "done"}
    BY <1>0, <1>3, <2>2, VerdictSent, Zenon
  <2>4. code[s] \in Codes
    BY <1>0, <1>3, Zenon DEF Send, Positions, TypeOK
  <2> QED
    BY <1>0, <2>1, <2>3, <2>4, LedgerKept, Zenon DEF Codes
<1>4. ASSUME \E p \in Publishers : Quit(p) \/ Drained(p) \/ Take(p)
      PROVE  Ledger'
  <2>1. UNCHANGED <<handlerVars, late, stored>>
    BY <1>4, Zenon DEF Quit, Drained, Take, brokerVars
  <2>2. \A b \in Batches : Verdict(b)' = Verdict(b)
    BY <2>1, Zenon DEF handlerVars, Verdict
  <2>3. Outstanding' \subseteq Outstanding
    <3>1. ASSUME NEW p \in Publishers, Quit(p) \/ Drained(p)
          PROVE  Outstanding' \subseteq Outstanding
      <4>1. UNCHANGED <<in, job>> /\ \A q \in Publishers : ppc'[q] = "busy" => ppc[q] = "busy"
        BY <1>0, <3>1 DEF Quit, Drained, TypeOK
      <4> QED
        BY <4>1, OutstandingIs, Zenon
    <3> QED
      BY <1>0, <1>4, <3>1, TakeMoves, Zenon
  <2> QED
    BY <1>0, <2>1, <2>2, <2>3, LedgerSame, Zenon
<1>5. ASSUME ShutdownBegins \/ Stop
      PROVE  Ledger'
  <2>1. UNCHANGED <<handlerVars, in, ppc, job, late, stored>>
    BY <1>5, Zenon DEF ShutdownBegins, Stop, ClosePipeline, DeadlinePasses, CloseReturns,
       pubVars, brokerVars
  <2>2. \A b \in Batches : Verdict(b)' = Verdict(b)
    BY <2>1, Zenon DEF handlerVars, Verdict
  <2>3. Outstanding' = Outstanding
    BY <2>1, Zenon DEF Outstanding
  <2> QED
    BY <1>0, <2>1, <2>2, <2>3, LedgerSame, Zenon
<1>6. ASSUME NEW m \in late, LateStore(m)
      PROVE  Ledger'
  <2>1. UNCHANGED <<handlerVars, in, ppc, job>> /\ stored' = stored \cup {m} /\ late' = late \ {m}
    BY <1>6, Zenon DEF LateStore, pubVars
  <2>2. \A b \in Batches : Verdict(b)' = Verdict(b)
    BY <2>1, Zenon DEF handlerVars, Verdict
  <2>3. Outstanding' = Outstanding
    BY <2>1, Zenon DEF Outstanding
  <2> SUFFICES ASSUME NEW b \in Batches
               PROVE  /\ b \in Outstanding => Verdict(b)' \in {"empty", "INTERNAL", "done"}
                      /\ <<b, b>> \in late' => Verdict(b)' \in {"unavailable", "INTERNAL", "done"}
                      /\ <<b, b>> \in stored' =>
                           Verdict(b)' \in {"ok", "unavailable", "ACCEPTED", "INTERNAL", "done"}
                      /\ Verdict(b)' \in {"ok", "ACCEPTED"} => <<b, b>> \in stored'
    BY <2>3, Zenon DEF Ledger
  <2>4. /\ b \in Outstanding => Verdict(b) \in {"empty", "INTERNAL", "done"}
        /\ <<b, b>> \in late => Verdict(b) \in {"unavailable", "INTERNAL", "done"}
        /\ <<b, b>> \in stored =>
             Verdict(b) \in {"ok", "unavailable", "ACCEPTED", "INTERNAL", "done"}
        /\ Verdict(b) \in {"ok", "ACCEPTED"} => <<b, b>> \in stored
    BY <1>0, Zenon DEF Ledger
  <2>5. <<b, b>> \in stored' => <<b, b>> \in stored \/ <<b, b>> \in late
    BY <1>6, <2>1, Zenon
  <2> QED
    BY <2>1, <2>2, <2>4, <2>5, Zenon
<1> QED
  BY <1>1, <1>2, <1>3, <1>4, <1>5, <1>6, LedgerReceives, LedgerReplies, LedgerEnqueues,
     LedgerPublishes, Zenon DEF Next, Submit, Reply, PublisherStep

\* A handler that waits has its job until it has its result.
LEMMA AwaitedNext == IInv /\ Next => Awaited'
<1> SUFFICES ASSUME IInv, Next, NEW t \in Streams, hpc'[t] = "wait", reply'[t] = "empty"
             PROVE  Current(t)' \in Outstanding'
  BY Zenon DEF Awaited
<1>0. TypeOK /\ Positions /\ Hands /\ OneJobEach /\ Ledger /\ Awaited
  BY Zenon DEF IInv
<1>1. ASSUME NEW s \in Streams, Enqueue(s)
      PROVE  Current(t)' \in Outstanding'
  <2>1. Outstanding' = Outstanding \cup {Current(s)}
    BY <1>0, <1>1, EnqueueAdds, Zenon
  <2>0. UNCHANGED read
    BY <1>1, Zenon DEF Enqueue
  <2>2. t # s => hpc[t] = "wait" /\ reply[t] = "empty"
    BY <1>0, <1>1, OnlyItsOwn, Zenon DEF Submit
  <2> QED
    BY <1>0, <2>0, <2>1, <2>2, Zenon DEF Awaited, Current
<1>2. ASSUME NEW s \in Streams,
             \/ OpenStream(s) \/ HangUp(s) \/ RecvEnds(s) \/ Receive(s)
             \/ \E kind \in Kinds : Reject(s, kind)
             \/ Shed(s) \/ Reply(s) \/ Send(s)
      PROVE  Current(t)' \in Outstanding'
  <2>1. Outstanding' = Outstanding
    <3>1. UNCHANGED <<in, ppc, job>>
      BY <1>2, Zenon DEF OpenStream, HangUp, RecvEnds, Receive, Reject, Shed, Reply, Accepted,
         Failed, Send, pubVars
    <3> QED
      BY <3>1, Zenon DEF Outstanding
  <2>2. hpc'[s] = "wait" => UNCHANGED <<hpc, reply, read>>
    <3>1. DOMAIN hpc = Streams
      BY <1>0, Zenon DEF TypeOK
    <3> QED
      BY <1>2, <3>1, Zenon DEF OpenStream, HangUp, RecvEnds, Receive, Reject, Shed, Reply, Accepted,
         Failed, Send, handlerVars
  <2>3. hpc[t] = "wait" /\ reply[t] = "empty" /\ read'[t] = read[t]
    <3>1. t # s => hpc'[t] = hpc[t] /\ reply'[t] = reply[t] /\ read'[t] = read[t]
      BY <1>0, <1>2, OnlyItsOwn, Zenon DEF Submit
    <3> QED
      BY <2>2, <3>1, Zenon
  <2> QED
    BY <1>0, <2>1, <2>3, Zenon DEF Awaited, Current
<1>3. ASSUME NEW p \in Publishers, Publish(p)
      PROVE  Current(t)' \in Outstanding'
  <2>1. PICK c \in Batches : c = job[p].batch
    <3>1. job[p].batch \in Batches
      BY <1>0, <1>3, Zenon DEF Publish, Hands, Jobs
    <3> QED
      BY <3>1, Zenon
  <2>2. PICK o \in Outcomes(job[p]) :
          reply' = [s \in Streams |->
                     IF hpc[s] = "wait" /\ Current(s) = c THEN o.err ELSE reply[s]]
    BY <1>3, <2>1, Zenon DEF Publish
  <2>3. o.err # "empty"
    BY DEF Outcomes
  <2>4. hpc[t] = "wait" /\ Current(t) # c /\ reply[t] = "empty" /\ read' = read
    BY <1>3, <2>2, <2>3, Zenon DEF Publish
  <2>5. Outstanding' = Outstanding \ {c}
    BY <1>0, <1>3, <2>1, PublishEnds, Zenon
  <2> QED
    BY <1>0, <2>4, <2>5, Zenon DEF Awaited, Current
<1>4. ASSUME \/ \E p \in Publishers : Quit(p) \/ Drained(p) \/ Take(p)
             \/ \E m \in late : LateStore(m)
             \/ ShutdownBegins \/ Stop
      PROVE  Current(t)' \in Outstanding'
  <2>1. UNCHANGED handlerVars
    BY <1>4, Zenon DEF Quit, Drained, Take, LateStore, ShutdownBegins, Stop, ClosePipeline,
       DeadlinePasses, CloseReturns
  <2>2. Current(t) \in Outstanding /\ Current(t)' = Current(t)
    BY <1>0, <2>1, Zenon DEF handlerVars, Awaited, Current
  <2>3. Outstanding \subseteq Outstanding'
    <3>1. ASSUME NEW p \in Publishers, Quit(p) \/ Drained(p)
          PROVE  Outstanding \subseteq Outstanding'
      <4>1. UNCHANGED <<in, job>> /\ \A q \in Publishers : ppc[q] = "busy" => ppc'[q] = "busy"
        BY <1>0, <3>1 DEF Quit, Drained, TypeOK
      <4> QED
        BY <4>1, OutstandingIs
    <3>2. ASSUME \/ \E m \in late : LateStore(m)
                 \/ ShutdownBegins \/ Stop
          PROVE  Outstanding \subseteq Outstanding'
      <4>1. UNCHANGED <<in, ppc, job>>
        BY <3>2, Zenon DEF LateStore, ShutdownBegins, Stop, ClosePipeline, DeadlinePasses,
           CloseReturns, pubVars
      <4> QED
        BY <4>1, Zenon DEF Outstanding
    <3> QED
      BY <1>0, <1>4, <3>1, <3>2, TakeMoves, Zenon
  <2> QED
    BY <2>2, <2>3, Zenon
<1> QED
  BY <1>1, <1>2, <1>3, <1>4, Zenon DEF Next, Submit, PublisherStep

-----------------------------------------------------------------------------
(* Payload buffers.                                                        *)

\* Who refers to a buffer.
LEMMA ReferencedIs ==
  ASSUME NEW b
  PROVE  /\ b \in Referenced <=>
              \/ \E t \in Streams : buf[t] = b
              \/ \E i \in DOMAIN in : in[i].buf = b
              \/ \E p \in Publishers : job[p].buf = b
         /\ b \in Referenced' <=>
              \/ \E t \in Streams : buf'[t] = b
              \/ \E i \in DOMAIN in' : in'[i].buf = b
              \/ \E p \in Publishers : job'[p].buf = b
  BY Zenon DEF Referenced, Range

\* References are where handlers, the channel and publishers have them.
LEMMA ReferencedSame ==
  ASSUME UNCHANGED <<buf, in, job>>
  PROVE  Referenced' = Referenced
  BY DEF Referenced, Range

\* A step keeps what buffers hold when everybody who refers to one afterwards
\* took it over from somebody who did before.
LEMMA BuffersKept ==
  ASSUME TypeOK, TypeOK', Positions', Hands', Buffers,
         \A b \in Bufs : b \in Referenced' => content'[b] = content[b],
         \A t \in Streams : hpc'[t] \in {"offer", "wait"} =>
             hpc[t] \in {"offer", "wait"} /\ buf'[t] = buf[t] /\ read'[t] = read[t],
         \A i \in DOMAIN in' :
             \/ \E k \in DOMAIN in : in'[i] = in[k]
             \/ \E t \in Streams : /\ hpc[t] = "offer"
                                   /\ in'[i].batch = Current(t) /\ in'[i].buf = buf[t],
         \A p \in Publishers : ppc'[p] = "busy" =>
             \/ ppc[p] = "busy" /\ job'[p] = job[p]
             \/ \E k \in DOMAIN in : job'[p] = in[k],
         pool' \cap Referenced' = {}
  PROVE  Buffers'
<1>1. ASSUME NEW t \in Streams, hpc'[t] \in {"offer", "wait"}
      PROVE  content'[buf'[t]] = Current(t)'
  <2>1. PICK b \in Bufs : b = buf'[t]
    BY <1>1 DEF TypeOK, Positions
  <2>2. content'[b] = content[b]
    BY <2>1, ReferencedIs, Zenon
  <2>3. content[b] = Current(t) /\ Current(t)' = Current(t)
    BY <1>1, <2>1 DEF Buffers, Current
  <2> QED
    BY <2>1, <2>2, <2>3, Zenon
<1>2. ASSUME NEW i \in DOMAIN in'
      PROVE  content'[in'[i].buf] = in'[i].batch
  <2>1. in'[i] \in Jobs
    BY <1>2 DEF TypeOK
  <2>2. PICK b \in Bufs : b = in'[i].buf
    BY <2>1, Zenon DEF Jobs
  <2>3. content'[b] = content[b]
    BY <2>2, ReferencedIs, Zenon
  <2>4. content[b] = in'[i].batch
    BY <2>2 DEF Buffers
  <2> QED
    BY <2>2, <2>3, <2>4, Zenon
<1>3. ASSUME NEW p \in Publishers, ppc'[p] = "busy"
      PROVE  content'[job'[p].buf] = job'[p].batch
  <2>1. job'[p] \in Jobs
    BY <1>3, Zenon DEF Hands
  <2>2. PICK b \in Bufs : b = job'[p].buf
    BY <2>1, Zenon DEF Jobs
  <2>3. content'[b] = content[b]
    <3>1. b \in Referenced'
      BY <2>2, ReferencedIs, Zenon
    <3> QED
      BY <3>1
  <2>4. content[b] = job'[p].batch
    BY <1>3, <2>2 DEF Buffers
  <2> QED
    BY <2>2, <2>3, <2>4, Zenon
<1> QED
  BY <1>1, <1>2, <1>3, Zenon DEF Buffers

\* The buffer of a handler without a job is its own: Put may take it.
LEMMA Lone ==
  ASSUME TypeOK, Positions, Hands, Buffers, NEW s \in Streams,
         hpc[s] \in {"offer", "wait"}, Current(s) \notin Outstanding
  PROVE  /\ \A t \in Streams \ {s} : buf[t] # buf[s]
         /\ \A i \in DOMAIN in : in[i].buf # buf[s]
         /\ \A p \in Publishers : job[p].buf # buf[s]
<1>1. buf[s] # NoBuf /\ content[buf[s]] = Current(s)
  BY Zenon DEF Positions, Buffers
<1>2. ASSUME NEW t \in Streams \ {s}, buf[t] = buf[s] PROVE FALSE
  <2>1. content[buf[t]] = Current(t)
    BY <1>1, <1>2, Zenon DEF Positions, Buffers
  <2> QED
    BY <1>1, <1>2, <2>1 DEF Current
<1>3. ASSUME NEW i \in DOMAIN in, in[i].buf = buf[s] PROVE FALSE
  BY <1>1, <1>3, OutstandingIs DEF Buffers
<1>4. ASSUME NEW p \in Publishers, job[p].buf = buf[s] PROVE FALSE
  <2>1. CASE ppc[p] = "busy"
    BY <1>1, <1>4, <2>1, OutstandingIs DEF Buffers
  <2>2. CASE ppc[p] # "busy"
    <3>1. job[p] = NoJob
      BY <2>2 DEF Hands, TypeOK
    <3> QED
      BY <1>1, <1>4, <3>1 DEF NoJob
  <2> QED
    BY <2>1, <2>2, Zenon
<1> QED
  BY <1>2, <1>3, <1>4, Zenon

\* No buffer is lost or shared: what a buffer that is referred to holds stays,
\* and none of them is in the pool.
LEMMA BuffersNext == IInv /\ FreeBuffer /\ Next => Buffers'
<1> SUFFICES ASSUME IInv, FreeBuffer, Next PROVE Buffers'
  BY Zenon
<1>0. TypeOK /\ Positions /\ Hands /\ Buffers /\ Ledger
  BY Zenon DEF IInv
<1>1. TypeOK' /\ Positions' /\ Hands'
  BY TypeNext, PositionsNext, HandsNext, Zenon
<1>a. pool \cap Referenced = {} /\ pool \subseteq Bufs /\ NoBuf \notin Bufs
  BY <1>0, Bounds DEF Buffers, TypeOK, NoBuf, Bufs
<1>2. ASSUME UNCHANGED <<in, ppc, job, buf, content>>,
             \A t \in Streams : hpc'[t] \in {"offer", "wait"} =>
               hpc[t] \in {"offer", "wait"} /\ read'[t] = read[t],
             pool' = pool \/ (Get \notin Referenced /\ pool' = pool \cup {Get})
      PROVE  Buffers'
  <2>1. Referenced' = Referenced
    BY <1>2, ReferencedSame, Zenon
  <2>2. pool' \cap Referenced' = {}
    BY <1>a, <1>2, <2>1, Zenon
  <2> QED
    BY <1>0, <1>1, <1>2, <2>1, <2>2, BuffersKept, Zenon
<1>3. ASSUME NEW s \in Streams,
             OpenStream(s) \/ HangUp(s) \/ RecvEnds(s) \/ Send(s)
               \/ \E kind \in Kinds : Reject(s, kind)
      PROVE  Buffers'
  <2>1. UNCHANGED <<in, ppc, job, buf, content>>
    BY <1>3, Zenon DEF OpenStream, HangUp, RecvEnds, Send, Reject, pubVars, handlerVars
  <2>2. hpc'[s] \in {"offer", "wait"} => UNCHANGED <<hpc, read>>
    <3>1. DOMAIN hpc = Streams
      BY <1>0, Zenon DEF TypeOK
    <3>2. ASSUME OpenStream(s) \/ RecvEnds(s) \/ Send(s)
                   \/ \E kind \in Kinds : Reject(s, kind)
          PROVE  hpc'[s] \in {"recv", "send", "done"}
      BY <3>1, <3>2, Zenon DEF OpenStream, RecvEnds, Send, Reject
    <3>3. HangUp(s) => UNCHANGED <<hpc, read>>
      BY Zenon DEF HangUp, handlerVars
    <3> QED
      BY <1>3, <3>2, <3>3, Zenon
  <2>3. \A t \in Streams : hpc'[t] \in {"offer", "wait"} =>
          hpc[t] \in {"offer", "wait"} /\ read'[t] = read[t]
    <3>1. \A t \in Streams \ {s} : hpc'[t] = hpc[t] /\ read'[t] = read[t]
      BY <1>0, <1>3, OnlyItsOwn
    <3> QED
      BY <2>2, <3>1, Zenon
  <2>4. pool' = pool \/ (Get \notin Referenced /\ pool' = pool \cup {Get})
    <3>1. ASSUME NEW kind \in Kinds, Reject(s, kind) PROVE Get \notin Referenced
      <4>1. buf[s] = NoBuf
        BY <1>0, <3>1, Zenon DEF Reject, Positions
      <4> QED
        BY <4>1, Zenon DEF FreeBuffer
    <3>2. pool' = pool \/ \E kind \in Kinds : Reject(s, kind) /\ pool' = pool \cup {Get}
      BY <1>3, Zenon DEF OpenStream, HangUp, RecvEnds, Send, Reject
    <3> QED
      BY <3>1, <3>2, Zenon
  <2> QED
    BY <1>2, <2>1, <2>3, <2>4, Zenon
<1>4. ASSUME NEW s \in Streams, Enqueue(s)
      PROVE  Buffers'
  <2>1. /\ in' = Append(in, [batch |-> Current(s), buf |-> buf[s]]) /\ in \in Seq(Jobs)
        /\ hpc[s] = "offer" /\ UNCHANGED <<ppc, job, buf, content, pool, read>>
    BY <1>0, <1>4 DEF Enqueue, TypeOK, pubVars
  <2>2. /\ DOMAIN in' = DOMAIN in \cup {Len(in) + 1} /\ \A i \in DOMAIN in : in'[i] = in[i]
        /\ in'[Len(in) + 1] = [batch |-> Current(s), buf |-> buf[s]]
    BY <2>1, AppendDomain
  <2>3. \A i \in DOMAIN in' :
          \/ \E k \in DOMAIN in : in'[i] = in[k]
          \/ \E t \in Streams : /\ hpc[t] = "offer"
                                /\ in'[i].batch = Current(t) /\ in'[i].buf = buf[t]
    BY <2>1, <2>2
  <2>4. Referenced' \subseteq Referenced
    <3> SUFFICES ASSUME NEW b \in Referenced' PROVE b \in Referenced
      BY Zenon
    <3>1. \/ \E t \in Streams : buf[t] = b
          \/ \E i \in DOMAIN in : in[i].buf = b
          \/ \E p \in Publishers : job[p].buf = b
      BY <2>1, <2>2, ReferencedIs
    <3> QED
      BY <3>1, ReferencedIs, Zenon
  <2>5. \A t \in Streams : hpc'[t] \in {"offer", "wait"} => hpc[t] \in {"offer", "wait"}
    BY <1>0, <1>4, Zenon DEF Enqueue, TypeOK
  <2> QED
    BY <1>0, <1>1, <1>a, <2>1, <2>3, <2>4, <2>5, BuffersKept
<1>5. ASSUME NEW s \in Streams, Shed(s) \/ Reply(s)
      PROVE  Buffers'
  <2>1. /\ UNCHANGED <<in, ppc, job, read>> /\ KeepContent
        /\ hpc[s] \in {"offer", "wait"} /\ hpc' = [hpc EXCEPT ![s] = "send"]
        /\ buf' = [buf EXCEPT ![s] = NoBuf]
    BY <1>5, Zenon DEF Shed, Reply, Accepted, Failed, pubVars
  <2>2. \A b \in Bufs : b \in Referenced' => content'[b] = content[b]
    BY <1>0, <2>1, KeptContent, Zenon
  <2>3. /\ \A t \in Streams \ {s} : hpc'[t] = hpc[t] /\ buf'[t] = buf[t]
        /\ hpc'[s] = "send" /\ buf'[s] = NoBuf
    BY <1>0, <2>1 DEF TypeOK
  <2>4. \A b \in Bufs : b \in Referenced' =>
          /\ b \in Referenced
          /\ \/ \E t \in Streams \ {s} : buf[t] = b
             \/ \E i \in DOMAIN in : in[i].buf = b
             \/ \E p \in Publishers : job[p].buf = b
    <3> SUFFICES ASSUME NEW b \in Bufs, b \in Referenced'
                 PROVE  /\ b \in Referenced
                        /\ \/ \E t \in Streams \ {s} : buf[t] = b
                           \/ \E i \in DOMAIN in : in[i].buf = b
                           \/ \E p \in Publishers : job[p].buf = b
      BY Zenon
    <3>1. \/ \E t \in Streams : buf'[t] = b
          \/ \E i \in DOMAIN in : in[i].buf = b
          \/ \E p \in Publishers : job[p].buf = b
      BY <2>1, ReferencedIs, Zenon
    <3>2. \/ \E t \in Streams \ {s} : buf[t] = b
          \/ \E i \in DOMAIN in : in[i].buf = b
          \/ \E p \in Publishers : job[p].buf = b
      BY <1>a, <2>3, <3>1, Zenon
    <3> QED
      BY <3>2, ReferencedIs, Zenon
  <2>5. pool' \cap Referenced' = {}
    <3>1. CASE Failed(s)
      <4>1. pool' = pool
        BY <3>1, Zenon DEF Failed
      <4> QED
        BY <1>a, <2>4, <4>1, Zenon
    <3>2. CASE Shed(s) \/ Accepted(s)
      <4>1. pool' = pool \cup {buf[s]} /\ (hpc[s] = "offer" \/ (hpc[s] = "wait" /\ reply[s] = "ok"))
        BY <3>2, Zenon DEF Shed, Accepted
      <4>2. Current(s) \notin Outstanding
        BY <1>0, <4>1, NotOutstanding, Zenon
      <4>3. /\ \A t \in Streams \ {s} : buf[t] # buf[s]
            /\ \A i \in DOMAIN in : in[i].buf # buf[s]
            /\ \A p \in Publishers : job[p].buf # buf[s]
        BY <1>0, <2>1, <4>2, Lone, Zenon
      <4>4. buf[s] \in Bufs
        BY <1>0, <2>1 DEF TypeOK, Positions
      <4>5. buf[s] \notin Referenced'
        BY <2>4, <4>3, <4>4, Zenon
      <4> QED
        BY <1>a, <2>4, <4>1, <4>5
    <3> QED
      BY <1>5, <3>1, <3>2, Zenon DEF Reply
  <2> QED
    BY <1>0, <1>1, <2>1, <2>2, <2>3, <2>5, BuffersKept, Zenon

<1>6. ASSUME NEW s \in Streams, Receive(s)
      PROVE  Buffers'
  <2>1. hpc[s] = "recv" /\ buf[s] = NoBuf
    BY <1>0, <1>6, Zenon DEF Receive, Positions
  <2>2. Get \in Bufs /\ Get \notin Referenced
    BY <2>1, Zenon DEF FreeBuffer
  <2>3. PICK g \in Bufs : g = Get
    BY <2>2, Zenon
  <2>4. PICK c : c = Current(s)'
    BY Zenon
  <2>5. /\ pool' = pool \ {g} /\ content' = [content EXCEPT ![g] = c]
        /\ buf' = [buf EXCEPT ![s] = g] /\ UNCHANGED <<in, ppc, job>>
    BY <1>6, <2>3, <2>4, Zenon DEF Receive, pubVars
  <2>6. /\ content'[g] = c /\ \A b \in Bufs \ {g} : content'[b] = content[b]
        /\ buf'[s] = g /\ \A t \in Streams \ {s} : buf'[t] = buf[t]
    BY <1>0, <2>5, Zenon DEF TypeOK
  <2>7. /\ \A t \in Streams : buf[t] # g
        /\ \A i \in DOMAIN in : in[i].buf # g
        /\ \A p \in Publishers : job[p].buf # g
    BY <2>2, <2>3, ReferencedIs, Zenon
  <2>8. \A b \in Referenced' : b = g \/ b \in Referenced
    <3> SUFFICES ASSUME NEW b \in Referenced', b # g PROVE b \in Referenced
      BY Zenon
    <3>1. \/ \E t \in Streams : buf'[t] = b
          \/ \E i \in DOMAIN in : in[i].buf = b
          \/ \E p \in Publishers : job[p].buf = b
      BY <2>5, ReferencedIs, Zenon
    <3>2. \/ \E t \in Streams : buf[t] = b
          \/ \E i \in DOMAIN in : in[i].buf = b
          \/ \E p \in Publishers : job[p].buf = b
      BY <2>6, <3>1, Zenon
    <3> QED
      BY <3>2, ReferencedIs, Zenon
  <2>9. ASSUME NEW t \in Streams, hpc'[t] \in {"offer", "wait"}
        PROVE  content'[buf'[t]] = Current(t)'
    <3>1. CASE t = s
      BY <2>4, <2>6, <3>1, Zenon
    <3>2. CASE t # s
      <4>1. hpc'[t] = hpc[t] /\ Current(t)' = Current(t)
        BY <1>0, <1>6, <3>2, OnlyItsOwn DEF Current
      <4>2. content[buf[t]] = Current(t) /\ buf[t] # NoBuf
        BY <1>0, <2>9, <4>1, Zenon DEF Buffers, Positions
      <4>3. buf[t] \in Bufs
        BY <1>0, <4>2, Zenon DEF TypeOK
      <4> QED
        BY <2>6, <2>7, <3>2, <4>1, <4>2, <4>3
    <3> QED
      BY <3>1, <3>2, Zenon
  <2>10. ASSUME NEW i \in DOMAIN in'
         PROVE  content'[in'[i].buf] = in'[i].batch
    <3>1. in'[i] = in[i] /\ i \in DOMAIN in
      BY <2>5, Zenon
    <3>2. in[i] \in Jobs
      BY <1>0, <3>1 DEF TypeOK
    <3>3. in[i].buf \in Bufs
      BY <3>2, Zenon DEF Jobs
    <3> QED
      BY <1>0, <2>6, <2>7, <3>1, <3>3 DEF Buffers
  <2>11. ASSUME NEW p \in Publishers, ppc'[p] = "busy"
         PROVE  content'[job'[p].buf] = job'[p].batch
    <3>1. job'[p] = job[p] /\ ppc[p] = "busy"
      BY <2>5, <2>11, Zenon
    <3>2. job[p].buf \in Bufs
      BY <1>0, <3>1, Zenon DEF Jobs, Hands
    <3> QED
      BY <1>0, <2>6, <2>7, <3>1, <3>2 DEF Buffers
  <2>12. pool' \cap Referenced' = {}
    BY <1>a, <2>5, <2>8, Zenon
  <2> QED
    BY <2>9, <2>10, <2>11, <2>12, Zenon DEF Buffers
<1>7. ASSUME NEW p \in Publishers, Take(p)
      PROVE  Buffers'
  <2>1. /\ in # <<>> /\ in \in Seq(Jobs) /\ in' = Tail(in)
        /\ \A q \in Publishers \ {p} : job'[q] = job[q] /\ ppc'[q] = ppc[q]
        /\ job'[p] = Head(in) /\ UNCHANGED <<hpc, read, buf, content, pool>>
    BY <1>0, <1>7 DEF Take, TypeOK, handlerVars
  <2>2. /\ \A i \in DOMAIN in' : i + 1 \in DOMAIN in /\ in'[i] = in[i + 1]
        /\ 1 \in DOMAIN in /\ Head(in) = in[1]
    BY <2>1
  <2>3. Referenced' \subseteq Referenced
    <3> SUFFICES ASSUME NEW b \in Referenced' PROVE b \in Referenced
      BY Zenon
    <3>1. \/ \E t \in Streams : buf'[t] = b
          \/ \E i \in DOMAIN in' : in'[i].buf = b
          \/ \E q \in Publishers : job'[q].buf = b
      BY ReferencedIs, Zenon
    <3>2. \/ \E t \in Streams : buf[t] = b
          \/ \E i \in DOMAIN in : in[i].buf = b
          \/ \E q \in Publishers : job[q].buf = b
      BY <2>1, <2>2, <3>1
    <3> QED
      BY <3>2, ReferencedIs, Zenon
  <2>4. \A i \in DOMAIN in' : \E k \in DOMAIN in : in'[i] = in[k]
    BY <2>2, Zenon
  <2>5. \A q \in Publishers : ppc'[q] = "busy" =>
          \/ ppc[q] = "busy" /\ job'[q] = job[q]
          \/ \E k \in DOMAIN in : job'[q] = in[k]
    BY <2>1, <2>2, Zenon
  <2> QED
    BY <1>0, <1>1, <1>a, <2>1, <2>3, <2>4, <2>5, BuffersKept
<1>8. ASSUME NEW p \in Publishers, Publish(p)
      PROVE  Buffers'
  <2>1. /\ UNCHANGED <<hpc, read, buf, in, pool>> /\ KeepContent
        /\ \A q \in Publishers \ {p} : job'[q] = job[q] /\ ppc'[q] = ppc[q]
        /\ job'[p] = NoJob /\ ppc'[p] = "idle"
    BY <1>0, <1>8 DEF Publish, TypeOK
  <2>2. \A b \in Bufs : b \in Referenced' => content'[b] = content[b]
    BY <1>0, <2>1, KeptContent, Zenon
  <2>3. \A b \in Bufs : b \in Referenced' => b \in Referenced
    <3> SUFFICES ASSUME NEW b \in Bufs, b \in Referenced' PROVE b \in Referenced
      BY Zenon
    <3>1. \/ \E t \in Streams : buf[t] = b
          \/ \E i \in DOMAIN in : in[i].buf = b
          \/ \E q \in Publishers : job'[q].buf = b
      BY <2>1, ReferencedIs, Zenon
    <3>2. \/ \E t \in Streams : buf[t] = b
          \/ \E i \in DOMAIN in : in[i].buf = b
          \/ \E q \in Publishers : job[q].buf = b
      BY <1>a, <2>1, <3>1 DEF NoJob
    <3> QED
      BY <3>2, ReferencedIs, Zenon
  <2>4. pool' \cap Referenced' = {}
    BY <1>a, <2>1, <2>3, Zenon
  <2> QED
    BY <1>0, <1>1, <2>1, <2>2, <2>4, BuffersKept, Zenon
<1>9. ASSUME NEW p \in Publishers, Quit(p) \/ Drained(p)
      PROVE  Buffers'
  <2>1. /\ UNCHANGED <<hpc, read, buf, in, job, pool, content>>
        /\ \A q \in Publishers : ppc'[q] = "busy" => ppc[q] = "busy"
    BY <1>0, <1>9 DEF Quit, Drained, TypeOK, handlerVars
  <2>2. Referenced' = Referenced
    BY <2>1, ReferencedSame, Zenon
  <2> QED
    BY <1>0, <1>1, <1>a, <2>1, <2>2, BuffersKept, Zenon
<1>10. ASSUME \/ \E m \in late : LateStore(m)
              \/ ShutdownBegins \/ Stop
       PROVE  Buffers'
  <2>1. UNCHANGED <<hpc, read, buf, in, job, ppc, pool, content>>
    BY <1>10, Zenon DEF LateStore, ShutdownBegins, Stop, ClosePipeline, DeadlinePasses,
       CloseReturns, pubVars, handlerVars
  <2> QED
    BY <1>2, <2>1, Zenon
<1> QED
  BY <1>3, <1>4, <1>5, <1>6, <1>7, <1>8, <1>9, <1>10, Zenon DEF Next, Submit, PublisherStep

\* What is published, at once or late, or sent to the tail is what its buffer
\* held for the batch it was published for.
LEMMA IntactNext == IInv /\ Next => PayloadIntact'
<1> SUFFICES ASSUME IInv, Next PROVE PayloadIntact'
  BY Zenon
<1>0. TypeOK /\ Positions /\ Hands /\ Buffers /\ PayloadIntact
  BY Zenon DEF IInv
<1>1. ASSUME NEW s \in Streams, Accepted(s)
      PROVE  PayloadIntact'
  <2>1. /\ tailed' = tailed \cup {<<Current(s), content[buf[s]]>>}
        /\ hpc[s] = "wait" /\ UNCHANGED <<stored, late>>
    BY <1>1, Zenon DEF Accepted
  <2>2. content[buf[s]] = Current(s)
    BY <1>0, <2>1, Zenon DEF Buffers
  <2> QED
    BY <1>0, <2>1, <2>2 DEF PayloadIntact
<1>2. ASSUME NEW p \in Publishers, Publish(p)
      PROVE  PayloadIntact'
  <2>1. PICK c \in Batches : c = job[p].batch
    <3>1. job[p].batch \in Batches
      BY <1>0, <1>2, Zenon DEF Publish, Hands, Jobs
    <3> QED
      BY <3>1, Zenon
  <2>2. content[job[p].buf] = c
    BY <1>0, <1>2, <2>1, Zenon DEF Publish, Buffers
  <2>3. PICK o \in Outcomes(job[p]) : stored' = stored \cup o.stored /\ late' = late \cup o.late
    BY <1>2, Zenon DEF Publish
  <2>4. o.stored \cup o.late \subseteq {<<c, c>>}
    BY <2>1, <2>2, OutcomeIs DEF Results
  <2>5. tailed' = tailed
    BY <1>2, Zenon DEF Publish
  <2> QED
    BY <1>0, <2>3, <2>4, <2>5 DEF PayloadIntact
<1>3. ASSUME NEW m \in late, LateStore(m)
      PROVE  PayloadIntact'
  BY <1>0, <1>3, Zenon DEF LateStore, PayloadIntact
<1>4. ASSUME UNCHANGED brokerVars
      PROVE  PayloadIntact'
  BY <1>0, <1>4, Zenon DEF PayloadIntact, brokerVars
<1>5. ASSUME NEW s \in Streams,
             \/ OpenStream(s) \/ HangUp(s) \/ RecvEnds(s) \/ Receive(s)
             \/ \E kind \in Kinds : Reject(s, kind)
             \/ Submit(s) \/ Failed(s) \/ Send(s)
      PROVE  UNCHANGED brokerVars
  BY <1>5, Zenon DEF OpenStream, HangUp, RecvEnds, Receive, Reject, Submit, Enqueue, Shed,
     Failed, Send, brokerVars
<1>6. ASSUME NEW p \in Publishers, Take(p) \/ Quit(p) \/ Drained(p)
      PROVE  UNCHANGED brokerVars
  BY <1>6, Zenon DEF Take, Quit, Drained, brokerVars
<1>7. ASSUME ShutdownBegins \/ Stop
      PROVE  UNCHANGED brokerVars
  BY <1>7, Zenon DEF ShutdownBegins, Stop, ClosePipeline, DeadlinePasses, CloseReturns, brokerVars
<1> QED
  BY <1>1, <1>2, <1>3, <1>4, <1>5, <1>6, <1>7, Zenon DEF Next, Reply, PublisherStep

=============================================================================
