--------------------------- MODULE IngestProofs ---------------------------
(***************************************************************************)
(* Proofs about module Ingest, for every set of streams and publishers,    *)
(* every capacity of the pipeline's channel and every number of batches:   *)
(* IInv is inductive; that payloads are intact, that a shutdown loses no   *)
(* job and orphans no handler, and that the collector keeps the contract   *)
(* of AckStream follow from it.                                            *)
(***************************************************************************)
EXTENDS IngestInvariant, FiniteSetTheorems

USE SMTT(30)

-----------------------------------------------------------------------------
(* The payload pool never runs out.                                        *)

\* An image of a finite set under a function is no larger than the set.
LEMMA ImageBound ==
  ASSUME NEW S, IsFiniteSet(S), NEW f, S \subseteq DOMAIN f
  PROVE  /\ IsFiniteSet({f[x] : x \in S})
         /\ Cardinality({f[x] : x \in S}) <= Cardinality(S)
<1> DEFINE T == {f[x] : x \in S}
           g == [x \in S |-> f[x]]
<1>1. g \in Surjection(S, T)
  BY Zenon DEF Surjection
<1> QED
  BY <1>1, FS_Surjection, Zenon

\* The first n numbers.
LEMMA Counted ==
  ASSUME NEW n \in Nat
  PROVE  IsFiniteSet(1 .. n) /\ Cardinality(1 .. n) = n
  BY FS_Interval

\* The size of a union is bounded by the bounds of its parts.
LEMMA UnionBound ==
  ASSUME NEW S, IsFiniteSet(S), NEW a \in Nat, Cardinality(S) <= a,
         NEW T, IsFiniteSet(T), NEW b \in Nat, Cardinality(T) <= b
  PROVE  IsFiniteSet(S \cup T) /\ Cardinality(S \cup T) <= a + b
<1>1. Cardinality(S) \in Nat /\ Cardinality(T) \in Nat
  BY FS_CardinalityType, Zenon
<1>2. Cardinality(S \cap T) \in Nat
  BY FS_Intersection, FS_CardinalityType, Zenon
<1>3. /\ IsFiniteSet(S \cup T)
      /\ Cardinality(S \cup T) = Cardinality(S) + Cardinality(T) - Cardinality(S \cap T)
  BY FS_Union, Zenon
<1> QED
  BY <1>1, <1>2, <1>3

\* payloadPool.Get finds a buffer nobody refers to: with the handler that asks
\* empty-handed there are fewer references than buffers.
LEMMA GetIsFree == TypeOK /\ Buffers => FreeBuffer
<1> SUFFICES ASSUME TypeOK, Buffers, NEW s \in Streams, buf[s] = NoBuf
             PROVE  Get \in Bufs /\ Get \notin Referenced
  BY Zenon DEF FreeBuffer
<1> DEFINE A == {buf[t] : t \in Streams \ {s}}
           inBuf == [i \in DOMAIN in |-> in[i].buf]
           B == {inBuf[i] : i \in DOMAIN in}
           pubBuf == [p \in Publishers |-> job[p].buf]
           C == {pubBuf[p] : p \in Publishers}
           new == Bufs \ (pool \cup Referenced)
<1>0. Cardinality(Streams) \in Nat /\ Cardinality(Publishers) \in Nat
  BY Bounds, FS_CardinalityType, Zenon
<1>1. Referenced \subseteq A \cup {NoBuf} \cup B \cup C
  BY Zenon DEF Referenced, Range
<1>2. /\ IsFiniteSet(A) /\ Cardinality(A) <= Cardinality(Streams) - 1
      /\ Cardinality(Streams) - 1 \in Nat
  <2>1. IsFiniteSet(Streams \ {s}) /\ Cardinality(Streams \ {s}) = Cardinality(Streams) - 1
    BY Bounds, FS_RemoveElement, Zenon
  <2>2. Cardinality(Streams \ {s}) \in Nat
    BY <2>1, FS_CardinalityType, Zenon
  <2>3. Streams \ {s} \subseteq DOMAIN buf
    BY Zenon DEF TypeOK
  <2> QED
    BY <2>1, <2>2, <2>3, ImageBound, Zenon
<1>3. IsFiniteSet(B) /\ Cardinality(B) <= BufferSize
  <2>1. DOMAIN in = 1 .. Len(in) /\ Len(in) \in Nat /\ Len(in) <= BufferSize
    BY DEF TypeOK
  <2>2. IsFiniteSet(1 .. Len(in)) /\ Cardinality(1 .. Len(in)) = Len(in)
    BY <2>1, Counted, Zenon
  <2>3. DOMAIN in \subseteq DOMAIN inBuf
    BY Zenon
  <2>4. IsFiniteSet(B) /\ Cardinality(B) <= Cardinality(DOMAIN in)
    <3> HIDE DEF inBuf
    <3> QED
      BY <2>1, <2>2, <2>3, ImageBound, Zenon
  <2>5. Cardinality(B) \in Nat
    BY <2>4, FS_CardinalityType, Zenon
  <2> HIDE DEF B
  <2> QED
    BY <2>1, <2>2, <2>4, <2>5, Bounds
<1>4. IsFiniteSet(C) /\ Cardinality(C) <= Cardinality(Publishers)
  <2>1. Publishers \subseteq DOMAIN pubBuf
    BY Zenon
  <2> HIDE DEF pubBuf
  <2> QED
    BY <2>1, Bounds, ImageBound, Zenon
<1>5. IsFiniteSet(Bufs) /\ Cardinality(Bufs) = MaxBufs
  BY Bounds, Counted, Zenon DEF Bufs
<1> HIDE DEF A, B, C
<1>6. /\ IsFiniteSet(A \cup B)
      /\ Cardinality(A \cup B) <= (Cardinality(Streams) - 1) + BufferSize
  BY <1>2, <1>3, Bounds, UnionBound, Zenon
<1>7. /\ IsFiniteSet((A \cup B) \cup C)
      /\ Cardinality((A \cup B) \cup C)
           <= ((Cardinality(Streams) - 1) + BufferSize) + Cardinality(Publishers)
  <2>1. (Cardinality(Streams) - 1) + BufferSize \in Nat
    BY <1>2, Bounds
  <2> QED
    BY <1>0, <1>4, <1>6, <2>1, UnionBound, Zenon
<1>8. pool = {} => new # {}
  <2> SUFFICES ASSUME pool = {}, new = {} PROVE FALSE
    BY Zenon
  <2>1. Bufs \subseteq (A \cup B) \cup C
    BY <1>1 DEF Bufs, NoBuf
  <2>2. Cardinality(Bufs) <= Cardinality((A \cup B) \cup C)
    BY <1>7, <2>1, FS_Subset, Zenon
  <2>3. Cardinality((A \cup B) \cup C) \in Nat
    BY <1>7, FS_CardinalityType, Zenon
  <2> QED
    BY <1>0, <1>5, <1>7, <2>2, <2>3, Bounds
<1>9. Get \in (IF pool # {} THEN pool ELSE new)
  BY <1>8, Zenon DEF Get
<1> QED
  BY <1>9, Zenon DEF Buffers, TypeOK

-----------------------------------------------------------------------------
(* The results.                                                            *)

\* IInv holds of every reachable state of the ingest service.
LEMMA Invariance == Spec => []IInv
<1>1. Init => IInv
  BY InitKeeps, Zenon
<1>2. IInv /\ Next => IInv'
  BY GetIsFree, TypeNext, PositionsNext, HandsNext, BuffersNext, OneJobNext, LedgerNext,
     AwaitedNext, StoppingNext, IntactNext, Zenon DEF IInv
<1>3. IInv /\ UNCHANGED vars => IInv'
  <2> SUFFICES ASSUME IInv, UNCHANGED vars PROVE IInv'
    BY Zenon
  <2>1. UNCHANGED <<hpc, read, code, reply, gone, buf, answers, in, ppc, draining, job, pool,
                    content, stored, late, tailed, phase, timedOut>>
    BY Zenon DEF vars, handlerVars, pubVars, brokerVars, serverVars
  <2>2. Outstanding' = Outstanding /\ Referenced' = Referenced
    BY <2>1, Zenon DEF Outstanding, Referenced, Range
  <2>3. \A b \in Batches : Verdict(b)' = Verdict(b)
    BY <2>1, Zenon DEF Verdict
  <2>4. (TypeOK /\ Positions /\ Hands)'
    <3>1. TypeOK'
      BY <2>1, Zenon DEF IInv, TypeOK
    <3>2. Positions' /\ Hands'
      BY <2>1 DEF IInv, Positions, Hands
    <3> QED
      BY <3>1, <3>2, Zenon
  <2>5. Buffers' /\ Awaited'
    BY <2>1, <2>2 DEF IInv, Buffers, Awaited, Current
  <2>6. OneJobEach' /\ PayloadIntact'
    BY <2>1 DEF IInv, OneJobEach, PayloadIntact
  <2>7. Ledger'
    BY <2>1, <2>2, <2>3, LedgerSame DEF IInv
  <2>8. Stopping'
    BY <2>1, Zenon DEF IInv, Stopping, HandlersGone
  <2> QED
    BY <2>4, <2>5, <2>6, <2>7, <2>8 DEF IInv
<1> QED
  BY <1>1, <1>2, <1>3, PTL DEF Spec

\* process puts a payload buffer back only when nobody can read it any more: a
\* batch is published, and shown to the tail, with its own payload, whatever
\* streams hang up and publishes time out.
THEOREM PayloadsIntact == Spec => []PayloadIntact
<1>1. IInv => PayloadIntact
  BY Zenon DEF IInv
<1> QED
  BY <1>1, Invariance, PTL

\* Server.Shutdown's order: no handler waits for publishers that have exited,
\* and when Shutdown returns in time every job has been published.
THEOREM OrderlyShutdown == Spec => []ShutdownOrdered
<1>1. IInv => NoOrphanWait
  <2> SUFFICES ASSUME IInv, NEW s \in Streams, hpc[s] = "wait", reply[s] = "empty"
               PROVE  \/ \E p \in Publishers : job[p].batch = Current(s)
                      \/ /\ \E j \in Range(in) : j.batch = Current(s)
                         /\ \E p \in Publishers : ppc[p] # "exited"
    BY Zenon DEF NoOrphanWait
  <2>1. Current(s) \in Outstanding
    BY Zenon DEF IInv, Awaited
  <2>2. CASE \E k \in DOMAIN in : in[k].batch = Current(s)
    <3>1. \E j \in Range(in) : j.batch = Current(s)
      BY <2>2, Zenon DEF Range
    <3>2. in # <<>>
      BY <2>2 DEF IInv, TypeOK
    <3>3. \E p \in Publishers : ppc[p] # "exited"
      BY <3>2, Bounds, Zenon DEF IInv, Stopping
    <3> QED
      BY <3>1, <3>3, Zenon
  <2> QED
    BY <2>1, <2>2, OutstandingIs, Zenon
<1>2. IInv => CleanShutdown
  <2> SUFFICES ASSUME IInv, phase = "closed", ~timedOut
               PROVE  in = <<>> /\ \A p \in Publishers : job[p] = NoJob
    BY Zenon DEF CleanShutdown
  <2>1. \A p \in Publishers : ppc[p] = "exited"
    BY Zenon DEF IInv, Stopping
  <2>2. in = <<>>
    BY <2>1, Bounds, Zenon DEF IInv, Stopping
  <2>3. \A p \in Publishers : job[p] = NoJob
    BY <2>1, Zenon DEF IInv, Hands, TypeOK
  <2> QED
    BY <2>2, <2>3, Zenon
<1>3. IInv => ShutdownOrdered
  BY <1>1, <1>2, Zenon DEF IInv, ShutdownOrdered
<1> QED
  BY <1>3, Invariance, PTL

\* What may still be stored is what the agent has no answer for, or was told
\* that the collector does not know.
LEMMA Storable ==
  ASSUME TypeOK, NEW c \in Batches,
         Verdict(c) \in {"empty", "unavailable", "INTERNAL", "done"}
  PROVE  /\ c[1] \in Streams /\ c[2] \in 1 .. Len(answers[c[1]]) + 1 /\ c = <<c[1], c[2]>>
         /\ \/ c[2] = Len(answers[c[1]]) + 1
            \/ c[2] \in DOMAIN answers[c[1]] /\ answers[c[1]][c[2]] = "INTERNAL"
<1>1. PICK s \in Streams, n \in Nat : c = <<s, n>> /\ 1 <= n
  BY BatchIs, Zenon
<1>2. /\ answers[s] \in Seq(Codes) /\ read[s] \in Nat /\ read[s] - Len(answers[s]) \in {0, 1}
  BY Zenon DEF TypeOK
<1>3. Verdict(c) = IF n <= Len(answers[s]) THEN answers[s][n]
                   ELSE IF n # read[s] THEN "unread"
                   ELSE IF hpc[s] = "send" THEN code[s]
                   ELSE IF hpc[s] = "wait" THEN reply[s]
                   ELSE hpc[s]
  BY <1>1, Zenon DEF Verdict
<1>4. CASE n <= Len(answers[s])
  <2>1. n \in DOMAIN answers[s] /\ answers[s][n] \in Codes
    BY <1>1, <1>2, <1>4
  <2>2. answers[s][n] = "INTERNAL"
    BY <1>3, <1>4, <2>1, Zenon DEF Codes
  <2> QED
    BY <1>1, <1>2, <1>4, <2>1, <2>2
<1>5. CASE ~(n <= Len(answers[s]))
  <2>1. n = read[s]
    BY <1>3, <1>5, Zenon
  <2>2. n = Len(answers[s]) + 1
    BY <1>2, <1>5, <2>1
  <2> QED
    BY <1>1, <1>2, <2>2
<1> QED
  BY <1>4, <1>5, Zenon

\* A step that adds one batch to those stored, and answers nothing, is a Store
\* of the contract.
LEMMA StoreIs ==
  ASSUME TypeOK, NEW c \in Batches, UNCHANGED answers,
         Verdict(c) \in {"empty", "unavailable", "INTERNAL", "done"},
         stored' = stored \cup {<<c, c>>}
  PROVE  Contract!Next
<1> DEFINE D == {b \in Batches : <<b, b>> \in stored}
<1>1. {b \in Batches : <<b, b>> \in stored'} = D \cup {c}
  BY Zenon
<1>2. PICK s \in Streams : \E n \in 1 .. Len(answers[s]) + 1 :
        /\ c = <<s, n>>
        /\ \/ n = Len(answers[s]) + 1
           \/ n \in DOMAIN answers[s] /\ answers[s][n] = "INTERNAL"
  BY Storable, Zenon
<1>3. PICK n \in 1 .. Len(answers[s]) + 1 :
        /\ c = <<s, n>>
        /\ \/ n = Len(answers[s]) + 1
           \/ n \in DOMAIN answers[s] /\ answers[s][n] = "INTERNAL"
  BY <1>2, Zenon
<1>4. Contract!Store(s, n)
  BY <1>1, <1>3, Zenon DEF Contract!Store
<1> QED
  BY <1>4, Zenon DEF Contract!Next

\* The answers of the collector are those of AckStream: in the order of the
\* batches, ACCEPTED only for a batch the queue holds, INVALID or OVERLOADED
\* only for one it does not hold and never will.
THEOREM KeepsContract == Spec => AckContract
<1>1. Init => Contract!Init
  <2> SUFFICES ASSUME Init PROVE Contract!Init
    BY Zenon
  <2>1. {b \in Batches : <<b, b>> \in stored} = {}
    BY Zenon DEF Init
  <2> QED
    BY <2>1, Zenon DEF Init, Contract!Init
<1>2. ASSUME UNCHANGED <<answers, stored>>
      PROVE  UNCHANGED Contract!vars
  BY <1>2, Zenon DEF Contract!vars
<1>3. IInv /\ Next => Contract!Next \/ UNCHANGED Contract!vars
  <2> SUFFICES ASSUME IInv, Next PROVE Contract!Next \/ UNCHANGED Contract!vars
    BY Zenon
  <2>0. TypeOK /\ Positions /\ Hands /\ Buffers /\ OneJobEach /\ Ledger /\ PayloadIntact
    BY Zenon DEF IInv
  <2>1. ASSUME NEW s \in Streams, Send(s)
        PROVE  Contract!Next \/ UNCHANGED Contract!vars
    <3>1. CASE gone[s]
      BY <1>2, <2>1, <3>1, Zenon DEF Send, brokerVars
    <3>2. CASE ~gone[s]
      <4>1. /\ hpc[s] = "send" /\ answers' = [answers EXCEPT ![s] = Append(@, code[s])]
            /\ stored' = stored
        BY <2>1, <3>2, Zenon DEF Send, brokerVars
      <4>2. code[s] \in Codes
        BY <2>0, <4>1, Zenon DEF TypeOK, Positions
      <4>3. PICK c \in Batches : c = Current(s)
        BY <2>0, <4>1, CurrentIs, Zenon
      <4>4. c = <<s, Len(answers[s]) + 1>> /\ Verdict(c) = code[s]
        BY <2>0, <4>1, <4>3, CurrentIs, VerdictOfCurrent DEF Current
      <4>5. /\ <<c, c>> \in stored =>
                 Verdict(c) \in {"ok", "unavailable", "ACCEPTED", "INTERNAL", "done"}
            /\ Verdict(c) \in {"ok", "ACCEPTED"} => <<c, c>> \in stored
        BY <2>0, Zenon DEF Ledger
      <4>6. \/ code[s] = "ACCEPTED" /\ <<c, c>> \in stored
            \/ code[s] \in {"OVERLOADED", "INVALID"} /\ <<c, c>> \notin stored
            \/ code[s] = "INTERNAL"
        BY <4>2, <4>4, <4>5, Zenon DEF Codes
      <4> DEFINE d == {b \in Batches : <<b, b>> \in stored}
      <4>7. <<s, Len(answers[s]) + 1>> \in d <=> <<c, c>> \in stored
        BY <4>4, Zenon
      <4>8. Contract!Answer(s, code[s])
        BY <4>1, <4>6, <4>7, Zenon DEF Contract!Answer
      <4> QED
        BY <4>2, <4>8, Zenon DEF Contract!Next, Codes
    <3> QED
      BY <3>1, <3>2, Zenon
  <2>2. ASSUME NEW p \in Publishers, Publish(p)
        PROVE  Contract!Next \/ UNCHANGED Contract!vars
    <3>1. PICK c \in Batches : c = job[p].batch
      <4>1. job[p].batch \in Batches
        BY <2>0, <2>2, Zenon DEF Publish, Hands, Jobs
      <4> QED
        BY <4>1, Zenon
    <3>2. content[job[p].buf] = c
      BY <2>0, <2>2, <3>1, Zenon DEF Publish, Buffers
    <3>3. PICK o \in Outcomes(job[p]) : stored' = stored \cup o.stored
      BY <2>2, Zenon DEF Publish
    <3>4. stored' = stored \/ stored' = stored \cup {<<c, c>>}
      BY <3>1, <3>2, <3>3, OutcomeIs DEF Results
    <3>5. UNCHANGED answers
      BY <2>2, Zenon DEF Publish
    <3>6. c \in Outstanding
      BY <2>0, <2>2, <3>1, PublishEnds, Zenon
    <3>7. Verdict(c) \in {"empty", "INTERNAL", "done"}
      BY <2>0, <3>6, Zenon DEF Ledger
    <3> QED
      BY <1>2, <2>0, <3>4, <3>5, <3>7, StoreIs
  <2>3. ASSUME NEW m \in late, LateStore(m)
        PROVE  Contract!Next
    <3>1. UNCHANGED answers /\ stored' = stored \cup {m}
      BY <2>3, Zenon DEF LateStore, handlerVars
    <3>2. PICK c \in Batches : m = <<c, c>>
      BY <2>0 DEF TypeOK, PayloadIntact
    <3>3. Verdict(c) \in {"unavailable", "INTERNAL", "done"}
      BY <2>0, <3>2, Zenon DEF Ledger
    <3> QED
      BY <2>0, <3>1, <3>2, <3>3, StoreIs
  <2>4. ASSUME NEW s \in Streams,
               \/ OpenStream(s) \/ HangUp(s) \/ RecvEnds(s) \/ Receive(s)
               \/ \E kind \in Kinds : Reject(s, kind)
               \/ Submit(s) \/ Reply(s)
        PROVE  UNCHANGED <<answers, stored>>
    BY <2>4, Zenon DEF OpenStream, HangUp, RecvEnds, Receive, Reject, Submit, Enqueue, Shed,
       Reply, Accepted, Failed, handlerVars, brokerVars
  <2>5. ASSUME NEW p \in Publishers, Take(p) \/ Quit(p) \/ Drained(p)
        PROVE  UNCHANGED <<answers, stored>>
    BY <2>5, Zenon DEF Take, Quit, Drained, handlerVars, brokerVars
  <2>6. ASSUME ShutdownBegins \/ Stop
        PROVE  UNCHANGED <<answers, stored>>
    BY <2>6, Zenon DEF ShutdownBegins, Stop, ClosePipeline, DeadlinePasses, CloseReturns,
       handlerVars, brokerVars
  <2> QED
    BY <1>2, <2>1, <2>2, <2>3, <2>4, <2>5, <2>6, Zenon DEF Next, PublisherStep
<1>4. UNCHANGED vars => UNCHANGED Contract!vars
  BY <1>2, Zenon DEF vars, handlerVars, brokerVars
<1> QED
  BY <1>1, <1>3, <1>4, Invariance, PTL DEF Spec, AckContract, Contract!Spec

=============================================================================
