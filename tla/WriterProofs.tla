---------------------------- MODULE WriterProofs ----------------------------
(***************************************************************************)
(* Proofs about module Writer, for every set of messages, workers and      *)
(* records and every size of channel, batch and cache: IInv is inductive,  *)
(* and the safety properties of the collector's write path follow from it. *)
(* Each part of IInv has a lemma with one step per action, or per group of *)
(* actions that leave what the part speaks of alone.                       *)
(***************************************************************************)
EXTENDS Writer, TLAPS

\* Time for the solver where the machine is slow; the leaves take a second or two.
USE SMTT(30)

\* What the proofs use of the assumptions on the constants.
LEMMA Bounds ==
  /\ MaxAttempts \in Nat /\ MaxAttempts >= 1
  /\ MaxDeliveries \in Nat /\ MaxFaults \in Nat /\ MaxRestarts \in Nat
  /\ Poison \subseteq Messages /\ Workers # {}
  BY WriterAssumption

\* The delivery being handled is a delivery not yet terminated (Places).
LEMMA Handled ==
  ASSUME TypeOK, Places, hpc # "idle"
  PROVE  /\ hd \in Deliveries /\ hd[1] \in Messages
         /\ calls[hd] = 0 /\ hd[2] <= deliveries[hd[1]]
  BY Zenon DEF TypeOK, Places, Waiting, Deliveries

\* What a process holds in memory are deliveries.
LEMMA InMemoryDeliveries ==
  ASSUME TypeOK
  PROVE  InMemory \subseteq Deliveries
<1>1. UNION {batch[w] : w \in Workers} \subseteq Deliveries
  BY DEF TypeOK
<1>2. (IF hpc = "idle" THEN {} ELSE {hd}) \subseteq Deliveries
  BY Zenon DEF TypeOK
<1> QED
  BY DEF TypeOK, InMemory

\* The next delivery of a message is nowhere in memory and not terminated.
LEMMA NewDelivery ==
  ASSUME TypeOK, Places, NEW m \in Messages, deliveries[m] < MaxDeliveries
  PROVE  /\ <<m, deliveries[m] + 1>> \in Deliveries
         /\ calls[<<m, deliveries[m] + 1>>] = 0
         /\ <<m, deliveries[m] + 1>> \notin in
         /\ \A w \in Workers : <<m, deliveries[m] + 1>> \notin batch[w]
<1> DEFINE d == <<m, deliveries[m] + 1>>
<1>1. d \in Deliveries /\ deliveries[m] \in Nat
  BY Bounds DEF TypeOK, Deliveries
<1>2. ~(d[2] <= deliveries[d[1]])
  BY <1>1
<1>3. calls[d] = 0
  BY <1>1 DEF TypeOK, Places
<1>4. d \notin in /\ \A w \in Workers : d \notin batch[w]
  BY <1>2, Zenon DEF Places, Waiting
<1> QED
  BY <1>1, <1>3, <1>4, Zenon

-----------------------------------------------------------------------------
(* Types.                                                                  *)

\* A collector that has just started is well typed (NewWriter, Start).
LEMMA TypeInit == Init => TypeOK
<1> SUFFICES ASSUME Init PROVE TypeOK
  OBVIOUS
<1>1. queue \subseteq Messages /\ deliveries \in [Messages -> 0 .. MaxDeliveries]
  BY Bounds DEF Init
<1>2. /\ streamRows \subseteq Streams /\ rows \subseteq Records /\ aged \subseteq MayAge
      /\ hpc = "idle" /\ hd = NoDelivery
      /\ in \subseteq Deliveries /\ kept \in [Deliveries -> SUBSET Records]
      /\ cache \subseteq Streams
  BY Zenon DEF Init
<1>3. pc \in [Workers -> Steps] /\ mode \in [Workers -> {"run", "drain", "last"}]
  BY Zenon DEF Steps, Init
<1>4. /\ batch \in [Workers -> SUBSET Deliveries]
      /\ streams \in [Workers -> SUBSET Streams]
      /\ attempt \in [Workers -> 1 .. MaxAttempts]
      /\ outcome \in [Workers -> {"ok", "failed"}]
  BY Bounds DEF Init
<1>5. phase \in Phases /\ ctxDone \in BOOLEAN
  BY Zenon DEF Phases, Init
<1>6. /\ calls \in [Deliveries -> Nat]
      /\ forgotten \subseteq Deliveries /\ abandoned \subseteq Deliveries
      /\ timedOut \subseteq {"stop", "close"}
      /\ faults \in 0 .. MaxFaults /\ restarts \in Nat
  BY Bounds DEF Init
<1> QED
  BY <1>1, <1>2, <1>3, <1>4, <1>5, <1>6, Zenon DEF TypeOK

\* Every action preserves the types.
LEMMA TypeNext == TypeOK /\ [Next]_vars => TypeOK'
<1> SUFFICES ASSUME TypeOK, [Next]_vars PROVE TypeOK'
  OBVIOUS
<1>1. ASSUME NEW m \in Messages, Deliver(m)
      PROVE  TypeOK'
  BY <1>1, Bounds DEF Deliver, Call, AckOrTerm, Unlucky, Deliveries, TypeOK, worker,
      process
<1>2. ASSUME SubmitCheck
      PROVE  TypeOK'
<2>1. hd \in Deliveries /\ hpc = "submit"
  BY <1>2, Zenon DEF SubmitCheck, TypeOK
<2>2. /\ queue' \subseteq Messages /\ calls' \in [Deliveries -> Nat]
      /\ faults' \in 0 .. MaxFaults
  BY <1>2, <2>1, Bounds DEF SubmitCheck, Call, Nak, AckOrTerm, TypeOK
<2>3. kept' \in [Deliveries -> SUBSET Records]
  BY <1>2, <2>1 DEF SubmitCheck, Records, Deliveries, TypeOK
<2>4. \/ hpc' = "idle" /\ hd' = NoDelivery
      \/ hpc' \in {"submit", "select", "blocked"} /\ hd' \in Deliveries
  BY <1>2, <2>1, Zenon DEF SubmitCheck, HandlerDone
<2> QED
  BY <1>2, <2>2, <2>3, <2>4, Zenon DEF SubmitCheck, TypeOK, worker, process
<1>3. ASSUME SubmitSends
      PROVE  TypeOK'
  BY <1>3, Zenon DEF SubmitSends, HandlerDone, TypeOK, external, worker, process
<1>4. ASSUME SubmitBlocks
      PROVE  TypeOK'
  BY <1>4, Zenon DEF SubmitBlocks, TypeOK, external, worker, process
<1>5. ASSUME SubmitRefused
      PROVE  TypeOK'
  BY <1>5 DEF SubmitRefused, HandlerDone, Nak, Call, TypeOK, worker, process
<1>6. ASSUME NEW w \in Workers, WorkerTake(w)
      PROVE  TypeOK'
  BY <1>6 DEF WorkerTake, PendingStreams, Streams, Deliveries, Steps, TypeOK, external,
      process
<1>7. ASSUME NEW w \in Workers, WorkerTimer(w) \/ WorkerDrains(w) \/ WorkerLast(w)
      PROVE  TypeOK'
  BY <1>7, Zenon DEF WorkerTimer, Steps, WorkerDrains, WorkerLast, TypeOK, external,
      process
<1>8. ASSUME NEW w \in Workers, CommitStreams(w)
      PROVE  TypeOK'
  BY <1>8, Zenon DEF CommitStreams, MarkUpserted, Steps, TypeOK, process
<1>9. ASSUME NEW w \in Workers, StreamsFail(w)
      PROVE  TypeOK'
  BY <1>9, Bounds DEF StreamsFail, AttemptFails, Steps, TypeOK, process
<1>10. ASSUME NEW w \in Workers, CopyDirect(w) \/ CopyViaStaging(w)
      PROVE  TypeOK'
  BY <1>10 DEF CopyDirect, Insert, RecordsIn, Steps, CopyViaStaging, TypeOK, process
<1>11. ASSUME NEW w \in Workers, CopyFails(w)
      PROVE  TypeOK'
  BY <1>11, Bounds DEF CopyFails, AttemptFails, RecordsIn, Steps, TypeOK, process
<1>12. ASSUME NEW w \in Workers, AckNext(w)
      PROVE  TypeOK'
  BY <1>12, Bounds DEF AckNext, Finish, AckOrTerm, Nak, Call, Steps, TypeOK, process
<1>13. ASSUME Signal \/ StopBegins \/ SubStop \/ StopReturns \/ CloseBegins
      PROVE  TypeOK'
  BY <1>13, Zenon DEF Signal, StopBegins, Advance, Phases, SubStop, StopReturns,
      CloseBegins, TypeOK, external, worker
<1>14. ASSUME CloseReturns
      PROVE  TypeOK'
<2>1. phase' \in Phases /\ timedOut' \subseteq {"stop", "close"}
  BY <1>14, Zenon DEF Phases, TypeOK, CloseReturns, Advance
<2>2. calls' \in [Deliveries -> Nat]
  BY <1>14 DEF Call, TypeOK, CloseReturns
<2>3. in' \subseteq Deliveries /\ abandoned' \subseteq Deliveries
  BY <1>14, Zenon DEF TypeOK, CloseReturns
<2> QED
  BY <2>1, <2>2, <1>14, Zenon DEF TypeOK, external, worker, CloseReturns, Advance
<1>15. ASSUME Exit
      PROVE  TypeOK'
<2>1. /\ pc' \in [Workers -> Steps] /\ mode' \in [Workers -> {"run", "drain", "last"}]
      /\ batch' \in [Workers -> SUBSET Deliveries]
      /\ streams' \in [Workers -> SUBSET Streams]
      /\ attempt' \in [Workers -> 1 .. MaxAttempts]
      /\ outcome' \in [Workers -> {"ok", "failed"}]
  BY Bounds, <1>15 DEF Steps, Exit
<2>2. forgotten' \subseteq Deliveries
  BY InMemoryDeliveries, <1>15, Zenon DEF TypeOK, Exit
<2>3. phase' \in Phases /\ ctxDone' \in BOOLEAN
  BY <1>15, Zenon DEF Phases, Exit
<2> QED
  BY <2>1, <2>2, <2>3, <1>15, Zenon DEF TypeOK, external, Exit, HandlerDone
<1>16. ASSUME Restart
      PROVE  TypeOK'
  BY <1>16 DEF Restart, Phases, TypeOK, external, worker
<1>17. ASSUME NEW r \in MayAge, Age(r)
      PROVE  TypeOK'
  BY <1>17, Zenon DEF Age, TypeOK, worker, process
<1>18. CASE UNCHANGED vars
  BY <1>18, Zenon DEF vars, TypeOK, external, worker, process
<1> QED
  BY <1>1, <1>2, <1>3, <1>4, <1>5, <1>6, <1>7, <1>8, <1>9, <1>10, <1>11, <1>12, <1>13,
      <1>14, <1>15, <1>16, <1>17, <1>18, Zenon DEF Next, SubmitStep, WorkerStep,
      ShutdownStep

-----------------------------------------------------------------------------
(* Each delivery is in one place.                                          *)

\* No action leaves a delivery in two places, or in memory once terminated.
LEMMA PlacesNext == IInv /\ [Next]_vars => Places'
<1> SUFFICES ASSUME IInv, [Next]_vars PROVE Places'
  OBVIOUS
<1>1. ASSUME NEW m \in Messages, Deliver(m)
      PROVE  Places'
<2> DEFINE d == <<m, deliveries[m] + 1>>
<2>1. /\ d \in Deliveries /\ calls[d] = 0
      /\ d \notin in /\ \A w \in Workers : d \notin batch[w]
  BY NewDelivery, <1>1, Zenon DEF IInv, Deliver
<2>2. \A e \in Deliveries : e # d => calls'[e] = calls[e]
  BY <1>1, Zenon DEF Call, AckOrTerm, Deliver
<2>3. \A e \in Deliveries : e[2] <= deliveries[e[1]] => e[2] <= deliveries'[e[1]]
  BY <1>1 DEF Deliveries, IInv, TypeOK, Deliver
<2>4. d[2] <= deliveries'[d[1]]
  BY <1>1 DEF IInv, TypeOK, Deliver
<2>5. hpc' # "idle" => hd' = d /\ calls'[d] = 0
  BY <2>1, <1>1, Zenon DEF Deliver
<2>6. \A e \in in : Waiting(e)'
  BY <2>2, <2>3 DEF IInv, TypeOK, Places, Waiting
<2>7. \A w \in Workers : \A e \in batch[w] : Waiting(e)'
  BY <2>2, <2>3 DEF IInv, TypeOK, Places, Waiting
<2>8. \A e \in Deliveries : calls'[e] > 0 => e[2] <= deliveries'[e[1]]
  BY <2>2, <2>3, <2>4, Zenon DEF IInv, Places
<2> QED
  BY <2>1, <2>4, <2>6, <2>7, <2>8, <1>1, Zenon DEF IInv, Places, Waiting, worker,
      Deliver
<1>2. ASSUME SubmitCheck
      PROVE  Places'
  BY <1>2 DEF SubmitCheck, Call, Nak, AckOrTerm, HandlerDone, IInv, TypeOK, Places,
      Waiting, worker
<1>3. ASSUME SubmitSends
      PROVE  Places'
  BY <1>3, Zenon DEF SubmitSends, HandlerDone, IInv, Places, Waiting, external, worker
<1>4. ASSUME SubmitBlocks
      PROVE  Places'
  BY <1>4, Zenon DEF SubmitBlocks, IInv, Places, Waiting, external, worker
<1>5. ASSUME SubmitRefused
      PROVE  Places'
  BY <1>5, Zenon DEF SubmitRefused, HandlerDone, Nak, Call, IInv, TypeOK, Places,
      Waiting, worker
<1>6. ASSUME NEW w \in Workers, WorkerTake(w)
      PROVE  Places'
  BY <1>6 DEF WorkerTake, IInv, Places, Waiting, external
<1>7. ASSUME NEW w \in Workers, WorkerTimer(w) \/ WorkerDrains(w) \/ WorkerLast(w)
      PROVE  Places'
  BY <1>7, Zenon DEF WorkerTimer, WorkerDrains, WorkerLast, IInv, Places, Waiting,
      external
<1>8. ASSUME NEW w \in Workers, CommitStreams(w)
      PROVE  Places'
  BY <1>8, Zenon DEF CommitStreams, IInv, Places, Waiting
<1>9. ASSUME NEW w \in Workers, StreamsFail(w)
      PROVE  Places'
  BY <1>9, Zenon DEF StreamsFail, IInv, Places, Waiting
<1>10. ASSUME NEW w \in Workers, CopyDirect(w) \/ CopyViaStaging(w)
      PROVE  Places'
  BY <1>10, Zenon DEF CopyDirect, CopyViaStaging, IInv, Places, Waiting
<1>11. ASSUME NEW w \in Workers, CopyFails(w)
      PROVE  Places'
  BY <1>11, Zenon DEF CopyFails, IInv, Places, Waiting
<1>12. ASSUME NEW w \in Workers, AckNext(w)
      PROVE  Places'
<2>1. PICK d \in batch[w] : /\ Finish(d, outcome[w])
                            /\ batch' = [batch EXCEPT ![w] = @ \ {d}]
  BY <1>12, Zenon DEF AckNext
<2>2. \A e \in Deliveries : e # d => calls'[e] = calls[e]
  BY <2>1, Zenon DEF Finish, AckOrTerm, Nak, Call
<2>3. \A v \in Workers : batch'[v] \subseteq batch[v] /\ d \notin batch'[v]
  BY <2>1, Zenon DEF IInv, TypeOK, Places
<2>4. d \notin in /\ (hpc # "idle" => hd # d)
  BY Zenon DEF IInv, Places
<2>5. d[2] <= deliveries[d[1]]
  BY Zenon DEF IInv, Places, Waiting
<2>6. \A e \in Deliveries : calls'[e] > 0 => e[2] <= deliveries'[e[1]]
  BY <2>2, <2>5, <1>12, Zenon DEF IInv, Places, AckNext
<2>7. /\ \A e \in in : Waiting(e)'
      /\ \A v \in Workers : \A e \in batch'[v] : Waiting(e)'
      /\ hpc # "idle" => Waiting(hd)'
  BY <2>2, <2>3, <1>12 DEF IInv, TypeOK, Places, Waiting, AckNext
<2> QED
  BY <2>6, <2>7, <1>12 DEF IInv, Places, AckNext
<1>13. ASSUME Signal \/ StopBegins \/ SubStop \/ StopReturns \/ CloseBegins
      PROVE  Places'
  BY <1>13, Zenon DEF Signal, StopBegins, Advance, SubStop, StopReturns, CloseBegins,
      IInv, Places, Waiting, external, worker
<1>14. ASSUME CloseReturns
      PROVE  Places'
  BY <1>14 DEF CloseReturns, Advance, Call, IInv, TypeOK, Places, Waiting, external,
      worker
<1>15. ASSUME Exit
      PROVE  Places'
  BY <1>15, Zenon DEF Exit, HandlerDone, IInv, Places, external
<1>16. ASSUME Restart
      PROVE  Places'
  BY <1>16, Zenon DEF Restart, IInv, Places, Waiting, external, worker
<1>17. ASSUME NEW r \in MayAge, Age(r)
      PROVE  Places'
  BY <1>17, Zenon DEF Age, IInv, Places, Waiting, worker
<1>18. CASE UNCHANGED vars
  BY <1>18, Zenon DEF vars, IInv, Places, Waiting, external, worker
<1> QED
  BY <1>1, <1>2, <1>3, <1>4, <1>5, <1>6, <1>7, <1>8, <1>9, <1>10, <1>11, <1>12, <1>13,
      <1>14, <1>15, <1>16, <1>17, <1>18, Zenon DEF Next, SubmitStep, WorkerStep,
      ShutdownStep

\* Whoever terminates a delivery is the first to do so.
LEMMA OneTerminatorNext == IInv /\ [Next]_vars => OneTerminator'
<1> SUFFICES ASSUME IInv, [Next]_vars PROVE OneTerminator'
  OBVIOUS
<1>1. ASSUME NEW m \in Messages, Deliver(m)
      PROVE  OneTerminator'
<2>1. calls[<<m, deliveries[m] + 1>>] = 0
  BY <1>1, NewDelivery, Zenon DEF Deliver, IInv
<2> QED
  BY <1>1, <2>1 DEF Deliver, Call, AckOrTerm, IInv, OneTerminator
<1>2. ASSUME SubmitCheck
      PROVE  OneTerminator'
  BY <1>2 DEF SubmitCheck, Call, Nak, AckOrTerm, IInv, OneTerminator, Places, Waiting
<1>3. ASSUME SubmitSends
      PROVE  OneTerminator'
  BY <1>3, Zenon DEF SubmitSends, IInv, OneTerminator
<1>4. ASSUME SubmitBlocks
      PROVE  OneTerminator'
  BY <1>4, Zenon DEF SubmitBlocks, IInv, OneTerminator
<1>5. ASSUME SubmitRefused
      PROVE  OneTerminator'
  BY <1>5 DEF SubmitRefused, Nak, Call, IInv, OneTerminator, Places, Waiting
<1>6. ASSUME NEW w \in Workers, WorkerTake(w)
      PROVE  OneTerminator'
  BY <1>6, Zenon DEF WorkerTake, IInv, OneTerminator
<1>7. ASSUME NEW w \in Workers, WorkerTimer(w) \/ WorkerDrains(w) \/ WorkerLast(w)
      PROVE  OneTerminator'
  BY <1>7, Zenon DEF WorkerTimer, WorkerDrains, WorkerLast, IInv, OneTerminator
<1>8. ASSUME NEW w \in Workers, CommitStreams(w)
      PROVE  OneTerminator'
  BY <1>8, Zenon DEF CommitStreams, IInv, OneTerminator
<1>9. ASSUME NEW w \in Workers, StreamsFail(w)
      PROVE  OneTerminator'
  BY <1>9, Zenon DEF StreamsFail, IInv, OneTerminator
<1>10. ASSUME NEW w \in Workers, CopyDirect(w) \/ CopyViaStaging(w)
      PROVE  OneTerminator'
  BY <1>10, Zenon DEF CopyDirect, CopyViaStaging, IInv, OneTerminator
<1>11. ASSUME NEW w \in Workers, CopyFails(w)
      PROVE  OneTerminator'
  BY <1>11, Zenon DEF CopyFails, IInv, OneTerminator
<1>12. ASSUME NEW w \in Workers, AckNext(w)
      PROVE  OneTerminator'
  BY <1>12 DEF AckNext, Finish, AckOrTerm, Nak, Call, IInv, OneTerminator, Places,
      Waiting
<1>13. ASSUME Signal \/ StopBegins \/ SubStop \/ StopReturns \/ CloseBegins
      PROVE  OneTerminator'
  BY <1>13, Zenon DEF Signal, StopBegins, SubStop, StopReturns, CloseBegins, IInv,
      OneTerminator
<1>14. ASSUME CloseReturns
      PROVE  OneTerminator'
  BY <1>14 DEF CloseReturns, Call, IInv, OneTerminator, Places, Waiting
<1>15. ASSUME Exit
      PROVE  OneTerminator'
  BY <1>15, Zenon DEF Exit, IInv, OneTerminator
<1>16. ASSUME Restart
      PROVE  OneTerminator'
  BY <1>16, Zenon DEF Restart, IInv, OneTerminator
<1>17. ASSUME NEW r \in MayAge, Age(r)
      PROVE  OneTerminator'
  BY <1>17, Zenon DEF Age, IInv, OneTerminator
<1>18. CASE UNCHANGED vars
  BY <1>18, Zenon DEF vars, IInv, OneTerminator
<1> QED
  BY <1>1, <1>2, <1>3, <1>4, <1>5, <1>6, <1>7, <1>8, <1>9, <1>10, <1>11, <1>12, <1>13,
      <1>14, <1>15, <1>16, <1>17, <1>18, Zenon DEF Next, SubmitStep, WorkerStep,
      ShutdownStep

-----------------------------------------------------------------------------
(* Durability and the stream rows.                                         *)

\* A batch is acked as written only once it is.
LEMMA DurabilityNext == IInv /\ [Next]_vars => Durability'
<1> SUFFICES ASSUME IInv, [Next]_vars PROVE Durability'
  OBVIOUS
<1>1. ASSUME NEW m \in Messages, Deliver(m)
      PROVE  Durability'
  BY <1>1, Zenon DEF Deliver, IInv, Durability, Complete, worker
<1>2. ASSUME SubmitCheck
      PROVE  Durability'
<2>1. hd \in Deliveries /\ hd[1] \in Messages
  BY Handled, <1>2, Zenon DEF IInv, SubmitCheck
<2>2. \A d \in Deliveries : d # hd => kept'[d] = kept[d]
  BY <1>2, Zenon DEF IInv, TypeOK, SubmitCheck
<2>3. hd \notin in /\ \A w \in Workers : hd \notin batch[w]
  BY <1>2, Zenon DEF IInv, Places, SubmitCheck
<2>4. hpc' \in {"select", "blocked"} => hd' = hd /\ kept'[hd] = RecordsOf[hd[1]] \ aged
  BY <1>2, Zenon DEF HandlerDone, IInv, TypeOK, SubmitCheck
<2>5. \A d \in in : Complete(d)'
  BY <1>2 DEF IInv, TypeOK, Durability, Complete, SubmitCheck
<2>6. \A w \in Workers : \A d \in batch[w] : Complete(d)' /\ kept'[d] = kept[d]
  BY <2>3, <1>2 DEF IInv, TypeOK, Durability, Complete, SubmitCheck
<2> QED
  BY <2>4, <2>5, <2>6, <1>2, Zenon DEF IInv, Durability, Complete, worker, SubmitCheck
<1>3. ASSUME SubmitSends
      PROVE  Durability'
  BY <1>3, Zenon DEF SubmitSends, HandlerDone, IInv, Durability, Complete, external,
      worker
<1>4. ASSUME SubmitBlocks
      PROVE  Durability'
  BY <1>4, Zenon DEF SubmitBlocks, IInv, Durability, Complete, external, worker
<1>5. ASSUME SubmitRefused
      PROVE  Durability'
  BY <1>5, Zenon DEF SubmitRefused, HandlerDone, IInv, Durability, Complete, worker
<1>6. ASSUME NEW w \in Workers, WorkerTake(w)
      PROVE  Durability'
  BY <1>6 DEF WorkerTake, IInv, Durability, Complete, external
<1>7. ASSUME NEW w \in Workers, WorkerTimer(w) \/ WorkerDrains(w) \/ WorkerLast(w)
      PROVE  Durability'
  BY <1>7, Zenon DEF WorkerTimer, WorkerDrains, WorkerLast, IInv, TypeOK, Durability,
      Complete, external
<1>8. ASSUME NEW w \in Workers, CommitStreams(w)
      PROVE  Durability'
  BY <1>8 DEF CommitStreams, IInv, Durability, Complete
<1>9. ASSUME NEW w \in Workers, StreamsFail(w)
      PROVE  Durability'
<2>1. pc' = [pc EXCEPT ![w] = "streams"] \/ outcome' = [outcome EXCEPT ![w] = "failed"]
  BY <1>9, Zenon DEF StreamsFail, AttemptFails
<2>2. \A v \in Workers : v # w => pc'[v] = pc[v] /\ outcome'[v] = outcome[v]
  BY <1>9, Zenon DEF StreamsFail, AttemptFails, IInv, TypeOK
<2>3. ~(pc'[w] = "ack" /\ outcome'[w] = "ok")
  BY <2>1, Zenon DEF IInv, TypeOK
<2> QED
  BY <1>9, <2>2, <2>3, Zenon DEF StreamsFail, IInv, Durability, Complete
<1>10. ASSUME NEW w \in Workers, CopyDirect(w) \/ CopyViaStaging(w)
      PROVE  Durability'
<2>1. \/ pc' = [pc EXCEPT ![w] = "staging"] /\ UNCHANGED <<rows, outcome>>
      \/ Insert(w)
  BY <1>10, Zenon DEF CopyDirect, CopyViaStaging
<2>2. UNCHANGED <<hpc, hd, in, kept, batch, aged>>
  BY <1>10, Zenon DEF CopyDirect, CopyViaStaging
<2>3. \A v \in Workers : v # w => pc'[v] = pc[v] /\ outcome'[v] = outcome[v]
  BY <2>1, Zenon DEF Insert, IInv, TypeOK
<2>4. rows \subseteq rows'
  BY <2>1, Zenon DEF Insert
<2>5. pc'[w] = "ack" => \A d \in batch[w] : kept[d] \subseteq rows'
  BY <2>1 DEF Insert, RecordsIn, IInv, TypeOK
<2> QED
  BY <2>2, <2>3, <2>4, <2>5, Zenon DEF IInv, Durability, Complete
<1>11. ASSUME NEW w \in Workers, CopyFails(w)
      PROVE  Durability'
<2>1. pc' = [pc EXCEPT ![w] = "streams"] \/ outcome' = [outcome EXCEPT ![w] = "failed"]
  BY <1>11, Zenon DEF CopyFails, AttemptFails
<2>2. \A v \in Workers : v # w => pc'[v] = pc[v] /\ outcome'[v] = outcome[v]
  BY <1>11, Zenon DEF CopyFails, AttemptFails, IInv, TypeOK
<2>3. ~(pc'[w] = "ack" /\ outcome'[w] = "ok") /\ rows \subseteq rows'
  BY <1>11, <2>1, Zenon DEF CopyFails, IInv, TypeOK
<2> QED
  BY <1>11, <2>2, <2>3, Zenon DEF CopyFails, IInv, Durability, Complete
<1>12. ASSUME NEW w \in Workers, AckNext(w)
      PROVE  Durability'
  BY <1>12 DEF AckNext, IInv, TypeOK, Durability, Complete
<1>13. ASSUME Signal \/ StopBegins \/ SubStop \/ StopReturns \/ CloseBegins
      PROVE  Durability'
  BY <1>13, Zenon DEF Signal, StopBegins, Advance, SubStop, StopReturns, CloseBegins,
      IInv, Durability, Complete, external, worker
<1>14. ASSUME CloseReturns
      PROVE  Durability'
  BY <1>14, Zenon DEF CloseReturns, Advance, IInv, Durability, Complete, external,
      worker
<1>15. ASSUME Exit
      PROVE  Durability'
  BY <1>15, Zenon DEF Exit, HandlerDone, Durability
<1>16. ASSUME Restart
      PROVE  Durability'
  BY <1>16, Zenon DEF Restart, IInv, Durability, Complete, external, worker
<1>17. ASSUME NEW r \in MayAge, Age(r)
      PROVE  Durability'
  BY <1>17, Zenon DEF Age, IInv, Durability, Complete, worker
<1>18. CASE UNCHANGED vars
  BY <1>18, Zenon DEF vars, IInv, Durability, Complete, external, worker
<1> QED
  BY <1>1, <1>2, <1>3, <1>4, <1>5, <1>6, <1>7, <1>8, <1>9, <1>10, <1>11, <1>12, <1>13,
      <1>14, <1>15, <1>16, <1>17, <1>18, Zenon DEF Next, SubmitStep, WorkerStep,
      ShutdownStep

\* The cache and the batches never run ahead of table streams.
LEMMA StreamRowsNext == IInv /\ [Next]_vars => StreamRows'
<1> SUFFICES ASSUME IInv, [Next]_vars PROVE StreamRows'
  OBVIOUS
<1>1. ASSUME NEW m \in Messages, Deliver(m)
      PROVE  StreamRows'
  BY <1>1, Zenon DEF Deliver, IInv, StreamRows, worker
<1>2. ASSUME SubmitCheck
      PROVE  StreamRows'
  BY <1>2, Zenon DEF SubmitCheck, IInv, StreamRows, worker
<1>3. ASSUME SubmitSends
      PROVE  StreamRows'
  BY <1>3, Zenon DEF SubmitSends, IInv, StreamRows, external, worker
<1>4. ASSUME SubmitBlocks
      PROVE  StreamRows'
  BY <1>4, Zenon DEF SubmitBlocks, IInv, StreamRows, external, worker
<1>5. ASSUME SubmitRefused
      PROVE  StreamRows'
  BY <1>5, Zenon DEF SubmitRefused, IInv, StreamRows, worker
<1>6. ASSUME NEW w \in Workers, WorkerTake(w)
      PROVE  StreamRows'
<2>0. PICK d \in in :
        /\ batch' = [batch EXCEPT ![w] = @ \cup {d}]
        /\ \E pending \in PendingStreams(w, StreamOf[d[1]]) :
             streams' = [streams EXCEPT ![w] = pending]
  BY <1>6, Zenon DEF WorkerTake
<2>1. PICK pending \in PendingStreams(w, StreamOf[d[1]]) :
        streams' = [streams EXCEPT ![w] = pending]
  BY <2>0, Zenon
<2>2. StreamOf[d[1]] \in pending \cup streamRows /\ streams[w] \subseteq pending
  BY Zenon DEF PendingStreams, NeedsUpsert, IInv, StreamRows
<2>3. \A v \in Workers : \A e \in batch'[v] : StreamOf[e[1]] \in streams'[v] \cup streamRows
  BY <2>0, <2>1, <2>2, Zenon DEF IInv, TypeOK, StreamRows
<2>4. \A v \in Workers : pc'[v] \in {"records", "staging"} => streams'[v] = {}
  BY <1>6 DEF IInv, StreamRows, WorkerTake
<2> QED
  BY <2>3, <2>4, <1>6, Zenon DEF IInv, StreamRows, external, WorkerTake
<1>7. ASSUME NEW w \in Workers, WorkerTimer(w) \/ WorkerDrains(w) \/ WorkerLast(w)
      PROVE  StreamRows'
  BY <1>7, Zenon DEF WorkerTimer, WorkerDrains, WorkerLast, IInv, TypeOK, StreamRows,
      external
<1>8. ASSUME NEW w \in Workers, CommitStreams(w)
      PROVE  StreamRows'
  BY <1>8 DEF CommitStreams, MarkUpserted, IInv, TypeOK, StreamRows
<1>9. ASSUME NEW w \in Workers, StreamsFail(w)
      PROVE  StreamRows'
  BY <1>9, Zenon DEF StreamsFail, AttemptFails, IInv, TypeOK, StreamRows
<1>10. ASSUME NEW w \in Workers, CopyDirect(w) \/ CopyViaStaging(w)
      PROVE  StreamRows'
  BY <1>10, Zenon DEF CopyDirect, Insert, CopyViaStaging, IInv, TypeOK, StreamRows
<1>11. ASSUME NEW w \in Workers, CopyFails(w)
      PROVE  StreamRows'
  BY <1>11, Zenon DEF CopyFails, AttemptFails, IInv, TypeOK, StreamRows
<1>12. ASSUME NEW w \in Workers, AckNext(w)
      PROVE  StreamRows'
  BY <1>12 DEF AckNext, IInv, TypeOK, StreamRows
<1>13. ASSUME Signal \/ StopBegins \/ SubStop \/ StopReturns \/ CloseBegins
      PROVE  StreamRows'
  BY <1>13, Zenon DEF Signal, StopBegins, Advance, SubStop, StopReturns, CloseBegins,
      IInv, StreamRows, external, worker
<1>14. ASSUME CloseReturns
      PROVE  StreamRows'
  BY <1>14, Zenon DEF CloseReturns, Advance, IInv, StreamRows, external, worker
<1>15. ASSUME Exit
      PROVE  StreamRows'
  BY <1>15, Zenon DEF Exit, StreamRows
<1>16. ASSUME Restart
      PROVE  StreamRows'
  BY <1>16, Zenon DEF Restart, IInv, StreamRows, external, worker
<1>17. ASSUME NEW r \in MayAge, Age(r)
      PROVE  StreamRows'
  BY <1>17, Zenon DEF Age, IInv, StreamRows, worker
<1>18. CASE UNCHANGED vars
  BY <1>18, Zenon DEF vars, IInv, StreamRows, external, worker
<1> QED
  BY <1>1, <1>2, <1>3, <1>4, <1>5, <1>6, <1>7, <1>8, <1>9, <1>10, <1>11, <1>12, <1>13,
      <1>14, <1>15, <1>16, <1>17, <1>18, Zenon DEF Next, SubmitStep, WorkerStep,
      ShutdownStep

\* Only messages whose records are stored, too old or poison leave the queue.
LEMMA AckedIsDurableNext == IInv /\ [Next]_vars => AckedIsDurable'
<1> SUFFICES ASSUME IInv, [Next]_vars PROVE AckedIsDurable'
  OBVIOUS
<1>1. ASSUME NEW m \in Messages, Deliver(m)
      PROVE  AckedIsDurable'
  BY <1>1, Zenon DEF Deliver, AckOrTerm, IInv, AckedIsDurable
<1>2. ASSUME SubmitCheck
      PROVE  AckedIsDurable'
  BY <1>2, Zenon DEF SubmitCheck, Nak, AckOrTerm, IInv, AckedIsDurable
<1>3. ASSUME SubmitSends
      PROVE  AckedIsDurable'
  BY <1>3, Zenon DEF SubmitSends, IInv, AckedIsDurable, external
<1>4. ASSUME SubmitBlocks
      PROVE  AckedIsDurable'
  BY <1>4, Zenon DEF SubmitBlocks, IInv, AckedIsDurable, external
<1>5. ASSUME SubmitRefused
      PROVE  AckedIsDurable'
  BY <1>5, Zenon DEF SubmitRefused, Nak, IInv, AckedIsDurable
<1>6. ASSUME NEW w \in Workers, WorkerTake(w)
      PROVE  AckedIsDurable'
  BY <1>6, Zenon DEF WorkerTake, IInv, AckedIsDurable, external
<1>7. ASSUME NEW w \in Workers, WorkerTimer(w) \/ WorkerDrains(w) \/ WorkerLast(w)
      PROVE  AckedIsDurable'
  BY <1>7, Zenon DEF WorkerTimer, WorkerDrains, WorkerLast, IInv, AckedIsDurable,
      external
<1>8. ASSUME NEW w \in Workers, CommitStreams(w)
      PROVE  AckedIsDurable'
  BY <1>8, Zenon DEF CommitStreams, IInv, AckedIsDurable
<1>9. ASSUME NEW w \in Workers, StreamsFail(w)
      PROVE  AckedIsDurable'
  BY <1>9, Zenon DEF StreamsFail, IInv, AckedIsDurable
<1>10. ASSUME NEW w \in Workers, CopyDirect(w) \/ CopyViaStaging(w)
      PROVE  AckedIsDurable'
  BY <1>10, Zenon DEF CopyDirect, Insert, CopyViaStaging, IInv, AckedIsDurable
<1>11. ASSUME NEW w \in Workers, CopyFails(w)
      PROVE  AckedIsDurable'
  BY <1>11, Zenon DEF CopyFails, IInv, AckedIsDurable
<1>12. ASSUME NEW w \in Workers, AckNext(w)
      PROVE  AckedIsDurable'
  BY <1>12 DEF AckNext, Finish, AckOrTerm, Nak, IInv, AckedIsDurable, Durability,
      Complete
<1>13. ASSUME Signal \/ StopBegins \/ SubStop \/ StopReturns \/ CloseBegins
      PROVE  AckedIsDurable'
  BY <1>13, Zenon DEF Signal, StopBegins, Advance, SubStop, StopReturns, CloseBegins,
      IInv, AckedIsDurable, external
<1>14. ASSUME CloseReturns
      PROVE  AckedIsDurable'
  BY <1>14, Zenon DEF CloseReturns, Advance, IInv, AckedIsDurable, external
<1>15. ASSUME Exit
      PROVE  AckedIsDurable'
  BY <1>15, Zenon DEF Exit, IInv, AckedIsDurable, external
<1>16. ASSUME Restart
      PROVE  AckedIsDurable'
  BY <1>16, Zenon DEF Restart, IInv, AckedIsDurable, external
<1>17. ASSUME NEW r \in MayAge, Age(r)
      PROVE  AckedIsDurable'
  BY <1>17, Zenon DEF Age, IInv, AckedIsDurable
<1>18. CASE UNCHANGED vars
  BY <1>18, Zenon DEF vars, IInv, AckedIsDurable, external
<1> QED
  BY <1>1, <1>2, <1>3, <1>4, <1>5, <1>6, <1>7, <1>8, <1>9, <1>10, <1>11, <1>12, <1>13,
      <1>14, <1>15, <1>16, <1>17, <1>18, Zenon DEF Next, SubmitStep, WorkerStep,
      ShutdownStep

-----------------------------------------------------------------------------
(* Shutdown.                                                               *)

\* What Stop and Close guarantee when their waits are not cut short.
LEMMA ShutdownNext == IInv /\ [Next]_vars => Shutdown'
<1> SUFFICES ASSUME IInv, [Next]_vars PROVE Shutdown'
  OBVIOUS
<1>0. ASSUME NEW w \in Workers, pc[w] # "done", pc'[w] # "done",
             \A v \in Workers : v # w => pc'[v] = pc[v],
             UNCHANGED <<deliveries, calls, forgotten, in, hpc, hd, batch, mode, process,
                         timedOut>>
      PROVE  Shutdown'
  BY <1>0, Zenon DEF IInv, Shutdown, WriterClosing, process
<1>1. ASSUME NEW m \in Messages, Deliver(m)
      PROVE  Shutdown'
<2> DEFINE d == <<m, deliveries[m] + 1>>
<2>1. d \in Deliveries /\ calls[d] = 0
  BY NewDelivery, <1>1, Zenon DEF IInv, Deliver
<2>2. \A e \in Deliveries : e # d => calls'[e] = calls[e]
  BY <1>1, Zenon DEF Call, AckOrTerm, Deliver
<2>3. \A e \in Deliveries : e[2] <= deliveries'[e[1]] => e = d \/ e[2] <= deliveries[e[1]]
  BY <1>1 DEF Deliveries, IInv, TypeOK, Deliver
<2>4. calls'[d] = 1 \/ (hpc' # "idle" /\ hd' = d)
  BY <2>1, <1>1 DEF Call, AckOrTerm, Deliver
<2>5. hpc = "idle"
  BY <1>1, Zenon DEF Deliver
<2>6. \A e \in Deliveries : e[2] <= deliveries'[e[1]] =>
        \/ calls'[e] = 1 \/ e \in forgotten \/ e \in in
        \/ hpc' # "idle" /\ e = hd'
        \/ \E w \in Workers : e \in batch[w]
  BY <2>2, <2>3, <2>4, <2>5, Zenon DEF IInv, Shutdown
<2>7. phase \notin {"stopped", "closing", "closed"}
  BY <1>1, Zenon DEF Deliver
<2> QED
  BY <2>6, <1>1, Zenon DEF IInv, Shutdown, WriterClosing, worker, process, Deliver
<1>2. ASSUME SubmitCheck
      PROVE  Shutdown'
  BY <1>2 DEF SubmitCheck, Call, Nak, AckOrTerm, IInv, Shutdown, WriterClosing, Places,
      Waiting, worker, process
<1>3. ASSUME SubmitSends
      PROVE  Shutdown'
  BY <1>3, Zenon DEF SubmitSends, IInv, Shutdown, WriterClosing, external, worker,
      process
<1>4. ASSUME SubmitBlocks
      PROVE  Shutdown'
  BY <1>4, Zenon DEF SubmitBlocks, IInv, Shutdown, external, worker, process
<1>5. ASSUME SubmitRefused
      PROVE  Shutdown'
  BY <1>5 DEF SubmitRefused, Nak, Call, IInv, Shutdown, WriterClosing, Places, Waiting,
      worker, process
<1>6. ASSUME NEW w \in Workers, WorkerTake(w)
      PROVE  Shutdown'
  BY <1>6 DEF WorkerTake, IInv, TypeOK, Shutdown, WriterClosing, external, process
<1>7. ASSUME NEW w \in Workers, WorkerTimer(w) \/ WorkerDrains(w) \/ WorkerLast(w)
      PROVE  Shutdown'
<2>1. CASE WorkerTimer(w)
  <3>1. /\ pc[w] # "done" /\ pc'[w] # "done"
        /\ \A v \in Workers : v # w => pc'[v] = pc[v]
    BY <2>1 DEF WorkerTimer, IInv, TypeOK
  <3> QED
    BY <1>0, <2>1, <3>1, Zenon DEF WorkerTimer, external
<2>2. CASE WorkerDrains(w)
  BY <2>2 DEF WorkerDrains, IInv, TypeOK, Shutdown, WriterClosing, external, process
<2>3. CASE WorkerLast(w)
  BY <2>3 DEF WorkerLast, IInv, TypeOK, Shutdown, WriterClosing, external, process
<2> QED
  BY <1>7, <2>1, <2>2, <2>3, Zenon
<1>8. ASSUME NEW w \in Workers, CommitStreams(w)
      PROVE  Shutdown'
<2>1. /\ pc[w] # "done" /\ pc'[w] # "done"
      /\ \A v \in Workers : v # w => pc'[v] = pc[v]
  BY <1>8 DEF CommitStreams, IInv, TypeOK
<2> QED
  BY <1>0, <1>8, <2>1, Zenon DEF CommitStreams
<1>9. ASSUME NEW w \in Workers, StreamsFail(w)
      PROVE  Shutdown'
<2>1. /\ pc[w] # "done" /\ pc'[w] # "done"
      /\ \A v \in Workers : v # w => pc'[v] = pc[v]
  BY <1>9 DEF StreamsFail, AttemptFails, IInv, TypeOK
<2> QED
  BY <1>0, <1>9, <2>1, Zenon DEF StreamsFail
<1>10. ASSUME NEW w \in Workers, CopyDirect(w) \/ CopyViaStaging(w)
      PROVE  Shutdown'
<2>1. /\ pc[w] # "done" /\ pc'[w] # "done"
      /\ \A v \in Workers : v # w => pc'[v] = pc[v]
  BY <1>10 DEF CopyDirect, CopyViaStaging, Insert, IInv, TypeOK
<2> QED
  BY <1>0, <1>10, <2>1, Zenon DEF CopyDirect, CopyViaStaging
<1>11. ASSUME NEW w \in Workers, CopyFails(w)
      PROVE  Shutdown'
<2>1. /\ pc[w] # "done" /\ pc'[w] # "done"
      /\ \A v \in Workers : v # w => pc'[v] = pc[v]
  BY <1>11 DEF CopyFails, AttemptFails, IInv, TypeOK
<2> QED
  BY <1>0, <1>11, <2>1, Zenon DEF CopyFails
<1>12. ASSUME NEW w \in Workers, AckNext(w)
      PROVE  Shutdown'
<2>1. PICK d \in batch[w] :
        /\ Finish(d, outcome[w])
        /\ batch' = [batch EXCEPT ![w] = @ \ {d}]
        /\ batch[w] # {d} => UNCHANGED pc
        /\ batch[w] = {d} =>
             pc' = [pc EXCEPT ![w] = IF mode[w] = "last" THEN "done" ELSE "collect"]
  BY <1>12, Zenon DEF AckNext
<2>2. \A e \in Deliveries : calls'[e] = IF e = d THEN 1 ELSE calls[e]
  BY <2>1 DEF Finish, AckOrTerm, Nak, Call, IInv, TypeOK, Places, Waiting
<2>3. \A v \in Workers : batch'[v] = IF v = w THEN batch[w] \ {d} ELSE batch[v]
  BY <2>1 DEF IInv, TypeOK
<2>4. \A v \in Workers : pc'[v] = "done" => batch'[v] = {} /\ mode[v] = "last"
  BY <1>12, <2>1, <2>3 DEF AckNext, IInv, TypeOK, Shutdown
<2>5. ~(phase = "closed" /\ timedOut = {})
  BY <1>12, Zenon DEF AckNext, IInv, Shutdown
<2> QED
  BY <1>12, <2>2, <2>3, <2>4, <2>5 DEF AckNext, IInv, Shutdown, WriterClosing, process
<1>13. ASSUME Signal \/ StopBegins \/ SubStop \/ StopReturns \/ CloseBegins
      PROVE  Shutdown'
  BY <1>13, Zenon DEF Signal, StopBegins, Advance, SubStop, StopReturns, CloseBegins,
      IInv, Shutdown, WriterClosing, external, worker
<1>14. ASSUME CloseReturns
      PROVE  Shutdown'
<2>1. CASE /\ \A w \in Workers : pc[w] = "done"
           /\ Call(in)
           /\ in' = {}
           /\ UNCHANGED timedOut
  <3>1. \A d \in Deliveries : calls'[d] = IF d \in in THEN 1 ELSE calls[d]
    BY <2>1 DEF Call, IInv, TypeOK, Places, Waiting
  <3> QED
    BY <2>1, <3>1, <1>14, Zenon DEF IInv, TypeOK, Shutdown, WriterClosing, external,
        worker, CloseReturns, Advance
<2>2. CASE timedOut' = timedOut \cup {"close"} /\ UNCHANGED <<in, calls, abandoned>>
  BY <2>2, <1>14, Zenon DEF IInv, Shutdown, WriterClosing, external, worker,
      CloseReturns, Advance
<2> QED
  BY <2>1, <2>2, <1>14, Zenon DEF CloseReturns
<1>15. ASSUME Exit
      PROVE  Shutdown'
<2>1. \A d \in Deliveries :
        d \in in \/ (hpc # "idle" /\ d = hd) \/ (\E w \in Workers : d \in batch[w])
          => d \in forgotten'
  BY <1>15, Zenon DEF InMemory, Exit
<2>2. /\ hpc' = "idle" /\ phase' = "down" /\ UNCHANGED <<calls, deliveries>>
      /\ \A w \in Workers : pc'[w] = "collect" /\ mode'[w] = "run"
      /\ forgotten \subseteq forgotten'
  BY <1>15, Zenon DEF external, Exit, HandlerDone
<2>3. \A d \in Deliveries :
        d[2] <= deliveries'[d[1]] => calls'[d] = 1 \/ d \in forgotten'
  BY <2>1, <2>2, Zenon DEF IInv, Shutdown
<2> QED
  BY <2>2, <2>3, Zenon DEF Shutdown
<1>16. ASSUME Restart
      PROVE  Shutdown'
  BY <1>16, Zenon DEF Restart, IInv, Shutdown, WriterClosing, external, worker
<1>17. ASSUME NEW r \in MayAge, Age(r)
      PROVE  Shutdown'
  BY <1>17, Zenon DEF Age, IInv, Shutdown, WriterClosing, worker, process
<1>18. CASE UNCHANGED vars
  BY <1>18, Zenon DEF vars, IInv, Shutdown, WriterClosing, external, worker, process
<1> QED
  BY <1>1, <1>2, <1>3, <1>4, <1>5, <1>6, <1>7, <1>8, <1>9, <1>10, <1>11, <1>12, <1>13,
      <1>14, <1>15, <1>16, <1>17, <1>18, Zenon DEF Next, SubmitStep, WorkerStep,
      ShutdownStep

\* Only drainAbandoned fails a shipment, and it finds one only after a signal.
LEMMA DiscardNeedsSignalNext == IInv /\ [Next]_vars => DiscardNeedsSignal'
<1> SUFFICES ASSUME IInv, [Next]_vars PROVE DiscardNeedsSignal'
  OBVIOUS
<1>1. ASSUME NEW m \in Messages, Deliver(m)
      PROVE  DiscardNeedsSignal'
  BY <1>1, Zenon DEF Deliver, IInv, DiscardNeedsSignal, process
<1>2. ASSUME SubmitCheck
      PROVE  DiscardNeedsSignal'
  BY <1>2, Zenon DEF SubmitCheck, IInv, DiscardNeedsSignal, process
<1>3. ASSUME SubmitSends
      PROVE  DiscardNeedsSignal'
  BY <1>3, Zenon DEF SubmitSends, IInv, DiscardNeedsSignal, process
<1>4. ASSUME SubmitBlocks
      PROVE  DiscardNeedsSignal'
  BY <1>4, Zenon DEF SubmitBlocks, IInv, DiscardNeedsSignal, process
<1>5. ASSUME SubmitRefused
      PROVE  DiscardNeedsSignal'
  BY <1>5, Zenon DEF SubmitRefused, IInv, DiscardNeedsSignal, process
<1>6. ASSUME NEW w \in Workers, WorkerTake(w)
      PROVE  DiscardNeedsSignal'
  BY <1>6, Zenon DEF WorkerTake, IInv, DiscardNeedsSignal, process
<1>7. ASSUME NEW w \in Workers, WorkerTimer(w) \/ WorkerDrains(w) \/ WorkerLast(w)
      PROVE  DiscardNeedsSignal'
  BY <1>7, Zenon DEF WorkerTimer, WorkerDrains, WorkerLast, IInv, DiscardNeedsSignal,
      process
<1>8. ASSUME NEW w \in Workers, CommitStreams(w)
      PROVE  DiscardNeedsSignal'
  BY <1>8, Zenon DEF CommitStreams, IInv, DiscardNeedsSignal, process
<1>9. ASSUME NEW w \in Workers, StreamsFail(w)
      PROVE  DiscardNeedsSignal'
  BY <1>9, Zenon DEF StreamsFail, IInv, DiscardNeedsSignal, process
<1>10. ASSUME NEW w \in Workers, CopyDirect(w) \/ CopyViaStaging(w)
      PROVE  DiscardNeedsSignal'
  BY <1>10, Zenon DEF CopyDirect, CopyViaStaging, IInv, DiscardNeedsSignal, process
<1>11. ASSUME NEW w \in Workers, CopyFails(w)
      PROVE  DiscardNeedsSignal'
  BY <1>11, Zenon DEF CopyFails, IInv, DiscardNeedsSignal, process
<1>12. ASSUME NEW w \in Workers, AckNext(w)
      PROVE  DiscardNeedsSignal'
  BY <1>12, Zenon DEF AckNext, IInv, DiscardNeedsSignal, process
<1>13. ASSUME Signal \/ StopBegins \/ SubStop \/ StopReturns \/ CloseBegins
      PROVE  DiscardNeedsSignal'
  BY <1>13, Zenon DEF Signal, StopBegins, Advance, SubStop, StopReturns, CloseBegins,
      IInv, DiscardNeedsSignal
<1>14. ASSUME CloseReturns
      PROVE  DiscardNeedsSignal'
  BY <1>14, Bounds, Zenon DEF CloseReturns, Advance, IInv, DiscardNeedsSignal, Shutdown
<1>15. ASSUME Exit
      PROVE  DiscardNeedsSignal'
  BY <1>15, Zenon DEF Exit, DiscardNeedsSignal
<1>16. ASSUME Restart
      PROVE  DiscardNeedsSignal'
  BY <1>16, Zenon DEF Restart, IInv, DiscardNeedsSignal
<1>17. ASSUME NEW r \in MayAge, Age(r)
      PROVE  DiscardNeedsSignal'
  BY <1>17, Zenon DEF Age, IInv, DiscardNeedsSignal, process
<1>18. CASE UNCHANGED vars
  BY <1>18, Zenon DEF vars, IInv, DiscardNeedsSignal, process
<1> QED
  BY <1>1, <1>2, <1>3, <1>4, <1>5, <1>6, <1>7, <1>8, <1>9, <1>10, <1>11, <1>12, <1>13,
      <1>14, <1>15, <1>16, <1>17, <1>18, Zenon DEF Next, SubmitStep, WorkerStep,
      ShutdownStep

-----------------------------------------------------------------------------
(* The theorems.                                                           *)

\* A collector that has just started satisfies the inductive invariant.
LEMMA InvInit == Init => IInv
<1> SUFFICES ASSUME Init PROVE IInv
  OBVIOUS
<1>1. TypeOK
  BY TypeInit, Zenon
<1>2. Places /\ Durability /\ StreamRows
  BY DEF Init, Places, Durability, StreamRows
<1>3. Shutdown
  BY DEF Init, Shutdown, Deliveries
<1>4. AckedIsDurable /\ OneTerminator /\ DiscardNeedsSignal
  BY DEF Init, AckedIsDurable, OneTerminator, DiscardNeedsSignal
<1> QED
  BY <1>1, <1>2, <1>3, <1>4, Zenon DEF IInv

\* IInv is an invariant of the collector's write path: of consumer.go, writer.go
\* and the shutdown of main.go together.
THEOREM Invariance == Spec => []IInv
<1>1. IInv /\ [Next]_vars => IInv'
  BY TypeNext, PlacesNext, DurabilityNext, StreamRowsNext, ShutdownNext,
      AckedIsDurableNext, OneTerminatorNext, DiscardNeedsSignalNext, Zenon DEF IInv
<1> QED
  BY InvInit, <1>1, PTL DEF Spec

\* The callback, the workers and the shutdown keep the state well typed; in
\* particular flush never makes more than MaxAttempts attempts.
THEOREM TypeCorrect == Spec => []TypeOK
  BY Invariance, PTL DEF IInv

\* A message is acked only after its records are durable (Shipment.Ack,
\* Consumer.finish), however callback, workers, crashes and shutdowns interleave.
THEOREM NoLoss == Spec => []AckedIsDurable
  BY Invariance, PTL DEF IInv

\* No delivery is terminated twice (handle, flush, drainAbandoned).
THEOREM AtMostOneTerminator == Spec => []OneTerminator
  BY Invariance, PTL DEF IInv

\* commitRecords never meets a missing stream row: the cache marked after the
\* commit, and the batch's own upserts, cover every stream of the batch.
THEOREM ForeignKeyHolds == Spec => []StreamsFirst
<1>1. IInv => StreamsFirst
  BY Zenon DEF IInv, StreamRows, StreamsFirst, ForeignKeyOK
<1> QED
  BY Invariance, <1>1, PTL

\* A shutdown whose waits did not time out leaves no delivery unterminated
\* (Consumer.Stop, Writer.Close).
THEOREM CleanShutdown == Spec => []CleanShutdownSettles
<1>1. IInv => CleanShutdownSettles
  <2> SUFFICES ASSUME IInv, phase = "closed", timedOut = {},
                      NEW m \in Messages, NEW n \in 1 .. deliveries[m]
               PROVE  <<m, n>> \in forgotten \/ calls[<<m, n>>] = 1
    BY Zenon DEF CleanShutdownSettles
  <2>1. <<m, n>> \in Deliveries
    BY Bounds DEF IInv, TypeOK, Deliveries
  <2>2. hpc = "idle" /\ in = {} /\ \A w \in Workers : batch[w] = {}
    BY Zenon DEF IInv, Shutdown
  <2> QED
    BY <2>1, <2>2 DEF IInv, Shutdown
<1> QED
  BY Invariance, <1>1, PTL

\* Only a signal, or a wait that timed out, makes Close fail a shipment that
\* Submit had accepted.
THEOREM DiscardOnlyOnSignal == Spec => []DiscardNeedsSignal
  BY Invariance, PTL DEF IInv
=============================================================================
