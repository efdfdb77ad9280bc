----------------------------- MODULE AckStream -----------------------------
(***************************************************************************)
(* What the collector promises an agent on a stream of batches             *)
(* (src/internal/ingest/handler.go): the n-th answer is about the n-th     *)
(* batch, ACCEPTED only for a durable batch, and nothing becomes durable   *)
(* behind the agent's back except the batch it is waiting for and batches  *)
(* answered INTERNAL.  This is what Shipper assumes of the other end of    *)
(* its stream.                                                             *)
(***************************************************************************)
EXTENDS Naturals, Sequences

CONSTANT Streams

VARIABLES
  answers,   \* stream -> the codes sent back, in order
  durable    \* batches <<stream, n>> the queue holds

vars == <<answers, durable>>

Init ==
  /\ answers = [s \in Streams |-> <<>>]
  /\ durable = {}

\* A batch answered INVALID is dropped by the agent, one answered OVERLOADED
\* is resent: neither reached the queue and neither ever will.  INTERNAL says
\* only that the collector does not know.
Answer(s, code) ==
  /\ \/ code = "ACCEPTED" /\ <<s, Len(answers[s]) + 1>> \in durable
     \/ code \in {"OVERLOADED", "INVALID"} /\ <<s, Len(answers[s]) + 1>> \notin durable
     \/ code = "INTERNAL"
  /\ answers' = [answers EXCEPT ![s] = Append(@, code)]
  /\ UNCHANGED durable

\* The oldest unanswered batch of a stream, or one answered INTERNAL.
Store(s, n) ==
  /\ \/ n = Len(answers[s]) + 1
     \/ n \in DOMAIN answers[s] /\ answers[s][n] = "INTERNAL"
  /\ durable' = durable \cup {<<s, n>>}
  /\ UNCHANGED answers

Next ==
  \E s \in Streams :
    \/ \E code \in {"ACCEPTED", "OVERLOADED", "INVALID", "INTERNAL"} : Answer(s, code)
    \/ \E n \in 1 .. Len(answers[s]) + 1 : Store(s, n)

Spec == Init /\ [][Next]_vars

=============================================================================
