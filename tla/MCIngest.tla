------------------------------ MODULE MCIngest ------------------------------
(* Instances of Ingest for TLC: two streams that carry a batch each, and one *)
(* that carries several beside one that stays silent.                        *)
EXTENDS Ingest, TLC

CONSTANTS s1, s2

VARIABLE mode     \* wide, deep

MostBatches == s1 :> 3 @@ s2 :> 1

W == INSTANCE Ingest WITH MaxBatches <- s1 :> 1 @@ s2 :> 1
D == INSTANCE Ingest WITH MaxBatches <- s1 :> 3 @@ s2 :> 0

all == <<mode, vars>>
Of(A) == A /\ UNCHANGED mode

MCInit == mode \in {"wide", "deep"} /\ Init
Wide == mode = "wide" /\ W!Next /\ UNCHANGED mode
Deep == mode = "deep" /\ D!Next /\ UNCHANGED mode
MCNext == Wide \/ Deep

\* FairSpec of both.
MCSpec ==
  /\ MCInit /\ [][MCNext]_all
  /\ \A s \in Streams : WF_all(Of(HandlerStep(s)))
  /\ \A p \in Publishers : WF_all(Of(PublisherStep(p)))
  /\ WF_all(Of(Stop))

=============================================================================
