------------------------------- MODULE Cluster -------------------------------
(***************************************************************************)
(* Membership: src/internal/cluster/cluster.go.  Every node keeps a view   *)
(* of the members and the ring built from it, changed only by memberlist's *)
(* callbacks.                                                              *)
(*                                                                         *)
(* memberlist is external.  What a node last told the others about itself  *)
(* is state[n]; each of the others learns it when a gossip message, a      *)
(* push/pull or its failure detector gets to it, in any order, and may     *)
(* skip what was superseded in between.                                    *)
(***************************************************************************)
EXTENDS Ring

CONSTANT MaxRestarts    \* bound: how often nodes are started again

VARIABLES
  state,     \* what each node is: the belief it wants the others to have
  view,      \* Cluster.members: what each node believes of the others
  ring,      \* Cluster.ring
  restarts

clusterVars == <<state, view, ring, restarts>>

Absent == "absent"
Beliefs == {Absent, "unready", "ready"}
Running(n) == state[n] \in {"unready", "ready"}
MembersOf(beliefs) == {m \in Nodes : beliefs[m] # Absent}

\* Mutant of Update: a member that left keeps its tokens.
UpdateKeepsRing(n, m, belief) ==
  /\ view' = [view EXCEPT ![n][m] = belief]
  /\ ring' = [ring EXCEPT ![n] = @ \cup NewRing(MembersOf([view[n] EXCEPT ![m] = belief]))]

\* update: apply one membership event and rebuild the ring.
Update(n, m, belief) ==
  /\ view' = [view EXCEPT ![n][m] = belief]
  /\ ring' = [ring EXCEPT ![n] = NewRing(MembersOf([view[n] EXCEPT ![m] = belief]))]

\* Mutant of New: the ring starts without this node.
NewUnseen(n) ==
  /\ state[n] = Absent /\ restarts < MaxRestarts
  /\ restarts' = restarts + 1
  /\ state' = [state EXCEPT ![n] = "unready"]
  /\ UNCHANGED <<view, ring>>

\* New: memberlist starts with this node as the only member, and reports it.
New(n) ==
  /\ state[n] = Absent /\ restarts < MaxRestarts
  /\ restarts' = restarts + 1
  /\ state' = [state EXCEPT ![n] = "unready"]
  /\ view' = [view EXCEPT ![n] = [m \in Nodes |-> IF m = n THEN "unready" ELSE Absent]]
  /\ ring' = [ring EXCEPT ![n] = NewRing({n})]

\* Join, however it ends short of a shutdown (a seed answered, none is
\* configured, JoinTimeout passed), and SetReady(true): the readiness is stored
\* and broadcast, and memberlist reports the change to this node as well.
JoinSettles(n) ==
  /\ state[n] = "unready"
  /\ state' = [state EXCEPT ![n] = "ready"]
  /\ Update(n, n, "ready")
  /\ UNCHANGED restarts

\* Leave: the others are told, and this node of its own departure.
Leave(n) ==
  /\ Running(n)
  /\ state' = [state EXCEPT ![n] = "leaving"]
  /\ Update(n, n, Absent)
  /\ UNCHANGED restarts

\* The process ends, after Leave or without a word.
Stop(n) ==
  /\ state[n] # Absent
  /\ state' = [state EXCEPT ![n] = Absent]
  /\ view' = [view EXCEPT ![n] = [m \in Nodes |-> Absent]]
  /\ ring' = [ring EXCEPT ![n] = {}]
  /\ UNCHANGED restarts

\* What the others are to believe of m.
Told(m) == IF Running(m) THEN state[m] ELSE Absent

\* Mutant of Gossip: departures are not listened to.
GossipJoins(n, m) ==
  /\ n # m /\ Running(n) /\ view[n][m] # Told(m) /\ Told(m) # Absent
  /\ Update(n, m, Told(m))
  /\ UNCHANGED <<state, restarts>>

\* NotifyJoin, NotifyUpdate and NotifyLeave, at a node that still gossips.
Gossip(n, m) ==
  /\ n # m /\ Running(n) /\ view[n][m] # Told(m)
  /\ Update(n, m, Told(m))
  /\ UNCHANGED <<state, restarts>>

-----------------------------------------------------------------------------

ClusterInit ==
  /\ state = [n \in Nodes |-> Absent]
  /\ view = [n \in Nodes |-> [m \in Nodes |-> Absent]]
  /\ ring = [n \in Nodes |-> {}]
  /\ restarts = 0

Membership(n) == New(n) \/ JoinSettles(n) \/ Leave(n) \/ Stop(n)

ClusterNext ==
  \E n \in Nodes : Membership(n) \/ \E m \in Nodes : Gossip(n, m)

ClusterSpec == ClusterInit /\ [][ClusterNext]_clusterVars

\* memberlist keeps gossiping until every node has heard.
ClusterFairness == \A n, m \in Nodes : WF_clusterVars(Gossip(n, m))

-----------------------------------------------------------------------------
(* Properties.                                                             *)

\* Types, and that a running node is in its own ring.
ClusterTypeOK ==
  /\ state \in [Nodes -> Beliefs \cup {"leaving"}]
  /\ view \in [Nodes -> [Nodes -> Beliefs]]
  /\ \A n \in Nodes : ring[n] \subseteq NewRing(Nodes)
  /\ restarts \in 0 .. MaxRestarts
  /\ \A n \in Nodes : Running(n) => view[n][n] = state[n]

\* Two nodes that see the same members route every stream alike, however they
\* came to see them: tokens derive from names alone (cluster.go 41-43).
RoutesAgree ==
  \A n \in Nodes : \A m \in Nodes \ {n} :
    MembersOf(view[n]) = MembersOf(view[m]) =>
      \A h \in Keys : OwnerOf(ring[n], h) = OwnerOf(ring[m], h)

\* A stream is owned by a member the node knows of; there is none only when it
\* knows of nobody (Owner, cluster.go 199-206).
OwnersAreMembers ==
  \A n \in Nodes : \A h \in Keys :
    IF MembersOf(view[n]) = {} THEN OwnerOf(ring[n], h) = NoOne
                               ELSE OwnerOf(ring[n], h) \in MembersOf(view[n])

\* The arcs tile the key space by owner, and the shares /v1/cluster shows
\* measure what each member is really routed (Arcs and Shares, ring.go 115-145),
\* with colliding tokens too, whose arc is empty.  Only a ring with all its
\* tokens in one place has no arc to measure.
Measured(tokens) ==
  Cardinality({t.hash : t \in tokens}) > 1 =>
    \A shares \in {Shares(tokens)}, arcs \in {Arcs(tokens)} :
      \A m \in DOMAIN shares :
        LET owned == {h \in Keys : OwnerOf(tokens, h) = m}
        IN  /\ shares[m] = Cardinality(owned)
            /\ owned = {h \in Keys : \E arc \in arcs :
                           arc.owner = m /\ arc.lo # arc.hi /\ InRange(arc, h)}

\* The ownership transfers a membership event logs are exactly the keys that
\* changed owner, with the owner before and after (Diff, ring.go 155-190).
Transferred(old, cur) ==
  \A moves \in {Diff(old, cur)} : \A h \in Keys :
    LET move == Moves(old, cur, h)
    IN  {[from |-> t.from, to |-> t.to] : t \in {u \in moves : InRange(u, h)}}
          = {move} \ {[from |-> o, to |-> o] : o \in Nodes}

\* Both, of every ring that a membership event builds.
Rebuilt ==
  \A n \in Nodes : \A old \in {ring[n]}, cur \in {ring[n]'} :
    old # cur => Measured(cur) /\ Transferred(old, cur)

\* Consistent hashing: a node that joins takes streams from the others and
\* moves none between them, and one that leaves gives up its own only.
Minimal ==
  \A n \in {m \in Nodes : ring[m] # ring[m]'} : \A h \in Keys :
    LET move == Moves(ring[n], ring[n]', h)
    IN  \/ move.from = move.to
        \/ move.to \notin MembersOf(view[n])
        \/ move.from \notin MembersOf(view[n]')
MovesAreMinimal == [][Minimal]_clusterVars

\* Once nodes stop coming and going, all that run see the same members in the
\* same state, and route alike.
Converged ==
  \A n, m \in Nodes : Running(n) => view[n][m] = Told(m)
ViewsConverge == <>[]Converged

=============================================================================
