----------------------------- MODULE RingProofs -----------------------------
(***************************************************************************)
(* Proofs about modules Ring and Cluster, for every set of nodes, every    *)
(* number of tokens to a node and every placing of the tokens, collisions  *)
(* included: a stream always has one owner, nodes that see the same        *)
(* members agree on it, and a membership event moves no stream between two *)
(* nodes that were there before and after.                                 *)
(***************************************************************************)
EXTENDS Cluster, WellFoundedInduction, TLAPS

USE SMTT(30)

Tokens == [hash : Nat, node : Nat]

-----------------------------------------------------------------------------
(* The order of the tokens, and the binary search.                         *)

\* A set of numbers that is not empty has a smallest one.
LEMMA Smallest ==
  ASSUME NEW S, S \subseteq Nat, S # {}
  PROVE  \E x \in S : \A y \in S : x <= y
<1>1. IsWellFoundedOn({ss \in Nat \X Nat : ss[1] < ss[2]}, Nat)
  BY NatLessThanWellFounded, Zenon DEF OpToRel
<1>2. PICK x \in S : \A y \in S : ~(<<y, x>> \in {ss \in Nat \X Nat : ss[1] < ss[2]})
  BY <1>1, WFMin, Zenon
<1>3. ASSUME NEW y \in S, y < x PROVE FALSE
  <2>1. <<y, x>> \in Nat \X Nat /\ <<y, x>>[1] < <<y, x>>[2]
    BY <1>3
  <2> QED
    BY <1>2, <2>1, Zenon
<1>4. \A y \in S : x <= y
  BY <1>3
<1> QED
  BY <1>4

\* First is the least token of a set, by hash and then by node (the sort of
\* NewRing, ring.go 57-62).
LEMMA FirstIsLeast ==
  ASSUME NEW ts, ts \subseteq Tokens, ts # {}
  PROVE  First(ts) \in ts /\ \A u \in ts : u = First(ts) \/ Less(First(ts), u)
<1>1. PICK h \in {t.hash : t \in ts} : \A y \in {t.hash : t \in ts} : h <= y
  <2>1. {t.hash : t \in ts} \subseteq Nat /\ {t.hash : t \in ts} # {}
    BY DEF Tokens
  <2> QED
    BY <2>1, Smallest, Zenon
<1> DEFINE low == {t.node : t \in {u \in ts : u.hash = h}}
<1>2. PICK n \in low : \A y \in low : n <= y
  <2>1. low \subseteq Nat /\ low # {}
    BY <1>1 DEF Tokens
  <2> QED
    BY <2>1, Smallest, Zenon
<1>3. PICK t \in ts : t.hash = h /\ t.node = n
  BY <1>2
<1>4. \A u \in ts : u = t \/ Less(t, u)
  <2> SUFFICES ASSUME NEW u \in ts PROVE u = t \/ Less(t, u)
    OBVIOUS
  <2>1. h <= u.hash /\ (u.hash = h => n <= u.node)
    BY <1>1, <1>2
  <2>2. u.hash \in Nat /\ u.node \in Nat /\ h \in Nat /\ n \in Nat
    BY <1>3 DEF Tokens
  <2>3. u.hash = t.hash /\ u.node = t.node => u = t
    BY DEF Tokens
  <2> QED
    BY <1>3, <2>1, <2>2, <2>3 DEF Less
<1> QED
  BY <1>4, Zenon DEF First

\* The order is strict.
LEMMA LessIsStrict ==
  ASSUME NEW t \in Tokens, NEW u \in Tokens, Less(t, u)
  PROVE  ~Less(u, t)
  BY DEF Less, Tokens

\* What the binary search finds is a token of the ring (slot, ring.go 82-88).
LEMMA SlotIsToken ==
  ASSUME NEW r, r \subseteq Tokens, r # {}, NEW h \in Nat
  PROVE  Slot(r, h) \in r
<1> DEFINE after == {t \in r : t.hash >= h}
<1>1. CASE after # {}
  BY <1>1, FirstIsLeast, Zenon DEF Slot
<1>2. CASE after = {}
  BY <1>2, FirstIsLeast, Zenon DEF Slot
<1> QED
  BY <1>1, <1>2

\* Two rings that both hold what a search finds in either find the same: the
\* tokens that only one of them has do not matter.
LEMMA CommonSlot ==
  ASSUME NEW r, r \subseteq Tokens, r # {}, NEW q, q \subseteq Tokens, q # {},
         NEW h \in Nat, Slot(r, h) \in q, Slot(q, h) \in r
  PROVE  Slot(r, h) = Slot(q, h)
<1> DEFINE after(s) == {t \in s : t.hash >= h}
           a == Slot(r, h)
           b == Slot(q, h)
<1>1. a \in r /\ b \in q
  BY SlotIsToken
<1>2. a \in Tokens /\ b \in Tokens
  BY <1>1
<1>3. CASE after(r) # {}
  <2>1. a = First(after(r)) /\ a \in after(r) /\ \A u \in after(r) : u = a \/ Less(a, u)
    BY <1>3, FirstIsLeast, Zenon DEF Slot
  <2>2. after(q) # {}
    BY <2>1
  <2>3. b = First(after(q)) /\ b \in after(q) /\ \A u \in after(q) : u = b \/ Less(b, u)
    BY <2>2, FirstIsLeast, Zenon DEF Slot
  <2>4. a \in after(q) /\ b \in after(r)
    BY <2>1, <2>3
  <2> QED
    BY <1>2, <2>1, <2>3, <2>4, LessIsStrict, Zenon
<1>4. CASE after(r) = {}
  <2>1. a = First(r) /\ \A u \in r : u = a \/ Less(a, u)
    BY <1>4, FirstIsLeast, Zenon DEF Slot
  <2>2. after(q) = {}
    <3>1. SUFFICES ASSUME after(q) # {} PROVE FALSE
      OBVIOUS
    <3>2. b \in after(q)
      BY <3>1, FirstIsLeast, Zenon DEF Slot
    <3> QED
      BY <1>4, <3>2
  <2>3. b = First(q) /\ \A u \in q : u = b \/ Less(b, u)
    BY <2>2, FirstIsLeast, Zenon DEF Slot
  <2> QED
    BY <1>2, <2>1, <2>3, LessIsStrict, Zenon
<1> QED
  BY <1>3, <1>4, Zenon

-----------------------------------------------------------------------------
(* The ring of a set of nodes.                                             *)

\* The tokens of a node are its own, and derive from its name alone (NewRing and
\* tokenHash, ring.go 41-70).
LEMMA RingOfNodes ==
  ASSUME NEW A, A \subseteq Nodes
  PROVE  /\ NewRing(A) \subseteq Tokens
         /\ A # {} => NewRing(A) # {}
         /\ \A t \in NewRing(A) : t.node \in A
         /\ \A B \in SUBSET Nodes : \A t \in NewRing(A) : t.node \in B => t \in NewRing(B)
<1>1. 0 \in Indices /\ Keys \subseteq Nat /\ Nodes \subseteq Nat
  BY RingAssumption DEF Indices, Keys
<1>2. \A n \in Nodes, i \in Indices : TokenHash[<<n, i>>] \in Nat
  <2> SUFFICES ASSUME NEW n \in Nodes, NEW i \in Indices PROVE TokenHash[<<n, i>>] \in Nat
    BY Zenon
  <2>1. <<n, i>> \in Nodes \X Indices
    OBVIOUS
  <2>2. TokenHash[<<n, i>>] \in Keys
    BY <2>1, RingAssumption, Zenon
  <2> QED
    BY <1>1, <2>2, Zenon
<1>3. \A t \in NewRing(A) : \E n \in A, i \in Indices :
        t = [hash |-> TokenHash[<<n, i>>], node |-> n] /\ t.node = n
  BY DEF NewRing
<1>4. \A B \in SUBSET Nodes : \A n \in B, i \in Indices :
        [hash |-> TokenHash[<<n, i>>], node |-> n] \in NewRing(B)
  <2> SUFFICES ASSUME NEW B \in SUBSET Nodes, NEW n \in B, NEW i \in Indices
               PROVE  [hash |-> TokenHash[<<n, i>>], node |-> n] \in NewRing(B)
    BY Zenon
  <2>1. \E k \in B, j \in Indices :
          [hash |-> TokenHash[<<n, i>>], node |-> n] = [hash |-> TokenHash[<<k, j>>], node |-> k]
    BY Zenon
  <2> QED
    BY <2>1 DEF NewRing
<1>5. NewRing(A) \subseteq Tokens
  <2> SUFFICES ASSUME NEW t \in NewRing(A) PROVE t \in Tokens
    OBVIOUS
  <2>1. PICK n \in A, i \in Indices : t = [hash |-> TokenHash[<<n, i>>], node |-> n]
    BY <1>3, Zenon
  <2>2. TokenHash[<<n, i>>] \in Nat /\ n \in Nat
    BY <1>1, <1>2, Zenon
  <2> QED
    BY <2>1, <2>2 DEF Tokens
<1>6. A # {} => NewRing(A) # {}
  BY <1>1, <1>4, Zenon
<1>7. \A t \in NewRing(A) : t.node \in A
  BY <1>3, Zenon
<1>8. \A B \in SUBSET Nodes : \A t \in NewRing(A) : t.node \in B => t \in NewRing(B)
  BY <1>3, <1>4, Zenon
<1> QED
  BY <1>5, <1>6, <1>7, <1>8, Zenon

\* The owner of a key is one of the nodes, and there is one as soon as there is a
\* node (Owner, ring.go 74-79).
LEMMA OwnerIsANode ==
  ASSUME NEW A, A \subseteq Nodes, NEW h \in Keys
  PROVE  IF A = {} THEN OwnerOf(NewRing(A), h) = NoOne ELSE OwnerOf(NewRing(A), h) \in A
<1>1. h \in Nat
  BY RingAssumption DEF Keys
<1>2. CASE A = {}
  <2>1. NewRing(A) = {}
    BY <1>2 DEF NewRing
  <2> QED
    BY <1>2, <2>1, Zenon DEF OwnerOf
<1>3. CASE A # {}
  <2>1. NewRing(A) # {} /\ Slot(NewRing(A), h) \in NewRing(A)
    BY <1>1, <1>3, RingOfNodes, SlotIsToken, Zenon
  <2>2. Slot(NewRing(A), h).node \in A
    BY <2>1, RingOfNodes, Zenon
  <2> QED
    BY <1>3, <2>1, <2>2, Zenon DEF OwnerOf
<1> QED
  BY <1>2, <1>3, Zenon

\* Consistent hashing: when the set of nodes changes, whatever the change, a key
\* does not go from one node to another if both were and are members.
THEOREM KeysStayPut ==
  ASSUME NEW A \in SUBSET Nodes, NEW B \in SUBSET Nodes, NEW h \in Keys,
         OwnerOf(NewRing(A), h) \in B, OwnerOf(NewRing(B), h) \in A
  PROVE  OwnerOf(NewRing(A), h) = OwnerOf(NewRing(B), h)
<1>1. h \in Nat /\ Nodes \subseteq Nat
  BY RingAssumption DEF Keys
<1>2. A # {} /\ B # {}
  OBVIOUS
<1> DEFINE r == NewRing(A)
           q == NewRing(B)
<1>3. r \subseteq Tokens /\ r # {} /\ q \subseteq Tokens /\ q # {}
  BY <1>2, RingOfNodes, Zenon
<1>4. Slot(r, h) \in r /\ Slot(q, h) \in q
  BY <1>1, <1>3, SlotIsToken, Zenon
<1>5. OwnerOf(r, h) = Slot(r, h).node /\ OwnerOf(q, h) = Slot(q, h).node
  BY <1>3, Zenon DEF OwnerOf
<1>6. Slot(r, h) \in q /\ Slot(q, h) \in r
  BY <1>4, <1>5, RingOfNodes, Zenon
<1>7. Slot(r, h) = Slot(q, h)
  BY <1>1, <1>3, <1>6, CommonSlot, Zenon
<1> QED
  BY <1>5, <1>7, Zenon

-----------------------------------------------------------------------------
(* The cluster.                                                            *)

\* Every node's ring is the ring of the members it sees.  It is what every event
\* re-establishes by building the ring anew, and all that the theorems need.
RingInv ==
  /\ view \in [Nodes -> [Nodes -> Beliefs]]
  /\ DOMAIN ring = Nodes /\ ring = [n \in Nodes |-> NewRing(MembersOf(view[n]))]

\* Update keeps it, whichever member the event is about (update, cluster.go
\* 212-259).
LEMMA UpdateKeepsRingInv ==
  ASSUME RingInv, NEW n \in Nodes, NEW m \in Nodes, NEW b \in Beliefs, Update(n, m, b)
  PROVE  RingInv'
<1>1. view' \in [Nodes -> [Nodes -> Beliefs]]
  BY DEF RingInv, Update
<1>2. view'[n] = [view[n] EXCEPT ![m] = b] /\ \A k \in Nodes \ {n} : view'[k] = view[k]
  BY DEF RingInv, Update
<1>3. /\ ring'[n] = NewRing(MembersOf([view[n] EXCEPT ![m] = b]))
      /\ \A k \in Nodes \ {n} : ring'[k] = ring[k]
      /\ ring' = [k \in Nodes |-> ring'[k]]
  BY Zenon DEF RingInv, Update
<1>4. \A k \in Nodes : ring'[k] = NewRing(MembersOf(view'[k]))
  <2>1. \A k \in Nodes : ring[k] = NewRing(MembersOf(view[k]))
    BY Zenon DEF RingInv
  <2>2. ring'[n] = NewRing(MembersOf(view'[n]))
    BY <1>2, <1>3, Zenon
  <2>3. \A k \in Nodes \ {n} : ring'[k] = NewRing(MembersOf(view'[k]))
    BY <1>2, <1>3, <2>1, Zenon
  <2> QED
    BY <2>2, <2>3, Zenon
<1> QED
  BY <1>1, <1>3, <1>4, Zenon DEF RingInv

\* So does every step: New, Leave and Stop build the ring with the view.
LEMMA RingInvHolds == ClusterSpec => []RingInv
<1>1. ClusterInit => RingInv
  <2> SUFFICES ASSUME ClusterInit PROVE RingInv
    OBVIOUS
  <2>1. view \in [Nodes -> [Nodes -> Beliefs]]
    BY DEF ClusterInit, Beliefs
  <2>2. \A n \in Nodes : MembersOf(view[n]) = {}
    BY DEF ClusterInit, MembersOf
  <2>3. NewRing({}) = {}
    BY DEF NewRing
  <2>4. ring = [n \in Nodes |-> {}]
    BY Zenon DEF ClusterInit
  <2> QED
    BY <2>1, <2>2, <2>3, <2>4, Zenon DEF RingInv
<1>2. RingInv /\ [ClusterNext]_clusterVars => RingInv'
  <2> SUFFICES ASSUME RingInv, [ClusterNext]_clusterVars PROVE RingInv'
    OBVIOUS
  <2>1. CASE UNCHANGED clusterVars
    BY <2>1, Zenon DEF clusterVars, RingInv
  <2>2. ASSUME NEW n \in Nodes, New(n) PROVE RingInv'
    <3> DEFINE alone == [m \in Nodes |-> IF m = n THEN "unready" ELSE Absent]
    <3>1. view' = [view EXCEPT ![n] = alone] /\ ring' = [ring EXCEPT ![n] = NewRing({n})]
      BY <2>2, Zenon DEF New
    <3>2. alone \in [Nodes -> Beliefs] /\ MembersOf(alone) = {n}
      BY DEF Beliefs, MembersOf, Absent
    <3>3. view' \in [Nodes -> [Nodes -> Beliefs]]
      BY <3>1, <3>2, Zenon DEF RingInv
    <3> QED
      BY <3>1, <3>2, <3>3, Zenon DEF RingInv
  <2>3. ASSUME NEW n \in Nodes, JoinSettles(n) PROVE RingInv'
    BY <2>3, UpdateKeepsRingInv, Zenon DEF JoinSettles, Beliefs
  <2>4. ASSUME NEW n \in Nodes, Leave(n) PROVE RingInv'
    BY <2>4, UpdateKeepsRingInv, Zenon DEF Leave, Beliefs
  <2>5. ASSUME NEW n \in Nodes, Stop(n) PROVE RingInv'
    <3> DEFINE nobody == [m \in Nodes |-> Absent]
    <3>1. view' = [view EXCEPT ![n] = nobody] /\ ring' = [ring EXCEPT ![n] = {}]
      BY <2>5, Zenon DEF Stop
    <3>2. nobody \in [Nodes -> Beliefs] /\ MembersOf(nobody) = {}
      BY DEF Beliefs, MembersOf
    <3>3. view' \in [Nodes -> [Nodes -> Beliefs]]
      BY <3>1, <3>2, Zenon DEF RingInv
    <3>4. NewRing(MembersOf(nobody)) = {}
      BY <3>2 DEF NewRing
    <3> QED
      BY <3>1, <3>3, <3>4, Zenon DEF RingInv
  <2>6. ASSUME NEW n \in Nodes, NEW m \in Nodes, Gossip(n, m) PROVE RingInv'
    <3>1. Told(m) \in Beliefs /\ Update(n, m, Told(m))
      BY <2>6, Zenon DEF Gossip, Told, Running, Beliefs
    <3> QED
      BY <3>1, UpdateKeepsRingInv, Zenon
  <2> QED
    BY <2>1, <2>2, <2>3, <2>4, <2>5, <2>6, Zenon DEF ClusterNext, Membership
<1> QED
  BY <1>1, <1>2, PTL DEF ClusterSpec

\* Nodes that see the same members route every stream alike, whatever happened
\* to each of them (Cluster.Owner, cluster.go 203-208).
THEOREM SameMembersSameOwners == ClusterSpec => []RoutesAgree
<1>1. RingInv => RoutesAgree
  BY Zenon DEF RingInv, RoutesAgree
<1> QED
  BY <1>1, RingInvHolds, PTL

\* A stream is owned by a member its node knows of; there is no owner only when
\* the node knows of nobody.
THEOREM OwnersAreKnown == ClusterSpec => []OwnersAreMembers
<1>1. RingInv => OwnersAreMembers
  <2> SUFFICES ASSUME RingInv, NEW n \in Nodes, NEW h \in Keys
               PROVE  IF MembersOf(view[n]) = {} THEN OwnerOf(ring[n], h) = NoOne
                      ELSE OwnerOf(ring[n], h) \in MembersOf(view[n])
    BY Zenon DEF OwnersAreMembers
  <2>1. MembersOf(view[n]) \subseteq Nodes /\ ring[n] = NewRing(MembersOf(view[n]))
    BY Zenon DEF RingInv, MembersOf
  <2> QED
    BY <2>1, OwnerIsANode, Zenon
<1> QED
  BY <1>1, RingInvHolds, PTL

\* Consistent hashing, at work: no membership event makes a node send a stream
\* from one member to another when both were members before and are after.
THEOREM EventsMoveLittle == ClusterSpec => MovesAreMinimal
<1>1. RingInv /\ RingInv' => Minimal
  <2> SUFFICES ASSUME RingInv, RingInv', NEW n \in Nodes, NEW h \in Keys,
                      OwnerOf(ring'[n], h) \in MembersOf(view[n]),
                      OwnerOf(ring[n], h) \in MembersOf(view'[n])
               PROVE  OwnerOf(ring[n], h) = OwnerOf(ring'[n], h)
    BY Zenon DEF Minimal, Moves
  <2> DEFINE A == MembersOf(view[n])
             B == MembersOf(view'[n])
  <2>1. A \in SUBSET Nodes /\ B \in SUBSET Nodes
    BY Zenon DEF MembersOf
  <2>2. ring[n] = NewRing(A) /\ ring'[n] = NewRing(B)
    BY Zenon DEF RingInv
  <2>3. OwnerOf(NewRing(A), h) \in B /\ OwnerOf(NewRing(B), h) \in A
    BY <2>2, Zenon
  <2>4. OwnerOf(NewRing(A), h) = OwnerOf(NewRing(B), h)
    <3> HIDE DEF A, B
    <3> QED
      BY <2>1, <2>3, KeysStayPut, Zenon
  <2> QED
    BY <2>2, <2>4, Zenon
<1> QED
  BY <1>1, RingInvHolds, PTL DEF MovesAreMinimal

=============================================================================
