-------------------------------- MODULE Ring --------------------------------
(***************************************************************************)
(* The consistent hash ring of src/internal/cluster/ring.go.               *)
(*                                                                         *)
(* A ring is the set of its tokens: the code keeps them sorted by hash and *)
(* then by node, which is the order Less, so the token a binary search     *)
(* finds is the first one of a set.  Node names are numbers, compared as   *)
(* the code compares strings.                                              *)
(***************************************************************************)
EXTENDS Integers, Sequences, FiniteSets, SequencesExt

CONSTANTS
  Nodes,       \* node names
  VNodes,      \* tokens to a node
  Space,       \* the key space is 0 .. Space - 1
  TokenHash    \* [node, i] |-> the position of a node's i-th token

Indices == 0 .. (VNodes - 1)
Keys == 0 .. (Space - 1)

ASSUME RingAssumption ==
  /\ Nodes \subseteq Nat /\ VNodes \in Nat \ {0} /\ Space \in Nat \ {0}
  /\ TokenHash \in [Nodes \X Indices -> Keys]

NoOne == -1                         \* the owner on an empty ring

\* Mutant of NewRing: the more members, the more tokens each has.
NewRingGrows(nodes) ==
  {[hash |-> TokenHash[<<n, i>>], node |-> n] :
     n \in nodes, i \in {j \in Indices : j = 0 \/ j < Cardinality(nodes) - 1}}

NewRing(nodes) == {[hash |-> TokenHash[<<n, i>>], node |-> n] : n \in nodes, i \in Indices}

Less(t, u) == t.hash < u.hash \/ (t.hash = u.hash /\ t.node < u.node)

First(tokens) == CHOOSE t \in tokens : \A u \in tokens : u = t \/ Less(t, u)
Final(tokens) == CHOOSE t \in tokens : \A u \in tokens : u = t \/ Less(u, t)

\* The first token at or after h, wrapping past the top.
Slot(ring, h) ==
  LET after == {t \in ring : t.hash >= h}
  IN  First(IF after # {} THEN after ELSE ring)

OwnerOf(ring, h) == IF ring = {} THEN NoOne ELSE Slot(ring, h).node

-----------------------------------------------------------------------------
(* Arcs, shares and the difference of two rings.                           *)

\* The token before t, wrapping: the open end of the arc t closes.
Before(ring, t) ==
  LET lower == {u \in ring : Less(u, t)}
  IN  Final(IF lower # {} THEN lower ELSE ring)

Arcs(ring) ==
  {[lo |-> Before(ring, t).hash, hi |-> t.hash, owner |-> t.node] : t \in ring}

\* Mutant of Span: the arc that crosses the top is not wrapped.
SpanNoWrap(ring, arc) == IF arc.hi >= arc.lo THEN arc.hi - arc.lo ELSE 0

\* uint64 subtraction; a single token owns everything (one key short of it).
Span(ring, arc) == IF Cardinality(ring) = 1 THEN Space - 1 ELSE (arc.hi - arc.lo) % Space

Shares(ring) ==
  [n \in {t.node : t \in ring} |->
     MapThenSumSet(LAMBDA arc : Span(ring, arc), {arc \in Arcs(ring) : arc.owner = n})]

\* The key range (lo, hi], which wraps when hi is not above lo.
InRange(range, h) ==
  IF range.lo < range.hi THEN range.lo < h /\ h <= range.hi
                         ELSE range.lo < h \/ h <= range.hi

\* The owner of a boundary in both rings: it owns the keys since the boundary
\* before it, so one lookup in each decides the range.
Moves(old, cur, b) == [from |-> OwnerOf(old, b), to |-> OwnerOf(cur, b)]

\* Mutant of Joinable: two moved ranges are one whenever they meet.
JoinableAlways(move, next) == move.from # move.to

\* A range that meets the one before it in the same move extends it.
Joinable(move, next) == move.from # move.to /\ move = next

Ascending(S) ==
  [i \in 1 .. Cardinality(S) |-> CHOOSE x \in S : Cardinality({y \in S : y <= x}) = i]

\* The ranges (lo, hi] that change owner: every run of boundaries in one move.
Diff(old, cur) ==
  LET bounds == Ascending({t.hash : t \in old \cup cur})
      n == Len(bounds)
      move == [i \in 1 .. n |-> Moves(old, cur, bounds[i])]
      joined == {i \in 2 .. n : Joinable(move[i - 1], move[i])}
      starts == {i \in (1 .. n) \ joined : move[i].from # move[i].to}
      End(i) == CHOOSE j \in i .. n : (i + 1) .. j \subseteq joined /\ j + 1 \notin joined
  IN  {[lo |-> bounds[IF i = 1 THEN n ELSE i - 1], hi |-> bounds[End(i)],
        from |-> move[i].from, to |-> move[i].to] : i \in starts}

=============================================================================
