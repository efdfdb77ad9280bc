----------------------------- MODULE Coordinator -----------------------------
(***************************************************************************)
(* A query fanned out over the cluster: src/internal/cluster/coordinator.go,*)
(* the peer service (peer.go) and the single-node executor it must be      *)
(* indistinguishable from (query/executor/executor.go).                    *)
(*                                                                         *)
(* The node Self answers one query while membership changes under it: each *)
(* stream's owner is looked up under a lock of its own, so two streams of  *)
(* one query may be routed by different rings.  The database is shared and *)
(* does not change during the query.  A record is what orders and groups   *)
(* it; a bucket of an aggregation is a time.                               *)
(***************************************************************************)
EXTENDS Cluster

CONSTANTS
  Self,       \* the node that was asked
  Rows,       \* the logs table: [stream, time, seq, group]
  Requests    \* [agg, forward, limit]

Streams == {r.stream : r \in Rows}

ASSUME CoordinatorAssumption ==
  /\ Self \in Nodes /\ Streams \subseteq Keys
  /\ \A r \in Requests : r.agg \in BOOLEAN /\ r.forward \in BOOLEAN /\ r.limit \in Nat

VARIABLES
  request,    \* the query and request given to Run
  pc,         \* plan, route, execute, merge, done
  ids,        \* the streams ResolveStreams returned
  routed,     \* the ids that have been given an owner
  shards,     \* byOwner: the node to ask |-> the ids to ask it for
  results,    \* the node asked |-> its shardResult
  pos,        \* mergeRecords: how far each shard's list is consumed
  res,        \* the Result, or the error
  ctx         \* live, or done: the caller's context

queryVars == <<request, pc, ids, routed, shards, results, pos, res, ctx>>
vars == <<state, view, ring, restarts, request, pc, ids, routed, shards, results, pos, res, ctx>>

NoResult == [err |-> "none", rows |-> <<>>, truncated |-> FALSE, warned |-> {}]
Failed(cause) == [NoResult EXCEPT !.err = cause]

-----------------------------------------------------------------------------
(* The executor.                                                           *)

Sorted(S, Lt(_, _)) ==
  [i \in 1 .. Cardinality(S) |-> CHOOSE x \in S : Cardinality({y \in S : Lt(y, x)}) = i - 1]

Prefix(s, n) == SubSeq(s, 1, IF Len(s) < n THEN Len(s) ELSE n)

RecordLess(forward, a, b) ==
  IF a.time # b.time THEN (IF forward THEN a.time < b.time ELSE a.time > b.time)
                     ELSE (IF forward THEN a.seq < b.seq ELSE a.seq > b.seq)

\* The bucket in the direction's order, then the by values ascending.
PointLess(forward, a, b) ==
  IF a.bucket # b.bucket THEN (IF forward THEN a.bucket < b.bucket ELSE a.bucket > b.bucket)
                         ELSE a.group < b.group

PointKey(p) == <<p.bucket, p.group>>

\* ExecLogs: what the database returns for a logs statement over some streams.
\* Rows that order alike come in an order of its own.
ExecLogs(req, streams, cap) ==
  LET rows == {r \in Rows : r.stream \in streams}
      points == {[bucket |-> r.time, group |-> r.group,
                  value |-> Cardinality({s \in rows : s.time = r.time /\ s.group = r.group})] : r \in rows}
      Before2(a, b) == IF a.time = b.time /\ a.seq = b.seq THEN a.stream < b.stream
                       ELSE RecordLess(req.forward, a, b)
      Earlier(a, b) == PointLess(req.forward, a, b)
  IN  IF req.agg THEN Prefix(Sorted(points, Earlier), cap)
                 ELSE Prefix(Sorted(rows, Before2), cap)

Truncate(result, limit) ==
  IF Len(result.rows) <= limit THEN result
  ELSE [result EXCEPT !.rows = Prefix(@, limit), !.truncated = TRUE]

\* Run: the whole plan on one node, the reference.
Single(req, streams) ==
  Truncate([NoResult EXCEPT !.rows = ExecLogs(req, streams, req.limit + 1)], req.limit)

-----------------------------------------------------------------------------
(* The coordinator.                                                        *)

\* Mutant of Shipped: the peers are not asked for the extra row.
ShippedLimit(req) == req.limit

\* The limit the shards run with, one over the caller's.
Shipped(req) == req.limit + 1

\* Run up to the routing: compiling refuses a limit below 1, and the database
\* may fail to resolve the streams; no streams is an empty answer.
Plan(found) ==
  /\ pc = "plan"
  /\ ids' = found
  /\ \/ /\ request.limit > 0 /\ found # {}
        /\ pc' = "route" /\ UNCHANGED res
     \/ /\ request.limit > 0 /\ found = {}
        /\ pc' = "done" /\ UNCHANGED res
     \/ pc' = "done" /\ res' = Failed("local")
  /\ UNCHANGED <<clusterVars, request, routed, shards, results, pos, ctx>>

\* The node to ask for a stream: its owner, or this one if the owner is not
\* ready or there is none.
Target(id) ==
  LET m == OwnerOf(ring[Self], id)
  IN  IF m = NoOne \/ view[Self][m] # "ready" THEN Self ELSE m

\* shards, for one id: Cluster.Owner takes and releases the lock.
Route(id) ==
  /\ pc = "route" /\ id \in ids \ routed
  /\ routed' = routed \cup {id}
  /\ LET m == Target(id)
     IN  shards' = (m :> (IF m \in DOMAIN shards THEN shards[m] ELSE {}) \cup {id}) @@ shards
  /\ pc' = IF routed' = ids THEN "execute" ELSE "route"
  /\ UNCHANGED <<clusterVars, request, ids, results, pos, res, ctx>>

Waiting == DOMAIN shards \ DOMAIN results

Settle(m, result) ==
  /\ pc = "execute" /\ m \in Waiting
  /\ results' = (m :> result) @@ results
  /\ UNCHANGED <<clusterVars, request, pc, ids, routed, shards, pos, res, ctx>>

\* execute, at this node or over gRPC at a process that is there to answer:
\* PeerServer.Execute compiles the query and runs its statement on the ids.
Answer(m) ==
  /\ state[m] # Absent
  /\ Settle(m, [NoResult EXCEPT !.rows = ExecLogs(request, shards[m], Shipped(request))])

\* A database error, a peer that cannot be reached or answers an error, or one
\* that is still called when the context ends.
Break(m) == Settle(m, Failed(IF m = Self THEN "local" ELSE "remote"))

\* Mutant of Cut: a call to a peer does not have the query's context.
CutLocal(m) == ctx = "done" /\ m = Self /\ Settle(m, Failed("ctx"))

Cut(m) == ctx = "done" /\ Settle(m, Failed("ctx"))

\* The query timeout, or the client hanging up; the first to notice is a shard.
Expire ==
  /\ ctx = "live" /\ pc = "execute"
  /\ ctx' = "done"
  /\ UNCHANGED <<clusterVars, request, pc, ids, routed, shards, results, pos, res>>

\* Mutant of Canceled: a deadline is told from the shard's own error, which for
\* a peer is a gRPC status.
CanceledByError(failed) == \E m \in failed : m = Self /\ results[m].err = "ctx"

Canceled(failed) == failed # {} /\ ctx = "done"

\* mergePoints: equal buckets and groups of two shards add.
MergePoints(lists) ==
  LET points == UNION {ToSet(lists[m]) : m \in DOMAIN lists}
      Value(key) ==
        MapThenSumSet(LAMBDA m : MapThenSumSet(LAMBDA p : p.value,
                                   {p \in ToSet(lists[m]) : PointKey(p) = key}),
                      DOMAIN lists)
      Earlier(a, b) == PointLess(request.forward, a, b)
  IN  Sorted({[bucket |-> p.bucket, group |-> p.group, value |-> Value(PointKey(p))] : p \in points},
             Earlier)

\* After wg.Wait: errors and warnings shard by shard, then the merge.  The
\* caller's context decides whether a failure is a partial result.
Collect ==
  LET failed == {m \in DOMAIN results : results[m].err # "none"}
      good == DOMAIN results \ failed
      answer == [NoResult EXCEPT
                   !.warned = UNION {shards[m] : m \in failed},
                   !.truncated = \E m \in good : Len(results[m].rows) > request.limit]
  IN  /\ pc = "execute" /\ Waiting = {}
      /\ \/ /\ Canceled(failed)
            /\ res' = Failed("ctx") /\ pc' = "done"
         \/ /\ ~Canceled(failed) /\ Self \in failed
            /\ res' = Failed("local") /\ pc' = "done"
         \/ /\ ~Canceled(failed) /\ Self \notin failed /\ request.agg
            /\ res' = Truncate([answer EXCEPT !.rows = MergePoints([m \in good |-> results[m].rows])],
                               request.limit)
            /\ pc' = "done"
         \/ /\ ~Canceled(failed) /\ Self \notin failed /\ ~request.agg
            /\ res' = answer /\ pc' = "merge"
      /\ pos' = [m \in good |-> 0]
      /\ UNCHANGED <<clusterVars, request, ids, routed, shards, results, ctx>>

\* The cursors on mergeRecords' heap.
Heap == {m \in DOMAIN pos : pos[m] < Len(results[m].rows)}
Head1(m) == results[m].rows[pos[m] + 1]

\* One turn of mergeRecords: the heap gives any cursor no other is less than.
Pop(m) ==
  /\ pc = "merge" /\ m \in Heap /\ Len(res.rows) < request.limit + 1
  /\ \A o \in Heap : ~RecordLess(request.forward, Head1(o), Head1(m))
  /\ res' = [res EXCEPT !.rows = Append(@, Head1(m))]
  /\ pos' = [pos EXCEPT ![m] = @ + 1]
  /\ UNCHANGED <<clusterVars, request, pc, ids, routed, shards, results, ctx>>

\* mergeRecords returns, and Run cuts the result.
Finish ==
  /\ pc = "merge" /\ (Heap = {} \/ Len(res.rows) = request.limit + 1)
  /\ res' = Truncate(res, request.limit)
  /\ pc' = "done"
  /\ UNCHANGED <<clusterVars, request, ids, routed, shards, results, pos, ctx>>

-----------------------------------------------------------------------------

\* The query arrives at a ready node whose view is up to date; some others may
\* not be ready yet.
Init ==
  /\ restarts = MaxRestarts
  /\ state \in [Nodes -> {"unready", "ready"}] /\ state[Self] = "ready"
  /\ view = [n \in Nodes |-> state]
  /\ ring = [n \in Nodes |-> NewRing(Nodes)]
  /\ request \in Requests /\ pc = "plan" /\ ids = {} /\ routed = {}
  /\ shards = <<>> /\ results = <<>> /\ pos = <<>> /\ res = NoResult /\ ctx = "live"

\* Membership while a query is routed: others come up, leave or die; this node
\* may be leaving, and goes on answering until its server is shut down.  Once
\* the shards are made, a peer that goes away is one that fails to answer.
Churn ==
  /\ pc = "route"
  /\ \/ \E m \in Nodes \ {Self} : JoinSettles(m) \/ Leave(m) \/ Stop(m) \/ Gossip(Self, m)
     \/ Leave(Self)
  /\ UNCHANGED queryVars

Progress ==
  \/ \E found \in {Streams, {}} : Plan(found)
  \/ \E id \in Streams : Route(id)
  \/ \E m \in Nodes : Cut(m)
  \/ Collect
  \/ \E m \in Nodes : Pop(m)
  \/ Finish
  \/ Expire

Next ==
  \/ Churn \/ Progress
  \/ \E m \in Nodes : Answer(m) \/ Break(m)

\* The coordinator runs, and its context has a deadline (Config.Timeout of the
\* HTTP API).  Nothing is assumed of the peers or of the database.
Spec == Init /\ [][Next]_vars /\ WF_vars(Progress)

-----------------------------------------------------------------------------
(* Properties.                                                             *)

TypeOK ==
  /\ pc \in {"plan", "route", "execute", "merge", "done"}
  /\ ids \subseteq Streams /\ routed \subseteq ids
  /\ DOMAIN shards \subseteq Nodes /\ DOMAIN results \subseteq DOMAIN shards
  /\ UNION {shards[m] : m \in DOMAIN shards} = routed
  /\ res.err \in {"none", "ctx", "local"} /\ ctx \in {"live", "done"}

OrderKeys(rows) ==
  [i \in DOMAIN rows |-> IF request.agg THEN rows[i] ELSE <<rows[i].time, rows[i].seq>>]

\* The fan-out is invisible: an answer is what one node would have given over
\* the streams that were searched - the same rows in the same order, each once,
\* the same sums, cut at the same place and marked truncated exactly when it is
\* - whatever rings the streams were routed by (Run and shards, coordinator.go
\* 50-148; the merge and its limits, 177-282).  Every stream that was not
\* searched is in a warning.
FanoutInvisible ==
  pc = "done" /\ res.err = "none" =>
    LET searched == ids \ res.warned
        single == Single(request, searched)
    IN  /\ OrderKeys(res.rows) = OrderKeys(single.rows)
        /\ res.truncated = single.truncated
        /\ res.warned \subseteq ids
        /\ ~request.agg => /\ ToSet(res.rows) \subseteq {r \in Rows : r.stream \in searched}
                           /\ Cardinality(ToSet(res.rows)) = Len(res.rows)

\* A stream is missing from an answer only because a peer failed while the
\* query was still wanted: never this node's own share, and never because the
\* query was canceled (coordinator.go 88-107).
PartialHasAReason ==
  pc = "done" /\ res.err = "none" =>
    \A m \in DOMAIN results : results[m].err # "none" => results[m].err = "remote"

\* Every query is answered, peers that never reply included.
QueryAnswered == <>[](pc = "done")

=============================================================================
