------------------------------ MODULE LiveTail ------------------------------
(***************************************************************************)
(* Live tail: the subscription registry (src/internal/tail/tail.go), the   *)
(* WebSocket handler over it (src/internal/httpapi/tail.go), the subjects  *)
(* that connect it to ingest (src/internal/queue/queue.go) and the stream  *)
(* half of the evaluator (src/internal/query/match.go).                    *)
(*                                                                         *)
(* A handler goroutine, the broker's delivery goroutine and the ping       *)
(* goroutine of every client run concurrently, with the shutdown closing   *)
(* the registry.  A record is its number in the order of publication.      *)
(***************************************************************************)
EXTENDS Integers, Sequences, FiniteSets, Functions

CONSTANTS
  Clients,
  Buffer,       \* TailBuffer: records buffered for a client, at least 1
  MaxRecords,   \* bound: records published
  Queries,      \* selectors: sequences of [label, op, value]
  LabelSets,    \* [env, service] of the streams
  Token         \* sanitizeToken: a label value |-> its subject token

ASSUME TailAssumption ==
  Buffer \in Nat \ {0} /\ MaxRecords \in Nat /\ \A q \in Queries : q \in Seq(Range(q))

VARIABLES
  query,        \* what each client asks for
  tail,         \* the Subscription and the handler of each client
  broker,       \* the clients with a live broker subscription
  registry,     \* closed, subs; what Close still has to end
  published,    \* the label sets of the records published, in order
  due           \* history: the matching records published since the handshake

tailVars == <<query, tail, broker, registry, published, due>>

Idle == [pc |-> "request", pending |-> <<>>, ch |-> <<>>, hand |-> <<>>, sent |-> <<>>,
         dropped |-> 0, reported |-> 0, pinging |-> FALSE, done |-> FALSE,
         peer |-> TRUE, told |-> FALSE]

-----------------------------------------------------------------------------
(* Subjects and selectors.                                                 *)

\* MatchStream: every matcher of the selector holds.
MatchStream(q, labels) ==
  \A i \in DOMAIN q : (q[i].op = "=") = (labels[q[i].label] = q[i].value)

\* The value of the last of some matchers, or none.
LastValue(q, pins) == IF pins = {} THEN "" ELSE q[CHOOSE i \in pins : \A j \in pins : j <= i].value

\* Mutant of Pinned: every matcher narrows the subject.
PinnedAny(q, label) == LastValue(q, {i \in DOMAIN q : q[i].label = label})

\* pinned: the value the last = matcher fixes, or none.
Pinned(q, label) == LastValue(q, {i \in DOMAIN q : q[i].label = label /\ q[i].op = "="})

Subject(labels) == <<Token[labels.env], Token[labels.service]>>

\* Filter: an empty value is a wildcard.
Filter(q) ==
  LET Tok(v) == IF v = "" THEN "*" ELSE Token[v]
  IN  <<Tok(Pinned(q, "env")), Tok(Pinned(q, "service"))>>

Passes(filter, subject) == \A i \in 1 .. 2 : filter[i] \in {"*", subject[i]}

-----------------------------------------------------------------------------
(* The registry.                                                           *)

Set(c, r) == tail' = [tail EXCEPT ![c] = r]

\* The handler up to the broker subscription, which is made outside the lock.
\* A query that does not parse or has a stage the evaluator cannot run, or a
\* broker error, is refused.
Subscribe(c) ==
  /\ tail[c].pc = "request"
  /\ \/ broker' = broker \cup {c} /\ Set(c, [tail[c] EXCEPT !.pc = "register"])
     \/ broker' = broker /\ Set(c, [tail[c] EXCEPT !.pc = "ended"])
  /\ UNCHANGED <<query, registry, published, due>>

\* Mutant of Register: whether the registry is closed was looked at earlier.
RegisterUnchecked(c) ==
  /\ tail[c].pc = "register"
  /\ registry' = [registry EXCEPT !.subs = @ \cup {c}]
  /\ Set(c, [tail[c] EXCEPT !.pc = "upgrade"]) /\ broker' = broker
  /\ UNCHANGED <<query, published, due>>

\* Subscribe's critical section: a registry that closed meanwhile takes the
\* broker subscription back, and the client gets a 503.
Register(c) ==
  /\ tail[c].pc = "register"
  /\ IF registry.closed
     THEN /\ Set(c, [tail[c] EXCEPT !.pc = "ended"]) /\ broker' = broker \ {c}
          /\ UNCHANGED registry
     ELSE /\ registry' = [registry EXCEPT !.subs = @ \cup {c}]
          /\ Set(c, [tail[c] EXCEPT !.pc = "upgrade"]) /\ broker' = broker
  /\ UNCHANGED <<query, published, due>>

\* Mutant of CloseSub: the registry keeps the subscription.
CloseSubStays(c) ==
  /\ broker' = broker \ {c}
  /\ registry' = [registry EXCEPT !.ending = @ \ {c}]

\* Subscription.Close, once: stop the source, leave the registry, fire Done.
CloseSub(c) ==
  /\ broker' = broker \ {c}
  /\ registry' = [registry EXCEPT !.subs = @ \ {c}, !.ending = @ \ {c}]

\* Registry.Close, from Server.Shutdown: mark it and take the list under the
\* lock; the subscriptions are ended after.
Close ==
  /\ ~registry.closed
  /\ registry' = [registry EXCEPT !.closed = TRUE, !.ending = registry.subs]
  /\ UNCHANGED <<query, tail, broker, published, due>>

EndOne(c) ==
  /\ c \in registry.ending
  /\ CloseSub(c)
  /\ Set(c, [tail[c] EXCEPT !.done = TRUE])
  /\ UNCHANGED <<query, published, due>>

\* Mutant of Offer: a client that is behind holds up the delivery.
OfferWaits(s, r) ==
  IF Len(s.ch) < Buffer THEN [s EXCEPT !.ch = Append(@, r)]
                        ELSE [s EXCEPT !.pending = <<r>> \o @]

\* A match goes into the buffer, or is dropped and counted.
Offer(s, r) ==
  IF Len(s.ch) < Buffer THEN [s EXCEPT !.ch = Append(@, r)]
                        ELSE [s EXCEPT !.dropped = @ + 1]

\* deliver, for one record: the broker's goroutine, which may still be running
\* when the subscription has been stopped.
Deliver(c) ==
  /\ tail[c].pending # <<>>
  /\ LET r == Head(tail[c].pending)
         rest == [tail[c] EXCEPT !.pending = Tail(@)]
     IN  Set(c, IF MatchStream(query[c], published[r]) THEN Offer(rest, r) ELSE rest)
  /\ UNCHANGED <<query, broker, registry, published, due>>

-----------------------------------------------------------------------------
(* The WebSocket handler.                                                  *)

\* Every return after Subscribe runs the deferred sub.Close.
Return(c, s) ==
  /\ CloseSub(c)
  /\ Set(c, [s EXCEPT !.pc = "ended", !.done = TRUE, !.pinging = FALSE, !.hand = <<>>])
  /\ UNCHANGED <<query, published, due>>

\* Accept: the 101 goes out, or the handshake is malformed.
Upgrade(c) ==
  /\ tail[c].pc = "upgrade"
  /\ \/ Set(c, [tail[c] EXCEPT !.pc = "loop"]) /\ UNCHANGED <<query, broker, registry, published, due>>
     \/ Return(c, tail[c])

\* close: the frame is sent to a peer that is there, and waited for briefly.
Goodbye(s) == [s EXCEPT !.told = s.peer]

\* The peer closed, or the library closed for us: ctx is done.
PeerGone(c) ==
  /\ tail[c].pc = "loop" /\ ~tail[c].peer
  /\ Return(c, tail[c])

\* Mutant of SubDone: the handler waits for the peer to notice.
SubDoneIgnored(c) == tail[c].pc = "loop" /\ tail[c].done /\ ~tail[c].peer /\ Return(c, tail[c])

SubDone(c) ==
  /\ tail[c].pc = "loop" /\ tail[c].done
  /\ Return(c, Goodbye(tail[c]))

\* The select takes a record off the buffer, reads the drop count and writes.
Send(c) ==
  /\ tail[c].pc = "loop" /\ tail[c].ch # <<>>
  /\ Set(c, [tail[c] EXCEPT !.pc = "writing", !.ch = Tail(@),
                            !.hand = <<Head(tail[c].ch), tail[c].dropped>>])
  /\ UNCHANGED <<query, broker, registry, published, due>>

\* Mutant of Sent: the message goes without the drop count.
SentBare(c) ==
  /\ tail[c].pc = "writing" /\ tail[c].peer
  /\ Set(c, [tail[c] EXCEPT !.pc = "loop", !.hand = <<>>, !.sent = Append(@, tail[c].hand[1])])
  /\ UNCHANGED <<query, broker, registry, published, due>>

\* The write succeeds: the client has learned of every drop counted so far.
Sent(c) ==
  /\ tail[c].pc = "writing" /\ tail[c].peer
  /\ Set(c, [tail[c] EXCEPT !.pc = "loop", !.hand = <<>>, !.sent = Append(@, tail[c].hand[1]),
                            !.reported = tail[c].hand[2]])
  /\ UNCHANGED <<query, broker, registry, published, due>>

\* Mutant of Farewell: a failed write is always the peer's doing.
FarewellNone(s) == s

\* goodbye: when the subscription ended under the write or the ping, the client
\* still deserves the close frame.
Farewell(s) == IF s.done THEN Goodbye(s) ELSE s

\* The write fails: wctx was canceled because Done fired, or the write timed out
\* or hit a dead connection.
SendFails(c) ==
  /\ tail[c].pc = "writing"
  /\ \/ tail[c].done /\ Return(c, Farewell(tail[c]))
     \/ Return(c, Farewell([tail[c] EXCEPT !.peer = FALSE]))

\* The heartbeat starts a ping unless one is in flight.
Ping(c) ==
  /\ tail[c].pc = "loop" /\ ~tail[c].pinging
  /\ Set(c, [tail[c] EXCEPT !.pinging = TRUE])
  /\ UNCHANGED <<query, broker, registry, published, due>>

\* Its outcome: a pong, the deadline passing, or Done canceling it.
Pong(c) ==
  /\ tail[c].pc = "loop" /\ tail[c].pinging
  /\ \/ /\ tail[c].peer /\ Set(c, [tail[c] EXCEPT !.pinging = FALSE])
        /\ UNCHANGED <<query, broker, registry, published, due>>
     \/ tail[c].done /\ Return(c, Farewell(tail[c]))
     \/ ~tail[c].done /\ Return(c, Farewell([tail[c] EXCEPT !.peer = FALSE]))

-----------------------------------------------------------------------------
(* The outside world.                                                      *)

\* An accepted batch is copied to every subscription its subject passes.
Publish(labels) ==
  /\ Len(published) < MaxRecords
  /\ published' = Append(published, labels)
  /\ LET r == Len(published) + 1
     IN  /\ tail' = [c \in Clients |->
                       IF c \in broker /\ Passes(Filter(query[c]), Subject(labels))
                       THEN [tail[c] EXCEPT !.pending = Append(@, r)] ELSE tail[c]]
         /\ due' = [c \in Clients |->
                      IF tail[c].pc \in {"loop", "writing"} /\ MatchStream(query[c], labels)
                      THEN due[c] \cup {r} ELSE due[c]]
  /\ UNCHANGED <<query, broker, registry>>

\* The client closes, or vanishes.
HangUp(c) ==
  /\ tail[c].pc \in {"loop", "writing"} /\ tail[c].peer
  /\ Set(c, [tail[c] EXCEPT !.peer = FALSE])
  /\ UNCHANGED <<query, broker, registry, published, due>>

-----------------------------------------------------------------------------

TailInit ==
  /\ query \in [Clients -> Queries]
  /\ tail = [c \in Clients |-> Idle]
  /\ broker = {} /\ published = <<>>
  /\ registry = [closed |-> FALSE, subs |-> {}, ending |-> {}]
  /\ due = [c \in Clients |-> {}]

Handler(c) ==
  Subscribe(c) \/ Register(c) \/ Upgrade(c) \/ PeerGone(c) \/ SubDone(c) \/ Sent(c) \/ SendFails(c)

TailNext ==
  \/ \E c \in Clients : \/ Deliver(c) \/ EndOne(c) \/ Handler(c) \/ Send(c)
                        \/ Ping(c) \/ Pong(c) \/ HangUp(c)
  \/ Close
  \/ \E labels \in LabelSets : Publish(labels)

\* Every goroutine runs: a delivery never waits, the shutdown goes through its
\* list, and a handler's write ends by success, timeout or cancellation.  Nothing
\* is assumed of the client.
TailFairness ==
  \A c \in Clients : WF_tailVars(Deliver(c)) /\ WF_tailVars(EndOne(c)) /\ WF_tailVars(Handler(c))

TailSpec == TailInit /\ [][TailNext]_tailVars /\ TailFairness

-----------------------------------------------------------------------------
(* Properties.                                                             *)

TailTypeOK ==
  /\ broker \subseteq Clients /\ registry.subs \subseteq Clients
  /\ \A c \in Clients :
       /\ tail[c].pc \in {"request", "register", "upgrade", "loop", "writing", "ended"}
       /\ Len(tail[c].ch) <= Buffer
       /\ tail[c].reported \in 0 .. tail[c].dropped

\* The handshake guarantee: every matching record published after it is on its
\* way, in the buffer, sent, or counted as dropped, in the order of publication
\* (tail, httpapi/tail.go 67-72; the filter may over-match but never
\* under-match, queue.go 82-88).
HandshakeHolds ==
  \A c \in Clients : tail[c].pc \in {"loop", "writing"} /\ ~tail[c].done =>
    LET inHand == IF tail[c].hand = <<>> THEN <<>> ELSE <<tail[c].hand[1]>>
        there == tail[c].sent \o inHand \o tail[c].ch \o tail[c].pending
    IN  /\ Cardinality(due[c] \ Range(there)) <= tail[c].dropped
        /\ \A i, j \in DOMAIN there : i < j => there[i] < there[j]

\* A client can account for what it missed: up to the last record it was sent,
\* the gaps are covered by the drop counts it was told (httpapi/tail.go 40-48
\* and 143-149).
GapsAreReported ==
  \A c \in Clients : tail[c].sent # <<>> =>
    Cardinality({r \in due[c] : r <= tail[c].sent[Len(tail[c].sent)]} \ Range(tail[c].sent))
      <= tail[c].reported

\* A client can account for every matching record published since its
\* handshake: sent in order, on its way, or in a drop count it is told with the
\* next record (httpapi/tail.go 40-72 and 143-149).
TailAccountsForAll == TailTypeOK /\ HandshakeHolds /\ GapsAreReported

\* A closed registry keeps nothing: after Close has ended what it found, every
\* broker subscription left belongs to a Subscribe that is about to be refused,
\* and no client is registered (Subscribe and Close, tail.go 96-128).
ClosedMeansEnded ==
  registry.closed /\ registry.ending = {} =>
    registry.subs = {} /\ \A c \in broker : tail[c].pc = "register"

\* A handler that returned left nothing behind, however it returned.
NothingLeaks ==
  \A c \in Clients : tail[c].pc = "ended" => c \notin broker \cup registry.subs

\* A client that is still there when the server shuts down is told so before
\* its handler returns, also when a write or a ping was cut short (goodbye,
\* httpapi/tail.go 155-164).
Announced ==
  \A c \in Clients :
    tail[c].pc \in {"loop", "writing"} /\ tail[c].done /\ tail'[c].pc = "ended" /\ tail'[c].peer
      => tail'[c].told
ShutdownIsAnnounced == [][Announced]_tailVars

\* The delivery goroutine is never held up by a client (deliver, tail.go
\* 189-220): what the broker sent is always worked off.
WorkedOff == \A c \in Clients : tail[c].pending = <<>>
DeliveryKeepsUp == <>[]WorkedOff

\* After the registry closes, every handler returns.
EndedOnceClosed == registry.closed => \A c \in Clients : tail[c].pc = "ended"
TailsEnd == <>[]EndedOnceClosed

=============================================================================
