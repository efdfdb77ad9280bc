----------------------------- MODULE TailProofs -----------------------------
(***************************************************************************)
(* Proofs about module LiveTail, for every number of clients, queries and  *)
(* records and every size of buffer: however Subscribe, Close and the      *)
(* returning handlers interleave, a closed registry keeps no subscription  *)
(* and a handler that returned leaves none behind (RegistryInv); a client  *)
(* can account for every matching record since its handshake (LedgerInv),  *)
(* and is told of a shutdown.                                              *)
(***************************************************************************)
EXTENDS LiveTail, FiniteSetTheorems, TLAPS

USE SMTT(30)

\* A record that has a pc.
Shaped(s) == s = [k \in DOMAIN s |-> s[k]] /\ "pc" \in DOMAIN s

\* What the theorems rest on.  A subscription in the registry belongs to a
\* handler that has not returned; one at the broker is in the registry as well,
\* but for the moment between the two halves of Subscribe; and once the registry
\* is closed, every subscription in it is one that Close is about to end.
RegistryInv ==
  /\ DOMAIN tail = Clients /\ tail = [c \in Clients |-> tail[c]]
  /\ \A c \in Clients : Shaped(tail[c])
  /\ registry = [closed |-> registry.closed, subs |-> registry.subs, ending |-> registry.ending]
  /\ registry.closed => registry.subs \subseteq registry.ending
  /\ broker \subseteq Clients /\ registry.subs \subseteq Clients
  /\ \A c \in registry.subs : tail[c].pc \in {"upgrade", "loop", "writing"}
  /\ \A c \in broker : c \in registry.subs \/ tail[c].pc = "register"

-----------------------------------------------------------------------------
(* Steps of one client.                                                    *)

\* Set changes one client's record.
LEMMA OneChanges ==
  ASSUME RegistryInv, NEW c \in Clients, NEW s, Shaped(s), Set(c, s)
  PROVE  /\ DOMAIN tail' = Clients /\ tail' = [d \in Clients |-> tail'[d]]
         /\ tail'[c] = s /\ \A d \in Clients \ {c} : tail'[d] = tail[d]
         /\ \A d \in Clients : Shaped(tail'[d])
<1>1. /\ DOMAIN tail' = Clients /\ tail' = [d \in Clients |-> tail'[d]]
      /\ tail'[c] = s /\ \A d \in Clients \ {c} : tail'[d] = tail[d]
  BY Zenon DEF RegistryInv, Set
<1>2. ASSUME NEW d \in Clients PROVE Shaped(tail'[d])
  <2>1. Shaped(tail[d])
    BY Zenon DEF RegistryInv
  <2> QED
    BY <1>1, <2>1, Zenon
<1> QED
  BY <1>1, <1>2, Zenon

\* A step of client c that leaves the broker and the registry alone: its handler
\* keeps running if it was, or the client is in neither.
LEMMA LocalStep ==
  ASSUME RegistryInv, NEW c \in Clients, NEW s, Shaped(s), Set(c, s),
         \/ s.pc = tail[c].pc
         \/ tail[c].pc \in {"upgrade", "loop", "writing"} /\ s.pc \in {"loop", "writing"}
         \/ c \notin broker /\ c \notin registry.subs,
         broker' = broker, registry' = registry
  PROVE  RegistryInv'
<1>1. /\ DOMAIN tail' = Clients /\ tail' = [d \in Clients |-> tail'[d]]
      /\ tail'[c] = s /\ \A d \in Clients \ {c} : tail'[d] = tail[d]
      /\ \A d \in Clients : Shaped(tail'[d])
  BY OneChanges, Zenon
<1>3. /\ c \in registry.subs => s.pc \in {"upgrade", "loop", "writing"}
      /\ c \in broker => c \in registry.subs \/ s.pc = "register"
  <2>1. /\ c \in registry.subs => tail[c].pc \in {"upgrade", "loop", "writing"}
        /\ c \in broker => c \in registry.subs \/ tail[c].pc = "register"
    BY Zenon DEF RegistryInv
  <2> QED
    BY <2>1
<1>4. \A d \in registry.subs : tail'[d].pc \in {"upgrade", "loop", "writing"}
  <2> SUFFICES ASSUME NEW d \in registry.subs PROVE tail'[d].pc \in {"upgrade", "loop", "writing"}
    BY Zenon
  <2>1. d \in Clients /\ tail[d].pc \in {"upgrade", "loop", "writing"}
    BY Zenon DEF RegistryInv
  <2> QED
    BY <1>1, <1>3, <2>1, Zenon
<1>5. \A d \in broker : d \in registry.subs \/ tail'[d].pc = "register"
  <2> SUFFICES ASSUME NEW d \in broker PROVE d \in registry.subs \/ tail'[d].pc = "register"
    BY Zenon
  <2>1. d \in Clients /\ (d \in registry.subs \/ tail[d].pc = "register")
    BY Zenon DEF RegistryInv
  <2> QED
    BY <1>1, <1>3, <2>1, Zenon
<1> QED
  BY <1>1, <1>4, <1>5, Zenon DEF RegistryInv

\* Subscription.Close takes the client out of both (tail.go 130-137 and
\* 181-187), so whatever its handler does next, nothing of it is left.
LEMMA ClosingStep ==
  ASSUME RegistryInv, NEW c \in Clients, NEW s, Shaped(s), Set(c, s), CloseSub(c)
  PROVE  RegistryInv'
<1>1. /\ DOMAIN tail' = Clients /\ tail' = [d \in Clients |-> tail'[d]]
      /\ tail'[c] = s /\ \A d \in Clients \ {c} : tail'[d] = tail[d]
      /\ \A d \in Clients : Shaped(tail'[d])
  BY OneChanges, Zenon
<1>3. registry' = [closed |-> registry.closed, subs |-> registry.subs \ {c},
                   ending |-> registry.ending \ {c}]
  BY Zenon DEF RegistryInv, CloseSub
<1>4. /\ registry'.closed = registry.closed /\ registry'.subs = registry.subs \ {c}
      /\ registry'.ending = registry.ending \ {c} /\ broker' = broker \ {c}
  BY <1>3, Zenon DEF CloseSub
<1>5. registry' = [closed |-> registry'.closed, subs |-> registry'.subs, ending |-> registry'.ending]
  BY <1>3, <1>4, Zenon
<1>6. registry'.closed => registry'.subs \subseteq registry'.ending
  BY <1>4, Zenon DEF RegistryInv
<1>7. broker' \subseteq Clients /\ registry'.subs \subseteq Clients
  BY <1>4, Zenon DEF RegistryInv
<1>8. \A d \in registry'.subs : tail'[d].pc \in {"upgrade", "loop", "writing"}
  <2> SUFFICES ASSUME NEW d \in registry'.subs PROVE tail'[d].pc \in {"upgrade", "loop", "writing"}
    OBVIOUS
  <2>1. d \in registry.subs /\ d # c /\ d \in Clients
    BY <1>4, Zenon DEF RegistryInv
  <2> QED
    BY <1>1, <2>1, Zenon DEF RegistryInv
<1>9. \A d \in broker' : d \in registry'.subs \/ tail'[d].pc = "register"
  <2> SUFFICES ASSUME NEW d \in broker' PROVE d \in registry'.subs \/ tail'[d].pc = "register"
    OBVIOUS
  <2>1. d \in broker /\ d # c /\ d \in Clients
    BY <1>4, Zenon DEF RegistryInv
  <2>2. tail'[d] = tail[d] /\ (d \in registry.subs => d \in registry'.subs)
    BY <1>1, <1>4, <2>1, Zenon
  <2> QED
    BY <2>1, <2>2, Zenon DEF RegistryInv
<1> QED
  BY <1>1, <1>5, <1>6, <1>7, <1>8, <1>9, Zenon DEF RegistryInv

-----------------------------------------------------------------------------
(* The handlers.                                                           *)

\* A handler that returns (the deferred sub.Close of httpapi/tail.go 89).
LEMMA ReturnStep ==
  ASSUME RegistryInv, NEW c \in Clients, NEW s, Shaped(s), Return(c, s)
  PROVE  RegistryInv'
<1>1. Shaped([s EXCEPT !.pc = "ended", !.done = TRUE, !.pinging = FALSE, !.hand = <<>>])
  BY Zenon DEF Shaped
<1> QED
  BY <1>1, ClosingStep, Zenon DEF Return

\* Farewells keep the record.
LEMMA FarewellShape ==
  ASSUME NEW s, Shaped(s)
  PROVE  /\ Shaped(Goodbye(s)) /\ Shaped(Farewell(s))
         /\ Shaped([s EXCEPT !.peer = FALSE]) /\ Shaped(Farewell([s EXCEPT !.peer = FALSE]))
<1>1. \A t : Shaped(t) => Shaped([t EXCEPT !.told = t.peer])
  BY Zenon DEF Shaped
<1>2. \A t : Shaped(t) => Shaped(Goodbye(t)) /\ Shaped(Farewell(t))
  BY <1>1, Zenon DEF Goodbye, Farewell
<1>3. Shaped([s EXCEPT !.peer = FALSE])
  BY Zenon DEF Shaped
<1> QED
  BY <1>2, <1>3, Zenon

\* Subscribe's first half: the broker first, the registry later.
LEMMA SubscribeStep ==
  ASSUME RegistryInv, NEW c \in Clients, Subscribe(c)
  PROVE  RegistryInv'
<1> DEFINE s(v) == [tail[c] EXCEPT !.pc = v]
<1>1. Shaped(tail[c])
  BY Zenon DEF RegistryInv
<1>2. \A v : Shaped(s(v)) /\ s(v).pc = v
  BY <1>1, Zenon DEF Shaped
<1> HIDE DEF s
<1>3. tail[c].pc = "request" /\ registry' = registry
  BY Zenon DEF Subscribe
<1>4. c \notin registry.subs /\ c \notin broker
  BY <1>3 DEF RegistryInv
<1>5. \/ Set(c, s("register")) /\ broker' = broker \cup {c}
      \/ Set(c, s("ended")) /\ broker' = broker
  BY Zenon DEF Subscribe, s
<1>6. CASE Set(c, s("ended")) /\ broker' = broker
  BY <1>2, <1>3, <1>4, <1>6, LocalStep, Zenon
<1>7. CASE Set(c, s("register")) /\ broker' = broker \cup {c}
  <2>1. /\ DOMAIN tail' = Clients /\ tail' = [d \in Clients |-> tail'[d]]
        /\ tail'[c] = s("register") /\ \A d \in Clients \ {c} : tail'[d] = tail[d]
        /\ \A d \in Clients : Shaped(tail'[d])
    BY <1>2, <1>7, OneChanges, Zenon
  <2>3. \A d \in registry.subs : tail'[d].pc \in {"upgrade", "loop", "writing"}
    <3> SUFFICES ASSUME NEW d \in registry.subs PROVE tail'[d].pc \in {"upgrade", "loop", "writing"}
      BY Zenon
    <3>1. d \in Clients /\ d # c /\ tail[d].pc \in {"upgrade", "loop", "writing"}
      BY <1>4, Zenon DEF RegistryInv
    <3> QED
      BY <2>1, <3>1, Zenon
  <2>4. broker' \subseteq Clients
    BY <1>7, Zenon DEF RegistryInv
  <2>5. \A d \in broker' : d \in registry.subs \/ tail'[d].pc = "register"
    <3> SUFFICES ASSUME NEW d \in broker' PROVE d \in registry.subs \/ tail'[d].pc = "register"
      BY Zenon
    <3>1. CASE d = c
      BY <1>2, <2>1, <3>1, Zenon
    <3>2. CASE d # c
      <4>1. d \in Clients /\ (d \in registry.subs \/ tail[d].pc = "register")
        BY <1>7, <3>2, Zenon DEF RegistryInv
      <4> QED
        BY <2>1, <3>2, <4>1, Zenon
    <3> QED
      BY <3>1, <3>2, Zenon
  <2> QED
    BY <1>3, <2>1, <2>3, <2>4, <2>5, Zenon DEF RegistryInv
<1> QED
  BY <1>5, <1>6, <1>7, Zenon

\* Its second half, which looks at closed under the lock (tail.go 96-112).
LEMMA RegisterStep ==
  ASSUME RegistryInv, NEW c \in Clients, Register(c)
  PROVE  RegistryInv'
<1> DEFINE s(v) == [tail[c] EXCEPT !.pc = v]
<1>1. Shaped(tail[c])
  BY Zenon DEF RegistryInv
<1>2. \A v : Shaped(s(v)) /\ s(v).pc = v
  BY <1>1, Zenon DEF Shaped
<1> HIDE DEF s
<1>3. tail[c].pc = "register"
  BY Zenon DEF Register
<1>4. c \notin registry.subs
  BY <1>3 DEF RegistryInv
<1>5. CASE registry.closed
  <2>1. Set(c, s("ended")) /\ broker' = broker \ {c} /\ registry' = registry
    BY <1>5, Zenon DEF Register, s
  <2>2. /\ DOMAIN tail' = Clients /\ tail' = [d \in Clients |-> tail'[d]]
        /\ tail'[c] = s("ended") /\ \A d \in Clients \ {c} : tail'[d] = tail[d]
        /\ \A d \in Clients : Shaped(tail'[d])
    BY <1>2, <2>1, OneChanges, Zenon
  <2>4. \A d \in registry.subs : tail'[d].pc \in {"upgrade", "loop", "writing"}
    <3> SUFFICES ASSUME NEW d \in registry.subs PROVE tail'[d].pc \in {"upgrade", "loop", "writing"}
      BY Zenon
    <3>1. d \in Clients /\ d # c /\ tail[d].pc \in {"upgrade", "loop", "writing"}
      BY <1>4, Zenon DEF RegistryInv
    <3> QED
      BY <2>2, <3>1, Zenon
  <2>5. broker' \subseteq Clients
    BY <2>1, Zenon DEF RegistryInv
  <2>6. \A d \in broker' : d \in registry.subs \/ tail'[d].pc = "register"
    <3> SUFFICES ASSUME NEW d \in broker' PROVE d \in registry.subs \/ tail'[d].pc = "register"
      BY Zenon
    <3>1. d # c /\ d \in Clients /\ (d \in registry.subs \/ tail[d].pc = "register")
      BY <2>1, Zenon DEF RegistryInv
    <3> QED
      BY <2>2, <3>1, Zenon
  <2> QED
    BY <2>1, <2>2, <2>4, <2>5, <2>6, Zenon DEF RegistryInv
<1>6. CASE ~registry.closed
  <2>1. /\ Set(c, s("upgrade")) /\ broker' = broker
        /\ registry' = [registry EXCEPT !.subs = registry.subs \cup {c}]
    BY <1>6, Zenon DEF Register, s
  <2>2. /\ DOMAIN tail' = Clients /\ tail' = [d \in Clients |-> tail'[d]]
        /\ tail'[c] = s("upgrade") /\ \A d \in Clients \ {c} : tail'[d] = tail[d]
        /\ \A d \in Clients : Shaped(tail'[d])
    BY <1>2, <2>1, OneChanges, Zenon
  <2>3. registry' = [closed |-> registry.closed, subs |-> registry.subs \cup {c},
                     ending |-> registry.ending]
    BY <2>1, Zenon DEF RegistryInv
  <2>4. ~registry'.closed /\ registry'.subs = registry.subs \cup {c}
    BY <1>6, <2>3, Zenon
  <2>5. registry' = [closed |-> registry'.closed, subs |-> registry'.subs, ending |-> registry'.ending]
    BY <2>3, Zenon
  <2>7. \A d \in registry'.subs : d \in Clients /\ tail'[d].pc \in {"upgrade", "loop", "writing"}
    <3> SUFFICES ASSUME NEW d \in registry'.subs
                 PROVE  d \in Clients /\ tail'[d].pc \in {"upgrade", "loop", "writing"}
      BY Zenon
    <3>1. CASE d = c
      BY <1>2, <2>2, <3>1, Zenon
    <3>2. CASE d # c
      <4>1. d \in Clients /\ tail[d].pc \in {"upgrade", "loop", "writing"}
        BY <2>4, <3>2, Zenon DEF RegistryInv
      <4> QED
        BY <2>2, <3>2, <4>1, Zenon
    <3> QED
      BY <3>1, <3>2, Zenon
  <2>8. \A d \in broker' : d \in Clients /\ (d \in registry'.subs \/ tail'[d].pc = "register")
    <3> SUFFICES ASSUME NEW d \in broker'
                 PROVE  d \in Clients /\ (d \in registry'.subs \/ tail'[d].pc = "register")
      BY Zenon
    <3>1. d \in Clients /\ (d \in registry.subs \/ tail[d].pc = "register")
      BY <2>1, Zenon DEF RegistryInv
    <3> QED
      BY <2>2, <2>4, <3>1, Zenon
  <2> QED
    BY <2>2, <2>4, <2>5, <2>7, <2>8, Zenon DEF RegistryInv
<1> QED
  BY <1>5, <1>6, Zenon

\* Registry.Close takes the list of what it will end (tail.go 116-128).
LEMMA CloseStep ==
  ASSUME RegistryInv, Close
  PROVE  RegistryInv'
<1>1. registry' = [closed |-> TRUE, subs |-> registry.subs, ending |-> registry.subs]
  BY Zenon DEF RegistryInv, Close
<1>2. registry'.subs = registry.subs /\ registry'.ending = registry.subs
  BY <1>1, Zenon
<1>3. registry' = [closed |-> registry'.closed, subs |-> registry'.subs, ending |-> registry'.ending]
  BY <1>1, Zenon
<1>4. tail' = tail /\ broker' = broker
  BY Zenon DEF Close
<1> QED
  BY <1>2, <1>3, <1>4, Zenon DEF RegistryInv

\* Publish hands records to the broker subscriptions and to nothing else.
LEMMA PublishStep ==
  ASSUME RegistryInv, NEW labels \in LabelSets, Publish(labels)
  PROVE  RegistryInv'
<1>1. broker' = broker /\ registry' = registry
  BY Zenon DEF Publish
<1> DEFINE gets(c) == c \in broker /\ Passes(Filter(query[c]), Subject(labels))
           fed(c) == [tail[c] EXCEPT !.pending = Append(@, Len(published) + 1)]
<1>2. tail' = [c \in Clients |-> IF gets(c) THEN fed(c) ELSE tail[c]]
  BY Zenon DEF Publish
<1>3. \A c \in Clients : Shaped(tail[c])
  BY Zenon DEF RegistryInv
<1>4. \A c \in Clients : Shaped(fed(c)) /\ fed(c).pc = tail[c].pc
  BY <1>3, Zenon DEF Shaped
<1> HIDE DEF gets, fed
<1>5. ASSUME NEW c \in Clients PROVE Shaped(tail'[c]) /\ tail'[c].pc = tail[c].pc
  <2>1. tail'[c] = fed(c) \/ tail'[c] = tail[c]
    BY <1>2, Zenon
  <2> QED
    BY <1>3, <1>4, <2>1, Zenon
<1>6. DOMAIN tail' = Clients /\ tail' = [c \in Clients |-> tail'[c]]
  BY <1>2, Zenon
<1> QED
  BY <1>1, <1>5, <1>6, Zenon DEF RegistryInv

\* The broker's goroutine only moves a record along (deliver, tail.go 193-220).
LEMMA DeliverStep ==
  ASSUME RegistryInv, NEW c \in Clients, Deliver(c)
  PROVE  RegistryInv'
<1> DEFINE rest == [tail[c] EXCEPT !.pending = Tail(@)]
           r == Head(tail[c].pending)
<1>1. Shaped(tail[c])
  BY Zenon DEF RegistryInv
<1>2. Shaped(rest) /\ rest.pc = tail[c].pc
  BY <1>1, Zenon DEF Shaped
<1>3. broker' = broker /\ registry' = registry
  BY Zenon DEF Deliver
<1>4. Set(c, rest) \/ Set(c, Offer(rest, r))
  BY Zenon DEF Deliver
<1> HIDE DEF rest
<1>5. Shaped(Offer(rest, r)) /\ Offer(rest, r).pc = rest.pc
  <2>1. \A v : Shaped([rest EXCEPT !.ch = v]) /\ [rest EXCEPT !.ch = v].pc = rest.pc
    BY <1>2, Zenon DEF Shaped
  <2>2. \A v : Shaped([rest EXCEPT !.dropped = v]) /\ [rest EXCEPT !.dropped = v].pc = rest.pc
    BY <1>2, Zenon DEF Shaped
  <2> QED
    BY <2>1, <2>2, Zenon DEF Offer
<1> QED
  BY <1>2, <1>3, <1>4, <1>5, LocalStep, Zenon

\* The handler's other steps: it writes, pings and notices, or it returns.
LEMMA HandlerStep ==
  ASSUME RegistryInv, NEW c \in Clients,
         \/ EndOne(c) \/ Upgrade(c) \/ PeerGone(c) \/ SubDone(c) \/ Sent(c) \/ SendFails(c)
         \/ Send(c) \/ Ping(c) \/ Pong(c) \/ HangUp(c)
  PROVE  RegistryInv'
<1>1. Shaped(tail[c])
  BY Zenon DEF RegistryInv
<1>2. CASE EndOne(c)
  <2>1. Shaped([tail[c] EXCEPT !.done = TRUE])
    BY <1>1, Zenon DEF Shaped
  <2> QED
    BY <1>2, <2>1, ClosingStep, Zenon DEF EndOne
<1>3. CASE Upgrade(c)
  <2>1. Shaped([tail[c] EXCEPT !.pc = "loop"]) /\ [tail[c] EXCEPT !.pc = "loop"].pc = "loop"
    BY <1>1, Zenon DEF Shaped
  <2>2. CASE Return(c, tail[c])
    BY <1>1, <2>2, ReturnStep, Zenon
  <2>3. CASE Set(c, [tail[c] EXCEPT !.pc = "loop"]) /\ UNCHANGED <<query, broker, registry, published, due>>
    <3>1. tail[c].pc = "upgrade" /\ broker' = broker /\ registry' = registry
      BY <1>3, <2>3, Zenon DEF Upgrade
    <3> QED
      BY <2>1, <2>3, <3>1, LocalStep, Zenon
  <2> QED
    BY <1>3, <2>2, <2>3, Zenon DEF Upgrade
<1>4. CASE PeerGone(c) \/ SubDone(c) \/ SendFails(c)
  BY <1>1, <1>4, FarewellShape, ReturnStep, Zenon DEF PeerGone, SubDone, SendFails
<1>5. CASE Sent(c)
  <2> DEFINE s == [tail[c] EXCEPT !.pc = "loop", !.hand = <<>>, !.sent = Append(@, tail[c].hand[1]),
                                  !.reported = tail[c].hand[2]]
  <2>1. Shaped(s) /\ s.pc = "loop"
    BY <1>1, Zenon DEF Shaped
  <2>2. Set(c, s) /\ tail[c].pc = "writing" /\ broker' = broker /\ registry' = registry
    BY <1>5, Zenon DEF Sent
  <2> HIDE DEF s
  <2> QED
    BY <2>1, <2>2, LocalStep, Zenon
<1>6. CASE Send(c)
  <2> DEFINE s == [tail[c] EXCEPT !.pc = "writing", !.ch = Tail(@),
                                  !.hand = <<Head(tail[c].ch), tail[c].dropped>>]
  <2>1. Shaped(s) /\ s.pc = "writing"
    BY <1>1, Zenon DEF Shaped
  <2>2. Set(c, s) /\ tail[c].pc = "loop" /\ broker' = broker /\ registry' = registry
    BY <1>6, Zenon DEF Send
  <2> HIDE DEF s
  <2> QED
    BY <2>1, <2>2, LocalStep, Zenon
<1>7. CASE Ping(c) \/ Pong(c) \/ HangUp(c)
  <2>1. \A v : /\ Shaped([tail[c] EXCEPT !.pinging = v])
               /\ [tail[c] EXCEPT !.pinging = v].pc = tail[c].pc
    BY <1>1, Zenon DEF Shaped
  <2>2. \A v : /\ Shaped([tail[c] EXCEPT !.peer = v])
               /\ [tail[c] EXCEPT !.peer = v].pc = tail[c].pc
    BY <1>1, Zenon DEF Shaped
  <2>3. ASSUME NEW s, Return(c, s), Shaped(s) PROVE RegistryInv'
    BY <2>3, ReturnStep, Zenon
  <2>4. \/ \E v : Set(c, [tail[c] EXCEPT !.pinging = v]) /\ broker' = broker /\ registry' = registry
        \/ Set(c, [tail[c] EXCEPT !.peer = FALSE]) /\ broker' = broker /\ registry' = registry
        \/ Return(c, Farewell(tail[c])) \/ Return(c, Farewell([tail[c] EXCEPT !.peer = FALSE]))
    BY <1>7, Zenon DEF Ping, Pong, HangUp
  <2> QED
    BY <1>1, <2>1, <2>2, <2>3, <2>4, FarewellShape, LocalStep, Zenon
<1> QED
  BY <1>2, <1>3, <1>4, <1>5, <1>6, <1>7, Zenon

-----------------------------------------------------------------------------
(* The theorems.                                                           *)

\* RegistryInv is inductive.
LEMMA RegistryInvHolds == TailSpec => []RegistryInv
<1>1. TailInit => RegistryInv
  <2> SUFFICES ASSUME TailInit PROVE RegistryInv
    OBVIOUS
  <2>1. tail = [c \in Clients |-> Idle] /\ broker = {}
    BY Zenon DEF TailInit
  <2>2. registry = [closed |-> FALSE, subs |-> {}, ending |-> {}]
    BY Zenon DEF TailInit
  <2>3. registry.subs = {} /\ registry = [closed |-> registry.closed, subs |-> registry.subs,
                                          ending |-> registry.ending]
    BY <2>2, Zenon
  <2>4. Shaped(Idle)
    BY DEF Shaped, Idle
  <2> QED
    BY <2>1, <2>3, <2>4, Zenon DEF RegistryInv
<1>2. RegistryInv /\ [TailNext]_tailVars => RegistryInv'
  <2> SUFFICES ASSUME RegistryInv, [TailNext]_tailVars PROVE RegistryInv'
    OBVIOUS
  <2>1. CASE UNCHANGED tailVars
    BY <2>1, Zenon DEF tailVars, RegistryInv
  <2>2. CASE TailNext
    BY <2>2, SubscribeStep, RegisterStep, CloseStep, PublishStep, DeliverStep, HandlerStep, Zenon
       DEF TailNext, Handler
  <2> QED
    BY <2>1, <2>2
<1> QED
  BY <1>1, <1>2, PTL DEF TailSpec

\* A closed registry keeps nothing: Close has the last word however late a
\* Subscribe comes (tail.go 96-128).
THEOREM ClosedRegistryIsEmpty == TailSpec => []ClosedMeansEnded
<1>1. RegistryInv => ClosedMeansEnded
  BY Zenon DEF RegistryInv, ClosedMeansEnded
<1> QED
  BY <1>1, RegistryInvHolds, PTL

\* A handler that returned has no subscription left, at the broker or in the
\* registry, whichever way it returned (httpapi/tail.go 50-153).
THEOREM HandlersCleanUp == TailSpec => []NothingLeaks
<1>1. RegistryInv => NothingLeaks
  BY DEF RegistryInv, NothingLeaks
<1> QED
  BY <1>1, RegistryInvHolds, PTL

-----------------------------------------------------------------------------
(* What a client is told of.                                               *)

TailRecord ==
  [pc : {"request", "register", "upgrade", "loop", "writing", "ended"},
   pending : Seq(Nat), ch : Seq(Nat), hand : Seq(Nat), sent : Seq(Nat),
   dropped : Nat, reported : Nat, pinging : BOOLEAN, done : BOOLEAN,
   peer : BOOLEAN, told : BOOLEAN]

Rising(s) == \A i, j \in DOMAIN s : i < j => s[i] < s[j]
Before(A, B) == \A x \in A, y \in B : x < y

InHand(t) == IF t.hand = <<>> THEN {} ELSE {t.hand[1]}
There(t) == Range(t.sent) \cup InHand(t) \cup Range(t.ch) \cup Range(t.pending)

\* A record passes from the broker (P) through the buffer (C) and the handler's
\* hand (H) to the client (S), in the order of publication.
InLine(S, H, C, P, n) ==
  /\ S \cup H \cup C \cup P \subseteq 1 .. n
  /\ Before(S, H) /\ Before(S, C) /\ Before(S, P)
  /\ Before(H, C) /\ Before(H, P) /\ Before(C, P)
Ordered(t, n) ==
  /\ Rising(t.sent) /\ Rising(t.ch) /\ Rising(t.pending)
  /\ InLine(Range(t.sent), InHand(t), Range(t.ch), Range(t.pending), n)

\* The due records (of D) that passed the client by: those it does not have
\* (in T), up to the last record it was given, or all while its subscription
\* lives; and those before record x that it was not sent.
Missed(D, T, self, Live) == {r \in D : self \in Live \/ \E x \in T : r <= x} \ T
MissedTo(D, S, x) == {r \in D : r < x} \ S

\* The handler's state and the subscription's.
Stage(t, D, self, Live) ==
  /\ t.pc \in {"request", "register", "upgrade"} => D = {} /\ t.sent = <<>>
  /\ t.pc = "writing" <=> t.hand # <<>>
  /\ t.pc \in {"register", "upgrade", "loop", "writing"} /\ ~t.done => self \in Live

\* Drops are counted, taken into the hand and told with the record after them.
Counted(t, D, self, Live) ==
  /\ t.reported <= t.dropped
  /\ t.pc \in {"loop", "writing"} => Cardinality(Missed(D, There(t), self, Live)) <= t.dropped
  /\ t.hand # <<>> => /\ Len(t.hand) = 2
                      /\ t.hand[2] <= t.dropped /\ t.reported <= t.hand[2]
                      /\ Cardinality(MissedTo(D, Range(t.sent), t.hand[1])) <= t.hand[2]
  /\ t.sent # <<>> => Cardinality(MissedTo(D, Range(t.sent), t.sent[Len(t.sent)])) <= t.reported

Ledger(t, D, n, self, Live) ==
  /\ t \in TailRecord /\ n \in Nat /\ D \subseteq 1 .. n /\ Len(t.ch) <= Buffer
  /\ Ordered(t, n) /\ Stage(t, D, self, Live) /\ Counted(t, D, self, Live)

LedgerInv ==
  /\ DOMAIN due = Clients
  /\ \A c \in Clients : Ledger(tail[c], due[c], Len(published), c, broker)
  /\ \A c \in Clients : \A r \in due[c] : MatchStream(query[c], published[r])
  /\ published \in Seq(LabelSets) /\ query \in [Clients -> Queries]

-----------------------------------------------------------------------------
(* Sequences that rise, and how many records are missed.                   *)

LEMMA RisingTail ==
  ASSUME NEW s \in Seq(Nat), s # <<>>, Rising(s)
  PROVE  /\ Tail(s) \in Seq(Nat) /\ Len(Tail(s)) <= Len(s) /\ Rising(Tail(s)) /\ Head(s) \in Nat
         /\ Range(s) = {Head(s)} \cup Range(Tail(s))
         /\ Before({Head(s)}, Range(Tail(s)))
<1>1. /\ Tail(s) \in Seq(Nat) /\ Len(Tail(s)) = Len(s) - 1 /\ Head(s) \in Nat /\ Head(s) = s[1]
      /\ Len(s) \in Nat /\ DOMAIN s = 1 .. Len(s) /\ DOMAIN Tail(s) = 1 .. (Len(s) - 1)
      /\ \A i \in 1 .. (Len(s) - 1) : Tail(s)[i] = s[i + 1]
      /\ 1 \in DOMAIN s
  OBVIOUS
<1>2. PICK t : t = Tail(s)
  BY Zenon
<1>3. /\ t \in Seq(Nat) /\ DOMAIN t = 1 .. (Len(s) - 1)
      /\ \A i \in DOMAIN t : i + 1 \in DOMAIN s /\ t[i] = s[i + 1]
  BY <1>1, <1>2
<1>4. Rising(t)
  <2> SUFFICES ASSUME NEW i \in DOMAIN t, NEW j \in DOMAIN t, i < j PROVE t[i] < t[j]
    BY Zenon DEF Rising
  <2>1. i + 1 \in DOMAIN s /\ j + 1 \in DOMAIN s /\ i + 1 < j + 1
    BY <1>1, <1>3
  <2> QED
    BY <1>3, <2>1 DEF Rising
<1>5. \A j \in DOMAIN s : j = 1 \/ (j - 1 \in DOMAIN t /\ s[j] = t[j - 1])
  BY <1>1, <1>3
<1>6. Range(s) = {s[1]} \cup Range(t)
  <2>1. \A j \in DOMAIN s : s[j] = s[1] \/ \E i \in DOMAIN t : s[j] = t[i]
    BY <1>5, Zenon
  <2>2. \A i \in DOMAIN t : \E j \in DOMAIN s : t[i] = s[j]
    BY <1>3, Zenon
  <2>3. \A y : y \in Range(s) => y \in {s[1]} \cup Range(t)
    BY <2>1 DEF Range
  <2>4. \A y : y \in Range(t) => y \in Range(s)
    BY <2>2, Zenon DEF Range
  <2>5. s[1] \in Range(s)
    BY <1>1, Zenon DEF Range
  <2> QED
    BY <2>3, <2>4, <2>5, Zenon
<1>7. \A i \in DOMAIN t : s[1] < t[i]
  BY <1>1, <1>3 DEF Rising
<1>8. Before({s[1]}, Range(t))
  BY <1>7, Zenon DEF Before, Range
<1>9. Len(Tail(s)) <= Len(s)
  BY <1>1
<1> QED
  BY <1>1, <1>2, <1>4, <1>6, <1>8, <1>9, Zenon

LEMMA RisingAppend ==
  ASSUME NEW s \in Seq(Nat), NEW x \in Nat, Rising(s), Before(Range(s), {x})
  PROVE  /\ Append(s, x) \in Seq(Nat) /\ Len(Append(s, x)) = Len(s) + 1 /\ Append(s, x) # <<>>
         /\ Append(s, x)[Len(Append(s, x))] = x
         /\ Rising(Append(s, x)) /\ Range(Append(s, x)) = Range(s) \cup {x}
<1>1. PICK t : t = Append(s, x)
  BY Zenon
<1>2. /\ t \in Seq(Nat) /\ Len(t) = Len(s) + 1 /\ t # <<>> /\ t[Len(t)] = x
      /\ DOMAIN s = 1 .. Len(s) /\ DOMAIN t = 1 .. (Len(s) + 1) /\ Len(s) \in Nat
      /\ \A i \in DOMAIN s : t[i] = s[i] /\ i \in DOMAIN t
      /\ Len(t) \in DOMAIN t
  BY <1>1
<1>3. \A i \in DOMAIN t : i \in DOMAIN s \/ i = Len(t)
  BY <1>2
<1>4. \A i \in DOMAIN s : s[i] < x
  BY Zenon DEF Before, Range
<1>5. Rising(t)
  BY <1>2, <1>4 DEF Rising
<1>6. Range(t) = Range(s) \cup {x}
  BY <1>2, <1>3, Zenon DEF Range
<1> QED
  BY <1>1, <1>2, <1>5, <1>6, Zenon

LEMMA RisingConcat ==
  ASSUME NEW s \in Seq(Nat), NEW t \in Seq(Nat), Rising(s), Rising(t), Before(Range(s), Range(t))
  PROVE  /\ s \o t \in Seq(Nat) /\ Rising(s \o t) /\ Range(s \o t) = Range(s) \cup Range(t)
<1>1. PICK u : u = s \o t
  BY Zenon
<1>2. /\ u \in Seq(Nat) /\ Len(u) = Len(s) + Len(t) /\ DOMAIN u = 1 .. (Len(s) + Len(t))
      /\ DOMAIN s = 1 .. Len(s) /\ DOMAIN t = 1 .. Len(t) /\ Len(s) \in Nat /\ Len(t) \in Nat
      /\ \A i \in DOMAIN s : u[i] = s[i] /\ i \in DOMAIN u
      /\ \A i \in DOMAIN t : u[Len(s) + i] = t[i] /\ Len(s) + i \in DOMAIN u
  BY <1>1
<1>3. \A i \in DOMAIN u : i \in DOMAIN s \/ (i - Len(s) \in DOMAIN t /\ u[i] = t[i - Len(s)])
  BY <1>2
<1>4. \A i \in DOMAIN s : \A j \in DOMAIN t : s[i] < t[j]
  BY Zenon DEF Before, Range
<1>5. Rising(u)
  <2> SUFFICES ASSUME NEW i \in DOMAIN u, NEW j \in DOMAIN u, i < j PROVE u[i] < u[j]
    BY Zenon DEF Rising
  <2>1. CASE j \in DOMAIN s
    BY <1>2, <2>1 DEF Rising
  <2>2. CASE i \notin DOMAIN s
    <3>1. i - Len(s) \in DOMAIN t /\ j - Len(s) \in DOMAIN t /\ i - Len(s) < j - Len(s)
      BY <1>2, <2>2
    <3> QED
      BY <1>2, <1>3, <2>2, <3>1 DEF Rising
  <2>3. CASE i \in DOMAIN s /\ j \notin DOMAIN s
    BY <1>2, <1>3, <1>4, <2>3
  <2> QED
    BY <2>1, <2>2, <2>3
<1>6. Range(u) = Range(s) \cup Range(t)
  <2>1. \A i \in DOMAIN u : (\E j \in DOMAIN s : u[i] = s[j]) \/ (\E j \in DOMAIN t : u[i] = t[j])
    BY <1>2, <1>3, Zenon
  <2>2. /\ \A j \in DOMAIN s : \E i \in DOMAIN u : s[j] = u[i]
        /\ \A j \in DOMAIN t : \E i \in DOMAIN u : t[j] = u[i]
    BY <1>2, Zenon
  <2>3. \A y : y \in Range(u) => y \in Range(s) \cup Range(t)
    <3>1. (\A j \in DOMAIN s : s[j] \in Range(s)) /\ (\A j \in DOMAIN t : t[j] \in Range(t))
      BY Zenon DEF Range
    <3>2. \A i \in DOMAIN u : u[i] \in Range(s) \cup Range(t)
      BY <2>1, <3>1, Zenon
    <3> QED
      BY <3>2, Zenon DEF Range
  <2>4. \A y : y \in Range(s) \/ y \in Range(t) => y \in Range(u)
    <3>1. \A i \in DOMAIN u : u[i] \in Range(u)
      BY Zenon DEF Range
    <3>2. (\A j \in DOMAIN s : s[j] \in Range(u)) /\ (\A j \in DOMAIN t : t[j] \in Range(u))
      BY <2>2, <3>1, Zenon
    <3> QED
      BY <3>2, Zenon DEF Range
  <2> QED
    BY <2>3, <2>4, Zenon
<1> QED
  BY <1>1, <1>2, <1>5, <1>6, Zenon

\* A set of records that is part of another, or of it and one more.
LEMMA CountOf ==
  ASSUME NEW n \in Nat, NEW A, NEW B, B \subseteq 1 .. n
  PROVE  /\ IsFiniteSet(B) /\ Cardinality(B) \in Nat
         /\ A \subseteq B => Cardinality(A) \in Nat /\ Cardinality(A) <= Cardinality(B)
         /\ \A x : A \subseteq B \cup {x} => Cardinality(A) \in Nat /\ Cardinality(A) <= Cardinality(B) + 1
<1>1. IsFiniteSet(1 .. n)
  <2>1. 1 \in Int /\ n \in Int
    OBVIOUS
  <2> QED
    BY <2>1, FS_Interval, Zenon
<1>2. IsFiniteSet(B) /\ Cardinality(B) \in Nat
  BY <1>1, FS_Subset, FS_CardinalityType, Zenon
<1>3. ASSUME NEW C, NEW F, IsFiniteSet(F), C \subseteq F
      PROVE  Cardinality(C) \in Nat /\ Cardinality(F) \in Nat /\ Cardinality(C) <= Cardinality(F)
  BY <1>3, FS_Subset, FS_CardinalityType, Zenon
<1>4. ASSUME NEW x, A \subseteq B \cup {x}
      PROVE  Cardinality(A) \in Nat /\ Cardinality(A) <= Cardinality(B) + 1
  <2>1. IsFiniteSet(B \cup {x}) /\ (x \notin B => Cardinality(B \cup {x}) = Cardinality(B) + 1)
    BY <1>2, FS_AddElement, Zenon
  <2>2. x \in B => B \cup {x} = B
    BY Zenon
  <2>3. Cardinality(A) \in Nat /\ Cardinality(B \cup {x}) \in Nat /\ Cardinality(A) <= Cardinality(B \cup {x})
    BY <1>4, <2>1, <1>3, Zenon
  <2>4. CASE x \in B
    <3>1. Cardinality(A) <= Cardinality(B)
      BY <2>2, <2>3, <2>4, Zenon
    <3> QED
      BY <1>2, <2>3, <3>1
  <2>5. CASE x \notin B
    BY <2>1, <2>3, <2>5
  <2> QED
    BY <2>4, <2>5
<1> QED
  BY <1>2, <1>3, <1>4, Zenon

-----------------------------------------------------------------------------
(* What a step of a client does to its ledger.                             *)

SameRecords(u, t) ==
  /\ u.pending = t.pending /\ u.ch = t.ch /\ u.hand = t.hand /\ u.sent = t.sent
  /\ u.dropped = t.dropped /\ u.reported = t.reported

\* Flags and states that leave the records where they are.
LEMMA LedgerStays ==
  ASSUME NEW t, NEW u \in TailRecord, NEW D, NEW n, NEW self, NEW Live, NEW Now,
         Ledger(t, D, n, self, Live), Stage(u, D, self, Now), self \in Now => self \in Live \/ D = {},
         SameRecords(u, t),
         u.pc \in {"loop", "writing"} => t.pc \in {"loop", "writing"} \/ D = {}
  PROVE  Ledger(u, D, n, self, Now)
<1> USE DEF SameRecords
<1>1. There(u) = There(t) /\ InHand(u) = InHand(t) /\ Ordered(u, n)
  BY Zenon DEF There, InHand, Ordered, Ledger
<1>2. Missed(D, There(u), self, Now) \subseteq Missed(D, There(t), self, Live)
  BY <1>1, Zenon DEF Missed
<1>3. PICK A, B : A = Missed(D, There(u), self, Now) /\ B = Missed(D, There(t), self, Live)
  BY Zenon
<1>4. n \in Nat /\ B \subseteq 1 .. n /\ A \subseteq B
  BY <1>2, <1>3, Zenon DEF Missed, Ledger
<1>5. Cardinality(A) \in Nat /\ Cardinality(B) \in Nat /\ Cardinality(A) <= Cardinality(B)
  BY <1>4, CountOf, Zenon
<1>6. ASSUME u.pc \in {"loop", "writing"} PROVE Cardinality(A) <= u.dropped
  <2>1. u.dropped \in Nat
    BY Zenon DEF TailRecord
  <2>2. CASE t.pc \in {"loop", "writing"}
    <3>1. Cardinality(B) <= u.dropped
      BY <1>3, <2>2, Zenon DEF Ledger, Counted
    <3> QED
      BY <1>5, <2>1, <3>1
  <2>3. CASE D = {}
    <3>1. A = {} /\ Cardinality(A) = 0
      BY <1>3, <2>3, FS_EmptySet, Zenon DEF Missed
    <3> QED
      BY <2>1, <3>1
  <2> QED
    BY <1>6, <2>2, <2>3, Zenon
<1>7. Counted(u, D, self, Now)
  BY <1>3, <1>6, Zenon DEF Counted, Ledger
<1> QED
  BY <1>1, <1>7, Zenon DEF Ledger

\* The handler returns: what it had in hand is lost with the connection.
LEMMA LedgerEnds ==
  ASSUME NEW t, NEW u \in TailRecord, NEW D, NEW n, NEW self, NEW Live, NEW Now, self \notin Now,
         Ledger(t, D, n, self, Live), u.pc = "ended", u.hand = <<>>,
         u.pending = t.pending, u.ch = t.ch, u.sent = t.sent,
         u.dropped = t.dropped, u.reported = t.reported
  PROVE  Ledger(u, D, n, self, Now)
<1>1. InHand(u) = {}
  BY Zenon DEF InHand
<1>2. Ordered(u, n)
  <2>1. \A S, H, C, P : InLine(S, H, C, P, n) => InLine(S, {}, C, P, n)
    BY Zenon DEF InLine, Before
  <2> QED
    BY <1>1, <2>1, Zenon DEF Ordered, Ledger
<1>3. Stage(u, D, self, Now)
  BY DEF Stage
<1>4. Counted(u, D, self, Now)
  BY Zenon DEF Counted, Ledger
<1> QED
  BY <1>2, <1>3, <1>4, Zenon DEF Ledger

\* The select takes the first record of the buffer, with the count of drops.
LEMMA LedgerSends ==
  ASSUME NEW t, NEW u \in TailRecord, NEW D, NEW n, NEW self, NEW Live,
         Ledger(t, D, n, self, Live), t.pc = "loop", t.ch # <<>>,
         u.pc = "writing", u.done = t.done, u.pending = t.pending, u.sent = t.sent,
         u.ch = Tail(t.ch), u.hand = <<Head(t.ch), t.dropped>>,
         u.dropped = t.dropped, u.reported = t.reported
  PROVE  Ledger(u, D, n, self, Live)
<1>1. t \in TailRecord /\ n \in Nat /\ D \subseteq 1 .. n /\ Ordered(t, n) /\ Stage(t, D, self, Live) /\ Counted(t, D, self, Live)
  BY Zenon DEF Ledger
<1>2. t.ch \in Seq(Nat) /\ t.dropped \in Nat /\ t.reported \in Nat /\ Rising(t.ch)
  BY <1>1, Zenon DEF TailRecord, Ordered
<1>3. PICK h, c, S, C, P : /\ h = Head(t.ch) /\ c = Tail(t.ch)
                           /\ S = Range(t.sent) /\ C = Range(c) /\ P = Range(t.pending)
  BY Zenon
<1>4. /\ c \in Seq(Nat) /\ Len(c) <= Len(t.ch) /\ Rising(c) /\ h \in Nat
      /\ Range(t.ch) = {h} \cup C /\ Before({h}, C)
  BY <1>2, <1>3, RisingTail, Zenon
<1>5. /\ u.ch = c /\ u.hand = <<h, t.dropped>> /\ u.hand # <<>> /\ u.hand[1] = h /\ u.hand[2] = t.dropped
      /\ Len(u.hand) = 2
  BY <1>3
<1>6. t.hand = <<>>
  BY <1>1, Zenon DEF Stage
<1>7. InHand(t) = {} /\ InHand(u) = {h} /\ There(u) = There(t) /\ There(t) = S \cup {h} \cup C \cup P
  BY <1>3, <1>4, <1>5, <1>6, Zenon DEF InHand, There
<1>8. InLine(S, {h}, C, P, n)
  <2>1. InLine(S, {}, {h} \cup C, P, n)
    BY <1>1, <1>3, <1>4, <1>7, Zenon DEF Ordered
  <2> QED
    BY <2>1, <1>4, Zenon DEF InLine, Before
<1>9. Ordered(u, n)
  BY <1>1, <1>3, <1>4, <1>5, <1>7, <1>8, Zenon DEF Ordered
<1>10. Stage(u, D, self, Live)
  BY <1>1, <1>5 DEF Stage
<1>11. PICK A, B : A = MissedTo(D, S, h) /\ B = Missed(D, There(t), self, Live)
  BY Zenon
<1>12. A \subseteq B
  <2>1. D \subseteq Nat /\ h \in Nat
    BY <1>1, <1>4
  <2>2. ASSUME NEW r \in D, r < h, r \notin S PROVE r \notin There(t) /\ r <= h /\ h \in There(t)
    <3>1. \A y \in {h} \cup C \cup P : y \in Nat /\ h <= y
      BY <1>1, <1>4, <1>8 DEF InLine, Before
    <3> QED
      BY <1>7, <2>1, <2>2, <3>1
  <2> QED
    BY <1>11, <2>2, Zenon DEF Missed, MissedTo
<1>13. B \subseteq 1 .. n
  BY <1>1, <1>11, Zenon DEF Missed
<1>14. Cardinality(A) <= t.dropped
  <2>1. Cardinality(A) \in Nat /\ Cardinality(B) \in Nat /\ Cardinality(A) <= Cardinality(B)
    BY <1>1, <1>12, <1>13, CountOf, Zenon
  <2>2. Cardinality(B) <= t.dropped
    BY <1>1, <1>11, Zenon DEF Counted
  <2> QED
    BY <1>2, <2>1, <2>2
<1>15. t.dropped <= t.dropped
  BY <1>2
<1>16. Counted(u, D, self, Live)
  <2>1. t.reported <= t.dropped /\ Cardinality(B) <= t.dropped
    BY <1>1, <1>11, Zenon DEF Counted
  <2> QED
    BY <1>1, <1>3, <1>5, <1>7, <1>11, <1>14, <1>15, <2>1, Zenon DEF Counted
<1>17. Len(u.ch) <= Buffer
  <2>1. Len(t.ch) <= Buffer /\ Len(t.ch) \in Nat /\ Len(c) \in Nat /\ Buffer \in Nat
    BY <1>2, <1>4, TailAssumption DEF Ledger
  <2> QED
    BY <1>4, <1>5, <2>1
<1> QED
  BY <1>1, <1>9, <1>10, <1>16, <1>17, Zenon DEF Ledger

\* The write succeeds: the client has the record, and the count that covers
\* every due record before it.
LEMMA LedgerSent ==
  ASSUME NEW t, NEW u \in TailRecord, NEW D, NEW n, NEW self, NEW Live,
         Ledger(t, D, n, self, Live), t.pc = "writing",
         u.pc = "loop", u.done = t.done, u.pending = t.pending, u.ch = t.ch, u.hand = <<>>,
         u.sent = Append(t.sent, t.hand[1]), u.reported = t.hand[2], u.dropped = t.dropped
  PROVE  Ledger(u, D, n, self, Live)
<1>1. t \in TailRecord /\ n \in Nat /\ D \subseteq 1 .. n /\ Ordered(t, n) /\ Stage(t, D, self, Live) /\ Counted(t, D, self, Live)
  BY Zenon DEF Ledger
<1>2. t.hand # <<>>
  BY <1>1, Zenon DEF Stage
<1>3. PICK h, s, S, C, P : /\ h = t.hand[1] /\ s = Append(t.sent, h)
                           /\ S = Range(t.sent) /\ C = Range(t.ch) /\ P = Range(t.pending)
  BY Zenon
<1>4. InHand(t) = {h} /\ InHand(u) = {}
  <2>1. InHand(t) = {t.hand[1]}
    BY <1>2, Zenon DEF InHand
  <2>2. InHand(u) = {}
    BY Zenon DEF InHand
  <2> QED
    BY <1>3, <2>1, <2>2, Zenon
<1>5. InLine(S, {h}, C, P, n)
  BY <1>1, <1>3, <1>4, Zenon DEF Ordered
<1>6. t.sent \in Seq(Nat) /\ h \in Nat /\ Rising(t.sent) /\ Before(S, {h})
  <2>1. h \in 1 .. n /\ Before(S, {h})
    BY <1>5, Zenon DEF InLine
  <2>2. t.sent \in Seq(Nat) /\ Rising(t.sent)
    BY <1>1, Zenon DEF TailRecord, Ordered
  <2>3. h \in Nat
    BY <1>1, <2>1
  <2> QED
    BY <2>1, <2>2, <2>3, Zenon
<1>7. /\ s \in Seq(Nat) /\ s # <<>> /\ s[Len(s)] = h
      /\ Rising(s) /\ Range(s) = S \cup {h}
  BY <1>3, <1>6, RisingAppend, Zenon
<1>8. u.sent = s /\ There(u) = There(t)
  BY <1>3, <1>4, <1>7, Zenon DEF There
<1>9. InLine(S \cup {h}, {}, C, P, n)
  BY <1>5, Zenon DEF InLine, Before
<1>10. Ordered(u, n)
  BY <1>1, <1>3, <1>4, <1>7, <1>8, <1>9, Zenon DEF Ordered
<1>11. Stage(u, D, self, Live)
  BY <1>1, <1>2 DEF Stage
<1>12. PICK A, B : A = MissedTo(D, S \cup {h}, h) /\ B = MissedTo(D, S, h)
  BY Zenon
<1>13. A \subseteq B /\ B \subseteq 1 .. n
  BY <1>1, <1>12, Zenon DEF MissedTo
<1>14. Cardinality(A) \in Nat /\ Cardinality(B) \in Nat /\ Cardinality(A) <= Cardinality(B)
  BY <1>1, <1>13, CountOf, Zenon
<1>15. Cardinality(B) <= t.hand[2] /\ t.hand[2] \in Nat /\ t.hand[2] <= t.dropped
  <2>1. Cardinality(B) <= t.hand[2] /\ t.hand[2] <= t.dropped /\ Len(t.hand) = 2
    BY <1>1, <1>2, <1>3, <1>12, Zenon DEF Counted
  <2>2. t.hand \in Seq(Nat)
    BY <1>1, Zenon DEF TailRecord
  <2> QED
    BY <2>1, <2>2
<1>16. Cardinality(A) <= t.hand[2]
  BY <1>14, <1>15
<1>17. Counted(u, D, self, Live)
  BY <1>1, <1>2, <1>7, <1>8, <1>12, <1>15, <1>16, Zenon DEF Counted
<1> QED
  BY <1>10, <1>11, <1>17, Zenon DEF Ledger

\* The next record of the broker's goroutine, which comes after all the client
\* was given.
LEMMA NextPending ==
  ASSUME NEW t, NEW D, NEW n, NEW self, NEW Live, Ledger(t, D, n, self, Live), t.pending # <<>>
  PROVE  LET r == Head(t.pending)
             Q == Range(Tail(t.pending))
         IN  /\ Tail(t.pending) \in Seq(Nat) /\ Rising(Tail(t.pending)) /\ r \in Nat
             /\ Range(t.pending) = {r} \cup Q
             /\ InLine(Range(t.sent), InHand(t), Range(t.ch) \cup {r}, Q, n)
             /\ InLine(Range(t.sent), InHand(t), Range(t.ch), Q, n)
             /\ Before(Range(t.ch), {r})
<1>1. t.pending \in Seq(Nat) /\ Rising(t.pending)
  BY Zenon DEF Ledger, TailRecord, Ordered
<1>2. PICK r, p, Q : r = Head(t.pending) /\ p = Tail(t.pending) /\ Q = Range(p)
  BY Zenon
<1>3. /\ p \in Seq(Nat) /\ Rising(p) /\ r \in Nat
      /\ Range(t.pending) = {r} \cup Q /\ Before({r}, Q)
  BY <1>1, <1>2, RisingTail, Zenon
<1>4. PICK S, H, C : S = Range(t.sent) /\ H = InHand(t) /\ C = Range(t.ch)
  BY Zenon
<1>5. InLine(S, H, C, {r} \cup Q, n)
  BY <1>3, <1>4, Zenon DEF Ledger, Ordered
<1>6. InLine(S, H, C \cup {r}, Q, n) /\ InLine(S, H, C, Q, n) /\ Before(C, {r})
  BY <1>3, <1>5, Zenon DEF InLine, Before
<1> QED
  BY <1>2, <1>3, <1>4, <1>6, Zenon

\* deliver passes over a record that does not match: it was not due.
LEMMA LedgerSkips ==
  ASSUME NEW t, NEW u \in TailRecord, NEW D, NEW n, NEW self, NEW Live,
         Ledger(t, D, n, self, Live), t.pending # <<>>, Head(t.pending) \notin D,
         u.pc = t.pc, u.done = t.done, u.pending = Tail(t.pending), u.ch = t.ch, u.hand = t.hand,
         u.sent = t.sent, u.dropped = t.dropped, u.reported = t.reported
  PROVE  Ledger(u, D, n, self, Live)
<1>1. t \in TailRecord /\ n \in Nat /\ D \subseteq 1 .. n /\ Ordered(t, n) /\ Stage(t, D, self, Live) /\ Counted(t, D, self, Live)
  BY Zenon DEF Ledger
<1>2. PICK r, Q : r = Head(t.pending) /\ Q = Range(Tail(t.pending))
  BY Zenon
<1>3. /\ Rising(Tail(t.pending)) /\ Range(t.pending) = {r} \cup Q
      /\ InLine(Range(t.sent), InHand(t), Range(t.ch), Q, n)
  BY <1>2, NextPending, Zenon
<1>4. InHand(u) = InHand(t) /\ There(t) = There(u) \cup {r}
  BY <1>2, <1>3, Zenon DEF InHand, There
<1>5. Ordered(u, n) /\ Stage(u, D, self, Live)
  BY <1>1, <1>2, <1>3, <1>4, Zenon DEF Ordered, Stage
<1>6. PICK A, B : A = Missed(D, There(u), self, Live) /\ B = Missed(D, There(t), self, Live)
  BY Zenon
<1>7. A \subseteq B /\ B \subseteq 1 .. n
  BY <1>1, <1>2, <1>4, <1>6, Zenon DEF Missed
<1>8. Cardinality(A) \in Nat /\ Cardinality(B) \in Nat /\ Cardinality(A) <= Cardinality(B)
  BY <1>1, <1>7, CountOf, Zenon
<1>9. u.pc \in {"loop", "writing"} => Cardinality(A) <= u.dropped
  <2>1. u.pc \in {"loop", "writing"} => Cardinality(B) <= u.dropped
    BY <1>1, <1>6, Zenon DEF Counted
  <2>2. u.dropped \in Nat
    BY Zenon DEF TailRecord
  <2> QED
    BY <1>8, <2>1, <2>2
<1>10. Counted(u, D, self, Live)
  BY <1>1, <1>6, <1>9, Zenon DEF Counted
<1> QED
  BY <1>1, <1>5, <1>10, Zenon DEF Ledger

\* A match goes into the buffer.
LEMMA LedgerBuffers ==
  ASSUME NEW t, NEW u \in TailRecord, NEW D, NEW n, NEW self, NEW Live,
         Ledger(t, D, n, self, Live), t.pending # <<>>, Len(t.ch) < Buffer,
         u.pc = t.pc, u.done = t.done, u.pending = Tail(t.pending),
         u.ch = Append(t.ch, Head(t.pending)), u.hand = t.hand,
         u.sent = t.sent, u.dropped = t.dropped, u.reported = t.reported
  PROVE  Ledger(u, D, n, self, Live)
<1>1. t \in TailRecord /\ n \in Nat /\ D \subseteq 1 .. n /\ Ordered(t, n) /\ Stage(t, D, self, Live) /\ Counted(t, D, self, Live)
  BY Zenon DEF Ledger
<1>2. PICK r, Q, c, C : /\ r = Head(t.pending) /\ Q = Range(Tail(t.pending))
                        /\ c = Append(t.ch, r) /\ C = Range(t.ch)
  BY Zenon
<1>3. /\ Rising(Tail(t.pending)) /\ Range(t.pending) = {r} \cup Q /\ r \in Nat
      /\ InLine(Range(t.sent), InHand(t), C \cup {r}, Q, n) /\ Before(C, {r})
  BY <1>2, NextPending, Zenon
<1>4. t.ch \in Seq(Nat) /\ Rising(t.ch)
  BY <1>1, Zenon DEF TailRecord, Ordered
<1>5. c \in Seq(Nat) /\ Len(c) = Len(t.ch) + 1 /\ Rising(c) /\ Range(c) = C \cup {r}
  BY <1>2, <1>3, <1>4, RisingAppend, Zenon
<1>6. u.ch = c /\ InHand(u) = InHand(t) /\ There(u) = There(t)
  BY <1>2, <1>3, <1>5, Zenon DEF InHand, There
<1>7. Ordered(u, n) /\ Stage(u, D, self, Live) /\ Counted(u, D, self, Live)
  BY <1>1, <1>2, <1>3, <1>5, <1>6, Zenon DEF Ordered, Stage, Counted
<1>8. Len(u.ch) <= Buffer
  BY <1>4, <1>5, <1>6, TailAssumption
<1> QED
  BY <1>1, <1>7, <1>8, Zenon DEF Ledger

\* Or it is dropped and counted.
LEMMA LedgerDrops ==
  ASSUME NEW t, NEW u \in TailRecord, NEW D, NEW n, NEW self, NEW Live,
         Ledger(t, D, n, self, Live), t.pending # <<>>,
         u.pc = t.pc, u.done = t.done, u.pending = Tail(t.pending),
         u.ch = t.ch, u.hand = t.hand,
         u.sent = t.sent, u.dropped = t.dropped + 1, u.reported = t.reported
  PROVE  Ledger(u, D, n, self, Live)
<1>1. t \in TailRecord /\ n \in Nat /\ D \subseteq 1 .. n /\ Ordered(t, n) /\ Stage(t, D, self, Live) /\ Counted(t, D, self, Live)
  BY Zenon DEF Ledger
<1>2. PICK r, Q : r = Head(t.pending) /\ Q = Range(Tail(t.pending))
  BY Zenon
<1>3. /\ Rising(Tail(t.pending)) /\ Range(t.pending) = {r} \cup Q
      /\ InLine(Range(t.sent), InHand(t), Range(t.ch), Q, n)
  BY <1>2, NextPending, Zenon
<1>4. InHand(u) = InHand(t) /\ There(t) = There(u) \cup {r}
  BY <1>2, <1>3, Zenon DEF InHand, There
<1>5. Ordered(u, n) /\ Stage(u, D, self, Live)
  BY <1>1, <1>2, <1>3, <1>4, Zenon DEF Ordered, Stage
<1>6. PICK A, B : A = Missed(D, There(u), self, Live) /\ B = Missed(D, There(t), self, Live)
  BY Zenon
<1>7. A \subseteq B \cup {r} /\ B \subseteq 1 .. n
  BY <1>1, <1>4, <1>6, Zenon DEF Missed
<1>8. Cardinality(A) \in Nat /\ Cardinality(B) \in Nat /\ Cardinality(A) <= Cardinality(B) + 1
  BY <1>1, <1>7, CountOf, Zenon
<1>9. t.dropped \in Nat /\ t.reported \in Nat /\ t.reported <= t.dropped
  BY <1>1, Zenon DEF TailRecord, Counted
<1>10. u.reported <= u.dropped /\ (u.pc \in {"loop", "writing"} => Cardinality(A) <= u.dropped)
  <2>1. u.pc \in {"loop", "writing"} => Cardinality(B) <= t.dropped
    BY <1>1, <1>6, Zenon DEF Counted
  <2> QED
    BY <1>8, <1>9, <2>1
<1>11. u.hand # <<>> => u.hand[2] <= u.dropped
  <2>1. t.hand # <<>> => Len(t.hand) = 2 /\ t.hand[2] <= t.dropped
    BY <1>1, Zenon DEF Counted
  <2>2. t.hand \in Seq(Nat)
    BY <1>1, Zenon DEF TailRecord
  <2> QED
    BY <1>9, <2>1, <2>2
<1>12. Counted(u, D, self, Live)
  BY <1>1, <1>6, <1>10, <1>11, Zenon DEF Counted
<1> QED
  BY <1>1, <1>5, <1>12, Zenon DEF Ledger

\* A record is published: it is due to the clients it matches from their
\* handshake on, and goes to the broker subscriptions that its subject passes.
LEMMA LedgerPublishes ==
  ASSUME NEW t, NEW u \in TailRecord, NEW D, NEW E, NEW n \in Nat, NEW self, NEW Live,
         Ledger(t, D, n, self, Live),
         u.pc = t.pc, u.done = t.done, u.ch = t.ch, u.hand = t.hand,
         u.sent = t.sent, u.dropped = t.dropped, u.reported = t.reported,
         \/ E = D /\ u.pending = t.pending
         \/ E = D /\ self \in Live /\ u.pending = Append(t.pending, n + 1)
         \/ E = D \cup {n + 1} /\ t.pc \in {"loop", "writing"} /\ self \in Live /\ u.pending = Append(t.pending, n + 1)
         \/ E = D \cup {n + 1} /\ t.pc \in {"loop", "writing"} /\ self \notin Live /\ u.pending = t.pending
  PROVE  Ledger(u, E, n + 1, self, Live)
<1>1. t \in TailRecord /\ D \subseteq 1 .. n /\ Ordered(t, n) /\ Stage(t, D, self, Live) /\ Counted(t, D, self, Live)
  BY Zenon DEF Ledger
<1>2. PICK m : m = n + 1
  BY Zenon
<1>3. m \in Nat /\ n < m /\ m \notin 1 .. n /\ m \in 1 .. m /\ 1 .. n \subseteq 1 .. m /\ \A x \in 1 .. n : x < m /\ ~(m < x) /\ ~(m <= x)
  BY <1>2
<1>4. PICK S, H, C, P : S = Range(t.sent) /\ H = InHand(t) /\ C = Range(t.ch) /\ P = Range(t.pending)
  BY Zenon
<1>5. InLine(S, H, C, P, n) /\ There(t) = S \cup H \cup C \cup P /\ InHand(u) = H
  BY <1>1, <1>4, Zenon DEF Ordered, There, InHand
<1>6. InLine(S, H, C, P, m) /\ InLine(S, H, C, P \cup {m}, m) /\ Before(P, {m})
  <2>1. InLine(S, H, C, P, m)
    BY <1>3, <1>5, Zenon DEF InLine
  <2>2. \A x \in S \cup H \cup C \cup P : x < m
    BY <1>3, <1>5, Zenon DEF InLine
  <2>3. \A A : Before(A, P) /\ (\A x \in A : x < m) => Before(A, P \cup {m})
    BY Zenon DEF Before
  <2>4. Before(S, P \cup {m}) /\ Before(H, P \cup {m}) /\ Before(C, P \cup {m})
    BY <1>5, <2>2, <2>3, Zenon DEF InLine
  <2>5. Before(P, {m})
    BY <2>2, Zenon DEF Before
  <2> QED
    BY <1>3, <2>1, <2>4, <2>5, Zenon DEF InLine
<1>7. t.pending \in Seq(Nat) /\ Rising(t.pending)
  BY <1>1, Zenon DEF TailRecord, Ordered
<1>8. \/ u.pending = t.pending /\ There(u) = There(t)
      \/ u.pending = Append(t.pending, m) /\ Rising(u.pending) /\ Range(u.pending) = P \cup {m} /\ There(u) = There(t) \cup {m}
  <2>1. CASE u.pending = t.pending
    BY <1>4, <1>5, <2>1, Zenon DEF There
  <2>2. CASE u.pending = Append(t.pending, m)
    <3>1. Rising(u.pending) /\ Range(u.pending) = P \cup {m}
      BY <1>3, <1>4, <1>6, <1>7, <2>2, RisingAppend, Zenon
    <3> QED
      BY <1>4, <1>5, <2>2, <3>1, Zenon DEF There
  <2> QED
    BY <1>2, <2>1, <2>2, Zenon
<1>9. Ordered(u, m)
  BY <1>1, <1>4, <1>5, <1>6, <1>8, Zenon DEF Ordered
<1>10. E \subseteq 1 .. m /\ D \subseteq E /\ E \subseteq D \cup {m} /\ (E = D \/ t.pc \in {"loop", "writing"})
  BY <1>1, <1>2, <1>3, Zenon
<1>11. Stage(u, E, self, Live)
  BY <1>1, <1>10 DEF Stage
<1>12. Missed(E, There(u), self, Live) \subseteq Missed(D, There(t), self, Live)
  <2>1. There(t) \subseteq 1 .. n
    BY <1>5, Zenon DEF InLine
  <2>2. CASE E = D /\ u.pending = t.pending
    BY <1>4, <1>5, <2>2, Zenon DEF Missed, There
  <2>3. CASE self \in Live /\ u.pending = Append(t.pending, m)
    <3>1. There(u) = There(t) \cup {m}
      <4>1. u.pending = Append(t.pending, m) /\ Rising(t.pending) /\ Before(Range(t.pending), {m})
        BY <1>4, <1>6, <1>7, <2>3, Zenon
      <4>2. Range(u.pending) = P \cup {m}
        BY <1>3, <1>4, <1>7, <4>1, RisingAppend, Zenon
      <4> QED
        BY <1>4, <1>5, <4>2, Zenon DEF There
    <3> QED
      BY <1>10, <2>3, <3>1, Zenon DEF Missed
  <2>4. CASE self \notin Live /\ u.pending = t.pending
    <3>1. There(u) = There(t)
      BY <1>4, <1>5, <2>4, Zenon DEF There
    <3> QED
      BY <1>3, <1>10, <2>1, <2>4, <3>1, Zenon DEF Missed
  <2> QED
    BY <1>2, <2>2, <2>3, <2>4, Zenon
<1>13. \A x \in 1 .. n : MissedTo(E, S, x) = MissedTo(D, S, x)
  BY <1>3, <1>10, Zenon DEF MissedTo
<1>14. PICK A, B : A = Missed(E, There(u), self, Live) /\ B = Missed(D, There(t), self, Live)
  BY Zenon
<1>15. u.pc \in {"loop", "writing"} => Cardinality(A) <= u.dropped
  <2>1. A \subseteq B /\ B \subseteq 1 .. n
    BY <1>1, <1>12, <1>14, Zenon DEF Missed
  <2>2. Cardinality(A) \in Nat /\ Cardinality(B) \in Nat /\ Cardinality(A) <= Cardinality(B)
    BY <2>1, CountOf, Zenon
  <2>3. u.pc \in {"loop", "writing"} => Cardinality(B) <= u.dropped
    BY <1>1, <1>14, Zenon DEF Counted
  <2>4. u.dropped \in Nat
    BY Zenon DEF TailRecord
  <2> QED
    BY <2>2, <2>3, <2>4
<1>16. t.hand # <<>> => t.hand[1] \in 1 .. n
  BY <1>4, <1>5, Zenon DEF InHand, InLine
<1>17. t.sent # <<>> => t.sent[Len(t.sent)] \in 1 .. n
  <2>1. t.sent \in Seq(Nat)
    BY <1>1, Zenon DEF TailRecord
  <2>2. t.sent # <<>> => Len(t.sent) \in DOMAIN t.sent
    BY <2>1
  <2> QED
    BY <1>4, <1>5, <2>2, Zenon DEF Range, InLine
<1>18. Counted(u, E, self, Live)
  BY <1>1, <1>4, <1>13, <1>14, <1>15, <1>16, <1>17, Zenon DEF Counted
<1> QED
  BY <1>2, <1>3, <1>9, <1>10, <1>11, <1>18, Zenon DEF Ledger

-----------------------------------------------------------------------------
(* Subjects.                                                               *)

\* A set of numbers that is not empty has a smallest one, and a greatest one if
\* it has an upper bound.
LEMMA Extremes ==
  ASSUME NEW S, S \subseteq Nat, S # {}
  PROVE  /\ \E x \in S : \A y \in S : x <= y
         /\ \A b \in Nat : (\A x \in S : x <= b) => \E x \in S : \A y \in S : y <= x
<1>1. ASSUME NEW U, U \subseteq Nat, U # {} PROVE \E x \in U : \A y \in U : x <= y
  <2>1. IsWellFoundedOn({ss \in Nat \X Nat : ss[1] < ss[2]}, Nat)
    BY NatLessThanWellFounded, Zenon DEF OpToRel
  <2>2. PICK x \in U : \A y \in U : ~(<<y, x>> \in {ss \in Nat \X Nat : ss[1] < ss[2]})
    BY <1>1, <2>1, WFMin, Zenon
  <2>3. ASSUME NEW y \in U, y < x PROVE FALSE
    <3>1. <<y, x>> \in Nat \X Nat /\ <<y, x>>[1] < <<y, x>>[2]
      BY <1>1, <2>3
    <3> QED
      BY <2>2, <3>1, Zenon
  <2>4. \A y \in U : x <= y
    BY <1>1, <2>3
  <2> QED
    BY <2>4
<1>2. ASSUME NEW b \in Nat, \A x \in S : x <= b PROVE \E x \in S : \A y \in S : y <= x
  <2> DEFINE U == {u \in Nat : \A x \in S : x <= u}
  <2>1. PICK u \in U : \A v \in U : u <= v
    <3>1. U \subseteq Nat /\ U # {}
      BY <1>2, Zenon
    <3> QED
      BY <1>1, <3>1, Zenon
  <2>2. u \in Nat /\ \A x \in S : x <= u
    BY <2>1
  <2>3. u \in S
    <3> SUFFICES ASSUME u \notin S PROVE FALSE
      OBVIOUS
    <3>1. \A x \in S : x <= u - 1 /\ u - 1 \in Nat
      BY <2>2
    <3>2. PICK m : m = u - 1
      BY Zenon
    <3>3. m \in U
      BY <3>1, <3>2, Zenon
    <3> QED
      BY <3>2, <3>3, <2>1, <2>2
  <2> QED
    BY <2>2, <2>3, Zenon
<1> QED
  BY <1>1, <1>2, Zenon

\* The value pinned for a label is one the selector demands (pinned, tail.go
\* 139-156).
Demanded(q, label, v) == \E i \in DOMAIN q : q[i].label = label /\ q[i].op = "=" /\ v = q[i].value

LEMMA PinnedIs ==
  ASSUME NEW q \in Queries, NEW label
  PROVE  Pinned(q, label) = "" \/ Demanded(q, label, Pinned(q, label))
<1>1. PICK pins : pins = {i \in DOMAIN q : q[i].label = label /\ q[i].op = "="}
  BY Zenon
<1>2. Pinned(q, label) = LastValue(q, pins)
  BY <1>1, Zenon DEF Pinned
<1>3. CASE pins = {}
  BY <1>2, <1>3, Zenon DEF LastValue
<1>4. CASE pins # {}
  <2>1. q \in Seq(Range(q))
    BY TailAssumption, Zenon
  <2>2. Len(q) \in Nat /\ pins \subseteq Nat /\ \A i \in pins : i <= Len(q)
    BY <1>1, <2>1
  <2>3. \E i \in pins : \A j \in pins : j <= i
    BY <1>4, <2>2, Extremes, Zenon
  <2> DEFINE k == CHOOSE i \in pins : \A j \in pins : j <= i
  <2>4. k \in pins
    BY <2>3, Zenon
  <2>5. Pinned(q, label) = q[k].value
    BY <1>2, <1>4, Zenon DEF LastValue
  <2> HIDE DEF k
  <2> QED
    BY <1>1, <2>4, <2>5, Zenon DEF Demanded
<1> QED
  BY <1>3, <1>4, Zenon

\* The filter may over-match but never under-matches (queue.go 82-88).
LEMMA FilterPasses ==
  ASSUME NEW q \in Queries, NEW labels, MatchStream(q, labels)
  PROVE  Passes(Filter(q), Subject(labels))
<1> DEFINE Tok(v) == IF v = "" THEN "*" ELSE Token[v]
<1>1. ASSUME NEW label PROVE Tok(Pinned(q, label)) \in {"*", Token[labels[label]]}
  <2>1. PICK v : v = Pinned(q, label)
    BY Zenon
  <2>2. v = "" \/ Demanded(q, label, v)
    BY <2>1, PinnedIs, Zenon
  <2>3. ASSUME NEW i \in DOMAIN q, q[i].label = label, q[i].op = "=", v = q[i].value
        PROVE  v = labels[label]
    <3>1. (q[i].op = "=") = (labels[q[i].label] = q[i].value)
      BY Zenon DEF MatchStream
    <3> QED
      BY <2>3, <3>1
  <2>4. v = "" \/ v = labels[label]
    BY <2>2, <2>3, Zenon DEF Demanded
  <2>5. Tok(v) \in {"*", Token[labels[label]]}
    BY <2>4, Zenon
  <2> QED
    BY <2>1, <2>5, Zenon
<1>2. PICK a, b : a = Tok(Pinned(q, "env")) /\ b = Tok(Pinned(q, "service"))
  BY Zenon
<1>3. Filter(q) = <<a, b>>
  BY <1>2, Zenon DEF Filter
<1>4. a \in {"*", Token[labels["env"]]} /\ b \in {"*", Token[labels["service"]]}
  BY <1>1, <1>2, Zenon
<1> QED
  BY <1>3, <1>4 DEF Passes, Subject

-----------------------------------------------------------------------------
(* Every step keeps the ledgers.                                           *)

\* The ledger of one client.
LEMMA LedgerOf ==
  ASSUME LedgerInv, NEW c \in Clients
  PROVE  /\ Ledger(tail[c], due[c], Len(published), c, broker)
         /\ tail[c] \in TailRecord /\ Stage(tail[c], due[c], c, broker)
  BY Zenon DEF LedgerInv, Ledger

\* Whether others have a subscription does not matter to a client.
LEMMA LedgerAlone ==
  ASSUME NEW t, NEW D, NEW n, NEW self, NEW Live, NEW Now,
         Ledger(t, D, n, self, Live), self \in Now <=> self \in Live
  PROVE  Ledger(t, D, n, self, Now)
<1>1. t \in TailRecord /\ Stage(t, D, self, Now) /\ SameRecords(t, t)
  BY Zenon DEF Ledger, Stage, SameRecords
<1> QED
  BY <1>1, LedgerStays, Zenon

\* A step of client c, which leaves what is published alone.
LEMMA OneLedger ==
  ASSUME RegistryInv, LedgerInv, NEW c \in Clients, NEW u, Set(c, u),
         query' = query, due' = due, published' = published,
         broker' \in {broker, broker \cup {c}, broker \ {c}},
         Ledger(u, due[c], Len(published), c, broker')
  PROVE  LedgerInv'
<1>1. tail'[c] = u /\ \A d \in Clients \ {c} : tail'[d] = tail[d]
  BY Zenon DEF RegistryInv, Set
<1>2. ASSUME NEW d \in Clients PROVE Ledger(tail'[d], due'[d], Len(published'), d, broker')
  <2>1. CASE d = c
    BY <1>1, <2>1, Zenon
  <2>2. CASE d # c
    <3>1. tail'[d] = tail[d] /\ (d \in broker' <=> d \in broker)
      BY <1>1, <2>2, Zenon
    <3>2. Ledger(tail[d], due[d], Len(published), d, broker)
      BY Zenon DEF LedgerInv
    <3>3. Ledger(tail[d], due[d], Len(published), d, broker')
      BY <3>1, <3>2, LedgerAlone, Zenon
    <3> QED
      BY <3>1, <3>3, Zenon
  <2> QED
    BY <2>1, <2>2, Zenon
<1> QED
  BY <1>2, Zenon DEF LedgerInv

\* A step of client c that moves no record.
LEMMA QuietStep ==
  ASSUME RegistryInv, LedgerInv, NEW c \in Clients, NEW u \in TailRecord, Set(c, u),
         query' = query, due' = due, published' = published,
         broker' \in {broker, broker \cup {c}, broker \ {c}},
         c \in broker' => c \in broker \/ due[c] = {},
         Stage(u, due[c], c, broker'), SameRecords(u, tail[c]),
         u.pc \in {"loop", "writing"} => tail[c].pc \in {"loop", "writing", "upgrade"}
  PROVE  LedgerInv'
<1>1. Ledger(tail[c], due[c], Len(published), c, broker) /\ Stage(tail[c], due[c], c, broker)
  BY LedgerOf, Zenon
<1>2. u.pc \in {"loop", "writing"} => tail[c].pc \in {"loop", "writing"} \/ due[c] = {}
  BY <1>1, Zenon DEF Stage
<1>3. Ledger(u, due[c], Len(published), c, broker')
  BY <1>1, <1>2, LedgerStays, Zenon
<1> QED
  BY <1>3, OneLedger, Zenon

\* A handler that returns.
LEMMA ReturnLedger ==
  ASSUME RegistryInv, LedgerInv, NEW c \in Clients, NEW s \in TailRecord, SameRecords(s, tail[c]),
         Return(c, s)
  PROVE  LedgerInv'
<1>1. Ledger(tail[c], due[c], Len(published), c, broker)
  BY LedgerOf, Zenon
<1>2. PICK u : u = [s EXCEPT !.pc = "ended", !.done = TRUE, !.pinging = FALSE, !.hand = <<>>]
  BY Zenon
<1>3. Set(c, u) /\ query' = query /\ due' = due /\ published' = published /\ broker' = broker \ {c}
  BY <1>2, Zenon DEF Return, CloseSub
<1>4. /\ u.pc = "ended" /\ u.hand = <<>>
      /\ u.pending = s.pending /\ u.ch = s.ch /\ u.sent = s.sent
      /\ u.dropped = s.dropped /\ u.reported = s.reported
  BY <1>2, Zenon DEF TailRecord
<1>5. u \in TailRecord
  <2>1. <<>> \in Seq(Nat)
    OBVIOUS
  <2> QED
    BY <1>2, <2>1, Zenon DEF TailRecord
<1>6. c \notin broker'
  BY <1>3, Zenon
<1>7. Ledger(u, due[c], Len(published), c, broker')
  BY <1>1, <1>4, <1>5, <1>6, LedgerEnds, Zenon DEF SameRecords
<1> QED
  BY <1>3, <1>7, OneLedger, Zenon

\* Moves of the handler.
LEMMA Moves ==
  ASSUME NEW t \in TailRecord, NEW u,
         \/ u = [t EXCEPT !.pc = "register"] \/ u = [t EXCEPT !.pc = "upgrade"]
         \/ u = [t EXCEPT !.pc = "loop"] \/ u = [t EXCEPT !.pc = "ended"]
  PROVE  u \in TailRecord /\ SameRecords(u, t) /\ u.done = t.done
<1>1. CASE u = [t EXCEPT !.pc = "register"]
  BY <1>1, Zenon DEF TailRecord, SameRecords
<1>2. CASE u = [t EXCEPT !.pc = "upgrade"]
  BY <1>2, Zenon DEF TailRecord, SameRecords
<1>3. CASE u = [t EXCEPT !.pc = "loop"]
  BY <1>3, Zenon DEF TailRecord, SameRecords
<1>4. CASE u = [t EXCEPT !.pc = "ended"]
  BY <1>4, Zenon DEF TailRecord, SameRecords
<1> QED
  BY <1>1, <1>2, <1>3, <1>4, Zenon

\* What the handler notes about the connection.
LEMMA Notes ==
  ASSUME NEW t \in TailRecord, NEW b \in BOOLEAN, NEW u,
         \/ u = [t EXCEPT !.done = TRUE] \/ u = [t EXCEPT !.pinging = b]
         \/ u = [t EXCEPT !.peer = b] \/ u = [t EXCEPT !.told = b]
  PROVE  u \in TailRecord /\ SameRecords(u, t) /\ u.pc = t.pc /\ (u.done = t.done \/ u.done)
<1>1. CASE u = [t EXCEPT !.done = TRUE]
  BY <1>1, Zenon DEF TailRecord, SameRecords
<1>2. CASE u = [t EXCEPT !.pinging = b]
  BY <1>2, Zenon DEF TailRecord, SameRecords
<1>3. CASE u = [t EXCEPT !.peer = b]
  BY <1>3, Zenon DEF TailRecord, SameRecords
<1>4. CASE u = [t EXCEPT !.told = b]
  BY <1>4, Zenon DEF TailRecord, SameRecords
<1> QED
  BY <1>1, <1>2, <1>3, <1>4, Zenon

\* A farewell moves no record.
LEMMA Farewells ==
  ASSUME NEW t \in TailRecord
  PROVE  /\ Goodbye(t) \in TailRecord /\ SameRecords(Goodbye(t), t)
         /\ Farewell(t) \in TailRecord /\ SameRecords(Farewell(t), t)
         /\ Farewell([t EXCEPT !.peer = FALSE]) \in TailRecord
         /\ SameRecords(Farewell([t EXCEPT !.peer = FALSE]), t)
<1>1. \A s \in TailRecord : Goodbye(s) \in TailRecord /\ SameRecords(Goodbye(s), s)
  <2> SUFFICES ASSUME NEW s \in TailRecord PROVE Goodbye(s) \in TailRecord /\ SameRecords(Goodbye(s), s)
    BY Zenon
  <2>1. s.peer \in BOOLEAN
    BY Zenon DEF TailRecord
  <2> QED
    BY <2>1, Notes, Zenon DEF Goodbye
<1>2. \A s \in TailRecord : Farewell(s) \in TailRecord /\ SameRecords(Farewell(s), s)
  BY <1>1, Zenon DEF Farewell, SameRecords
<1>3. PICK s : s = [t EXCEPT !.peer = FALSE]
  BY Zenon
<1>4. s \in TailRecord /\ SameRecords(s, t)
  <2>1. FALSE \in BOOLEAN
    BY Zenon
  <2> QED
    BY <1>3, <2>1, Notes, Zenon
<1>5. Farewell(s) \in TailRecord /\ SameRecords(Farewell(s), t)
  BY <1>2, <1>4, Zenon DEF SameRecords
<1> QED
  BY <1>1, <1>2, <1>3, <1>5, Zenon

\* The handler's way to the loop.
LEMMA SubscribeLedger ==
  ASSUME RegistryInv, LedgerInv, NEW c \in Clients, Subscribe(c)
  PROVE  LedgerInv'
<1>1. tail[c] \in TailRecord /\ Stage(tail[c], due[c], c, broker) /\ tail[c].pc = "request"
  BY LedgerOf, Zenon DEF Subscribe
<1>2. due[c] = {} /\ tail[c].sent = <<>> /\ tail[c].hand = <<>>
  BY <1>1 DEF Stage
<1>3. query' = query /\ due' = due /\ published' = published
  BY Zenon DEF Subscribe
<1>4. CASE broker' = broker \cup {c} /\ Set(c, [tail[c] EXCEPT !.pc = "register"])
  <2>1. PICK u : u = [tail[c] EXCEPT !.pc = "register"]
    BY Zenon
  <2>2. u \in TailRecord /\ SameRecords(u, tail[c]) /\ u.pc = "register" /\ Set(c, u) /\ u.done = tail[c].done
    <3>1. u \in TailRecord /\ SameRecords(u, tail[c]) /\ u.done = tail[c].done
      BY <1>1, <2>1, Moves, Zenon
    <3>2. u.pc = "register"
      BY <1>1, <2>1, Zenon DEF TailRecord
    <3> QED
      BY <1>4, <2>1, <3>1, <3>2, Zenon
  <2>3. Stage(u, due[c], c, broker')
    BY <1>2, <1>4, <2>2, Zenon DEF Stage, SameRecords
  <2>4. u.pc \notin {"loop", "writing"}
    BY <2>2, Zenon
  <2> QED
    BY <1>2, <1>3, <1>4, <2>2, <2>3, <2>4, QuietStep, Zenon
<1>5. CASE broker' = broker /\ Set(c, [tail[c] EXCEPT !.pc = "ended"])
  <2>1. PICK u : u = [tail[c] EXCEPT !.pc = "ended"]
    BY Zenon
  <2>2. u \in TailRecord /\ SameRecords(u, tail[c]) /\ u.pc = "ended" /\ Set(c, u) /\ u.done = tail[c].done
    <3>1. u \in TailRecord /\ SameRecords(u, tail[c]) /\ u.done = tail[c].done
      BY <1>1, <2>1, Moves, Zenon
    <3>2. u.pc = "ended"
      BY <1>1, <2>1, Zenon DEF TailRecord
    <3> QED
      BY <1>5, <2>1, <3>1, <3>2, Zenon
  <2>3. Stage(u, due[c], c, broker')
    BY <1>2, <1>5, <2>2, Zenon DEF Stage, SameRecords
  <2>4. u.pc \notin {"loop", "writing"}
    BY <2>2, Zenon
  <2> QED
    BY <1>2, <1>3, <1>5, <2>2, <2>3, <2>4, QuietStep, Zenon
<1> QED
  BY <1>4, <1>5, Zenon DEF Subscribe

LEMMA RegisterLedger ==
  ASSUME RegistryInv, LedgerInv, NEW c \in Clients, Register(c)
  PROVE  LedgerInv'
<1>1. tail[c] \in TailRecord /\ Stage(tail[c], due[c], c, broker) /\ tail[c].pc = "register"
  BY LedgerOf, Zenon DEF Register
<1>2. due[c] = {} /\ tail[c].sent = <<>> /\ tail[c].hand = <<>> /\ (~tail[c].done => c \in broker)
  BY <1>1 DEF Stage
<1>3. query' = query /\ due' = due /\ published' = published
  BY Zenon DEF Register
<1>4. CASE broker' = broker /\ Set(c, [tail[c] EXCEPT !.pc = "upgrade"])
  <2>1. PICK u : u = [tail[c] EXCEPT !.pc = "upgrade"]
    BY Zenon
  <2>2. u \in TailRecord /\ SameRecords(u, tail[c]) /\ u.pc = "upgrade" /\ Set(c, u) /\ u.done = tail[c].done
    <3>1. u \in TailRecord /\ SameRecords(u, tail[c]) /\ u.done = tail[c].done
      BY <1>1, <2>1, Moves, Zenon
    <3>2. u.pc = "upgrade"
      BY <1>1, <2>1, Zenon DEF TailRecord
    <3> QED
      BY <1>4, <2>1, <3>1, <3>2, Zenon
  <2>3. Stage(u, due[c], c, broker')
    BY <1>2, <1>4, <2>2, Zenon DEF Stage, SameRecords
  <2>4. u.pc \notin {"loop", "writing"}
    BY <2>2, Zenon
  <2> QED
    BY <1>2, <1>3, <1>4, <2>2, <2>3, <2>4, QuietStep, Zenon
<1>5. CASE broker' = broker \ {c} /\ Set(c, [tail[c] EXCEPT !.pc = "ended"])
  <2>1. PICK u : u = [tail[c] EXCEPT !.pc = "ended"]
    BY Zenon
  <2>2. u \in TailRecord /\ SameRecords(u, tail[c]) /\ u.pc = "ended" /\ Set(c, u) /\ u.done = tail[c].done
    <3>1. u \in TailRecord /\ SameRecords(u, tail[c]) /\ u.done = tail[c].done
      BY <1>1, <2>1, Moves, Zenon
    <3>2. u.pc = "ended"
      BY <1>1, <2>1, Zenon DEF TailRecord
    <3> QED
      BY <1>5, <2>1, <3>1, <3>2, Zenon
  <2>3. Stage(u, due[c], c, broker')
    BY <1>2, <1>5, <2>2, Zenon DEF Stage, SameRecords
  <2>4. u.pc \notin {"loop", "writing"}
    BY <2>2, Zenon
  <2> QED
    BY <1>2, <1>3, <1>5, <2>2, <2>3, <2>4, QuietStep, Zenon
<1> QED
  BY <1>4, <1>5, Zenon DEF Register

\* The handshake, and what ends the subscription.
LEMMA UpgradeLedger ==
  ASSUME RegistryInv, LedgerInv, NEW c \in Clients, Upgrade(c)
  PROVE  LedgerInv'
<1>1. tail[c] \in TailRecord /\ Stage(tail[c], due[c], c, broker) /\ tail[c].pc = "upgrade"
  BY LedgerOf, Zenon DEF Upgrade
<1>2. CASE /\ Set(c, [tail[c] EXCEPT !.pc = "loop"])
           /\ UNCHANGED <<query, broker, registry, published, due>>
  <2>1. PICK u : u = [tail[c] EXCEPT !.pc = "loop"]
    BY Zenon
  <2>2. u \in TailRecord /\ SameRecords(u, tail[c]) /\ u.done = tail[c].done
    BY <1>1, <2>1, Moves, Zenon
  <2>3. u.pc = "loop"
    BY <1>1, <2>1, Zenon DEF TailRecord
  <2>4. broker' = broker /\ query' = query /\ due' = due /\ published' = published
    BY <1>2, Zenon
  <2>5. Stage(u, due[c], c, broker')
    BY <1>1, <2>2, <2>3, <2>4, Zenon DEF Stage, SameRecords
  <2>6. Set(c, u) /\ tail[c].pc \in {"loop", "writing", "upgrade"}
    BY <1>1, <1>2, <2>1, Zenon
  <2> QED
    BY <2>2, <2>4, <2>5, <2>6, QuietStep, Zenon
<1>3. CASE Return(c, tail[c])
  BY <1>1, <1>3, ReturnLedger, Zenon DEF SameRecords
<1> QED
  BY <1>2, <1>3, Zenon DEF Upgrade

LEMMA EndOneLedger ==
  ASSUME RegistryInv, LedgerInv, NEW c \in Clients, EndOne(c)
  PROVE  LedgerInv'
<1>1. tail[c] \in TailRecord /\ Stage(tail[c], due[c], c, broker)
  BY LedgerOf, Zenon
<1>2. PICK u : u = [tail[c] EXCEPT !.done = TRUE]
  BY Zenon
<1>3. u \in TailRecord /\ SameRecords(u, tail[c]) /\ u.pc = tail[c].pc
  BY <1>1, <1>2, Notes, Zenon
<1>4. u.done
  BY <1>1, <1>2, Zenon DEF TailRecord
<1>5. broker' = broker \ {c} /\ query' = query /\ due' = due /\ published' = published /\ Set(c, u)
  BY <1>2, Zenon DEF EndOne, CloseSub
<1>6. Stage(u, due[c], c, broker')
  BY <1>1, <1>3, <1>4, Zenon DEF Stage, SameRecords
<1>7. c \notin broker'
  BY <1>5, Zenon
<1>8. u.pc \in {"loop", "writing"} => tail[c].pc \in {"loop", "writing", "upgrade"}
  BY <1>3, Zenon
<1> QED
  BY <1>3, <1>5, <1>6, <1>7, <1>8, QuietStep, Zenon

\* A note about the connection moves no record.
LEMMA NoteLedger ==
  ASSUME RegistryInv, LedgerInv, NEW c \in Clients, NEW u,
         \/ u = [tail[c] EXCEPT !.pinging = TRUE] \/ u = [tail[c] EXCEPT !.pinging = FALSE]
         \/ u = [tail[c] EXCEPT !.peer = FALSE],
         Set(c, u), broker' = broker, query' = query, due' = due, published' = published
  PROVE  LedgerInv'
<1>1. tail[c] \in TailRecord /\ Stage(tail[c], due[c], c, broker)
  BY LedgerOf, Zenon
<1>2. u \in TailRecord /\ SameRecords(u, tail[c]) /\ u.pc = tail[c].pc
  <2>1. TRUE \in BOOLEAN /\ FALSE \in BOOLEAN
    BY Zenon
  <2>2. CASE u = [tail[c] EXCEPT !.pinging = TRUE]
    BY <1>1, <2>1, <2>2, Notes, Zenon
  <2>3. CASE u = [tail[c] EXCEPT !.pinging = FALSE]
    BY <1>1, <2>1, <2>3, Notes, Zenon
  <2>4. CASE u = [tail[c] EXCEPT !.peer = FALSE]
    BY <1>1, <2>1, <2>4, Notes, Zenon
  <2> QED
    BY <2>2, <2>3, <2>4, Zenon
<1>3. u.done = tail[c].done
  BY <1>1, Zenon DEF TailRecord
<1>4. Stage(u, due[c], c, broker')
  BY <1>1, <1>2, <1>3, Zenon DEF Stage, SameRecords
<1>5. u.pc \in {"loop", "writing"} => tail[c].pc \in {"loop", "writing", "upgrade"}
  BY <1>2, Zenon
<1> QED
  BY <1>2, <1>4, <1>5, QuietStep, Zenon

\* The steps of the handler that move no record.
LEMMA HandlerLedger ==
  ASSUME RegistryInv, LedgerInv, NEW c \in Clients,
         PeerGone(c) \/ SubDone(c) \/ SendFails(c) \/ Ping(c) \/ Pong(c) \/ HangUp(c)
  PROVE  LedgerInv'
<1>1. tail[c] \in TailRecord
  BY LedgerOf, Zenon
<1>2. ASSUME NEW s, Return(c, s),
             \/ s = tail[c] \/ s = Goodbye(tail[c]) \/ s = Farewell(tail[c])
             \/ s = Farewell([tail[c] EXCEPT !.peer = FALSE])
      PROVE  LedgerInv'
  <2>1. SameRecords(tail[c], tail[c])
    BY Zenon DEF SameRecords
  <2>2. s \in TailRecord /\ SameRecords(s, tail[c])
    BY <1>1, <1>2, <2>1, Farewells, Zenon
  <2> QED
    BY <1>2, <2>2, ReturnLedger, Zenon
<1>4. CASE PeerGone(c)
  BY <1>2, <1>4, Zenon DEF PeerGone
<1>5. CASE SubDone(c)
  BY <1>2, <1>5, Zenon DEF SubDone
<1>6. CASE SendFails(c)
  BY <1>2, <1>6, Zenon DEF SendFails
<1>7. CASE Ping(c)
  BY <1>7, NoteLedger, Zenon DEF Ping
<1>8. CASE Pong(c)
  <2>1. CASE Set(c, [tail[c] EXCEPT !.pinging = FALSE]) /\ UNCHANGED <<query, broker, registry, published, due>>
    BY <2>1, NoteLedger, Zenon
  <2>2. CASE Return(c, Farewell(tail[c]))
    BY <1>2, <2>2, Zenon
  <2>3. CASE Return(c, Farewell([tail[c] EXCEPT !.peer = FALSE]))
    BY <1>2, <2>3, Zenon
  <2> QED
    BY <1>8, <2>1, <2>2, <2>3, Zenon DEF Pong
<1>9. CASE HangUp(c)
  BY <1>9, NoteLedger, Zenon DEF HangUp
<1> QED
  BY <1>4, <1>5, <1>6, <1>7, <1>8, <1>9, Zenon

\* The handler takes a record and writes it.
LEMMA SendLedger ==
  ASSUME RegistryInv, LedgerInv, NEW c \in Clients, Send(c)
  PROVE  LedgerInv'
<1>1. /\ Ledger(tail[c], due[c], Len(published), c, broker) /\ tail[c] \in TailRecord
      /\ tail[c].pc = "loop" /\ tail[c].ch # <<>>
  BY LedgerOf, Zenon DEF Send
<1>2. PICK ch, hand, u : /\ ch = Tail(tail[c].ch) /\ hand = <<Head(tail[c].ch), tail[c].dropped>>
                         /\ u = [tail[c] EXCEPT !.pc = "writing", !.ch = ch, !.hand = hand]
  BY Zenon
<1>3. ch \in Seq(Nat) /\ hand \in Seq(Nat)
  <2>1. tail[c].ch \in Seq(Nat) /\ tail[c].dropped \in Nat
    BY <1>1, Zenon DEF TailRecord
  <2> QED
    BY <1>1, <1>2, <2>1
<1>4. /\ u.pc = "writing" /\ u.done = tail[c].done /\ u.pending = tail[c].pending
      /\ u.sent = tail[c].sent /\ u.ch = ch /\ u.hand = hand
      /\ u.dropped = tail[c].dropped /\ u.reported = tail[c].reported
  BY <1>1, <1>2, Zenon DEF TailRecord
<1>5. u \in TailRecord
  BY <1>1, <1>2, <1>3, Zenon DEF TailRecord
<1>6. Ledger(u, due[c], Len(published), c, broker)
  BY <1>1, <1>2, <1>4, <1>5, LedgerSends, Zenon
<1>7. Set(c, u) /\ broker' = broker /\ query' = query /\ due' = due /\ published' = published
  BY <1>2, Zenon DEF Send
<1> QED
  BY <1>6, <1>7, OneLedger, Zenon

LEMMA SentLedger ==
  ASSUME RegistryInv, LedgerInv, NEW c \in Clients, Sent(c)
  PROVE  LedgerInv'
<1>1. /\ Ledger(tail[c], due[c], Len(published), c, broker) /\ tail[c] \in TailRecord
      /\ tail[c].pc = "writing"
  BY LedgerOf, Zenon DEF Sent
<1>2. PICK told, sent, hand, u : /\ told = tail[c].hand[2] /\ sent = Append(tail[c].sent, tail[c].hand[1])
                           /\ hand = <<>>
                           /\ u = [tail[c] EXCEPT !.pc = "loop", !.hand = hand, !.sent = sent, !.reported = told]
  BY Zenon
<1>3. told \in Nat /\ sent \in Seq(Nat) /\ hand \in Seq(Nat)
  <2>1. tail[c].hand \in Seq(Nat) /\ tail[c].sent \in Seq(Nat)
    BY <1>1, Zenon DEF TailRecord
  <2>2. Len(tail[c].hand) = 2
    BY <1>1, Zenon DEF Ledger, Stage, Counted
  <2> QED
    BY <1>2, <2>1, <2>2
<1>4. /\ u.pc = "loop" /\ u.done = tail[c].done /\ u.pending = tail[c].pending
      /\ u.sent = sent /\ u.ch = tail[c].ch /\ u.hand = hand
      /\ u.dropped = tail[c].dropped /\ u.reported = told
  BY <1>1, <1>2, Zenon DEF TailRecord
<1>5. u \in TailRecord
  BY <1>1, <1>2, <1>3, Zenon DEF TailRecord
<1>6. Ledger(u, due[c], Len(published), c, broker)
  BY <1>1, <1>2, <1>4, <1>5, LedgerSent, Zenon
<1>7. Set(c, u) /\ broker' = broker /\ query' = query /\ due' = due /\ published' = published
  BY <1>2, Zenon DEF Sent
<1> QED
  BY <1>6, <1>7, OneLedger, Zenon

\* The broker's goroutine delivers.
LEMMA DeliverLedger ==
  ASSUME RegistryInv, LedgerInv, NEW c \in Clients, Deliver(c)
  PROVE  LedgerInv'
<1>1. /\ Ledger(tail[c], due[c], Len(published), c, broker) /\ tail[c] \in TailRecord
      /\ tail[c].pending # <<>>
  BY LedgerOf, Zenon DEF Deliver
<1>2. PICK r, p, rest : r = Head(tail[c].pending) /\ p = Tail(tail[c].pending)
                        /\ rest = [tail[c] EXCEPT !.pending = p]
  BY Zenon
<1>3. p \in Seq(Nat) /\ r \in Nat
  <2>1. tail[c].pending \in Seq(Nat)
    BY <1>1, Zenon DEF TailRecord
  <2> QED
    BY <1>1, <1>2, <2>1
<1>4. rest \in TailRecord
  BY <1>1, <1>2, <1>3, Zenon DEF TailRecord
<1>5. /\ rest.pc = tail[c].pc /\ rest.done = tail[c].done /\ rest.pending = p
      /\ rest.sent = tail[c].sent /\ rest.ch = tail[c].ch /\ rest.hand = tail[c].hand
      /\ rest.dropped = tail[c].dropped /\ rest.reported = tail[c].reported
  BY <1>1, <1>2, Zenon DEF TailRecord
<1>6. broker' = broker /\ query' = query /\ due' = due /\ published' = published
  BY Zenon DEF Deliver
<1>7. CASE ~MatchStream(query[c], published[r])
  <2>1. r \notin due[c]
    BY <1>7, Zenon DEF LedgerInv
  <2>2. Ledger(rest, due[c], Len(published), c, broker)
    BY <1>1, <1>2, <1>4, <1>5, <2>1, LedgerSkips, Zenon
  <2>3. Set(c, rest)
    BY <1>2, <1>7, Zenon DEF Deliver
  <2> QED
    BY <1>6, <2>2, <2>3, OneLedger, Zenon
<1>8. CASE MatchStream(query[c], published[r])
  <2>1. Set(c, Offer(rest, r))
    BY <1>2, <1>8, Zenon DEF Deliver
  <2>2. CASE Len(rest.ch) < Buffer
    <3>1. PICK ch, u : ch = Append(rest.ch, r) /\ u = [rest EXCEPT !.ch = ch]
      BY Zenon
    <3>2. ch \in Seq(Nat)
      <4>1. rest.ch \in Seq(Nat)
        BY <1>4, Zenon DEF TailRecord
      <4> QED
        BY <1>3, <3>1, <4>1
    <3>3. u \in TailRecord
      BY <1>4, <3>1, <3>2, Zenon DEF TailRecord
    <3>4. /\ u.pc = rest.pc /\ u.done = rest.done /\ u.pending = p
          /\ u.sent = rest.sent /\ u.ch = ch /\ u.hand = rest.hand
          /\ u.dropped = rest.dropped /\ u.reported = rest.reported
      BY <1>4, <1>5, <3>1, Zenon DEF TailRecord
    <3>5. ch = Append(tail[c].ch, Head(tail[c].pending)) /\ Len(tail[c].ch) < Buffer
      BY <1>2, <1>5, <2>2, <3>1, Zenon
    <3>6. Ledger(u, due[c], Len(published), c, broker)
      BY <1>1, <1>2, <1>5, <3>3, <3>4, <3>5, LedgerBuffers, Zenon
    <3>7. Set(c, u)
      BY <2>1, <2>2, <3>1, Zenon DEF Offer
    <3> QED
      BY <1>6, <3>6, <3>7, OneLedger, Zenon
  <2>3. CASE ~(Len(rest.ch) < Buffer)
    <3>1. PICK d, u : d = rest.dropped + 1 /\ u = [rest EXCEPT !.dropped = d]
      BY Zenon
    <3>2. d \in Nat
      <4>1. rest.dropped \in Nat
        BY <1>4, Zenon DEF TailRecord
      <4> QED
        BY <3>1, <4>1
    <3>3. u \in TailRecord
      BY <1>4, <3>1, <3>2, Zenon DEF TailRecord
    <3>4. /\ u.pc = rest.pc /\ u.done = rest.done /\ u.pending = p
          /\ u.sent = rest.sent /\ u.ch = rest.ch /\ u.hand = rest.hand
          /\ u.dropped = d /\ u.reported = rest.reported
      BY <1>4, <1>5, <3>1, Zenon DEF TailRecord
    <3>5. d = tail[c].dropped + 1
      BY <1>5, <3>1, Zenon
    <3>6. Ledger(u, due[c], Len(published), c, broker)
      BY <1>1, <1>2, <1>5, <3>3, <3>4, <3>5, LedgerDrops, Zenon
    <3>7. Set(c, u)
      BY <2>1, <2>3, <3>1, Zenon DEF Offer
    <3> QED
      BY <1>6, <3>6, <3>7, OneLedger, Zenon
  <2> QED
    BY <2>2, <2>3, Zenon
<1> QED
  BY <1>7, <1>8, Zenon

\* A record is published.
LEMMA PublishLedger ==
  ASSUME RegistryInv, LedgerInv, NEW labels \in LabelSets, Publish(labels)
  PROVE  LedgerInv'
<1>1. PICK n, r : n = Len(published) /\ r = n + 1
  BY Zenon
<1>2. published \in Seq(LabelSets) /\ DOMAIN due = Clients
  BY Zenon DEF LedgerInv
<1>3. n \in Nat /\ r \in Nat /\ r \notin 1 .. n
  BY <1>1, <1>2
<1>4. published' = Append(published, labels) /\ query' = query /\ broker' = broker
  BY Zenon DEF Publish
<1>5. /\ published' \in Seq(LabelSets) /\ Len(published') = n + 1 /\ published'[r] = labels
      /\ \A i \in 1 .. n : published'[i] = published[i]
  BY <1>1, <1>2, <1>4
<1>6. tail' = [c \in Clients |-> IF c \in broker /\ Passes(Filter(query[c]), Subject(labels))
                                 THEN [tail[c] EXCEPT !.pending = Append(@, r)] ELSE tail[c]]
  BY <1>1, Zenon DEF Publish
<1>7. due' = [c \in Clients |-> IF tail[c].pc \in {"loop", "writing"} /\ MatchStream(query[c], labels)
                                THEN due[c] \cup {r} ELSE due[c]]
  BY <1>1, Zenon DEF Publish
<1>8. ASSUME NEW c \in Clients PROVE Ledger(tail'[c], due'[c], n + 1, c, broker)
  <2>1. Ledger(tail[c], due[c], n, c, broker) /\ tail[c] \in TailRecord /\ tail[c].pending \in Seq(Nat)
    BY <1>1, LedgerOf, Zenon DEF TailRecord
  <2>2. PICK t, D, E, p, fed : /\ t = tail[c] /\ D = due[c] /\ E = due'[c] /\ p = Append(t.pending, r)
                               /\ fed = [t EXCEPT !.pending = p]
    BY Zenon
  <2>3. p \in Seq(Nat)
    BY <1>3, <2>1, <2>2
  <2>4. t \in TailRecord /\ Ledger(t, D, n, c, broker)
    BY <2>1, <2>2, Zenon
  <2>5. fed \in TailRecord
    BY <2>2, <2>3, <2>4, Zenon DEF TailRecord
  <2>6. /\ fed.pc = t.pc /\ fed.done = t.done /\ fed.ch = t.ch /\ fed.hand = t.hand
        /\ fed.sent = t.sent /\ fed.dropped = t.dropped /\ fed.reported = t.reported /\ fed.pending = p
    BY <2>2, <2>4, Zenon DEF TailRecord
  <2>7. query[c] \in Queries
    BY Zenon DEF LedgerInv
  <2>8. CASE c \in broker /\ Passes(Filter(query[c]), Subject(labels))
    <3>1. tail'[c] = fed
      BY <1>6, <2>2, <2>8, Zenon
    <3>2. E = D \/ (E = D \cup {r} /\ t.pc \in {"loop", "writing"})
      BY <1>7, <2>2, Zenon
    <3>3. fed.pending = Append(t.pending, n + 1) /\ r = n + 1 /\ c \in broker
      BY <1>1, <2>2, <2>6, <2>8, Zenon
    <3>4. ASSUME E = D PROVE Ledger(fed, E, n + 1, c, broker)
      BY <1>3, <2>4, <2>5, <2>6, <3>3, <3>4, LedgerPublishes, Zenon
    <3>5. ASSUME E = D \cup {r}, t.pc \in {"loop", "writing"} PROVE Ledger(fed, E, n + 1, c, broker)
      <4>1. E = D \cup {n + 1} /\ t.pc \in {"loop", "writing"} /\ c \in broker /\ fed.pending = Append(t.pending, n + 1)
        BY <3>3, <3>5, Zenon
      <4> QED
        BY <1>3, <2>4, <2>5, <2>6, <4>1, LedgerPublishes, Zenon
    <3> QED
      BY <2>2, <3>1, <3>2, <3>4, <3>5, Zenon
  <2>9. CASE ~(c \in broker /\ Passes(Filter(query[c]), Subject(labels)))
    <3>1. tail'[c] = t
      BY <1>6, <2>2, <2>9, Zenon
    <3>2. MatchStream(query[c], labels) => c \notin broker
      BY <2>7, <2>9, FilterPasses, Zenon
    <3>3. E = D \/ (E = D \cup {r} /\ t.pc \in {"loop", "writing"} /\ c \notin broker)
      BY <1>7, <2>2, <3>2, Zenon
    <3>4. Ledger(t, E, n + 1, c, broker)
      BY <1>1, <1>3, <2>4, <3>3, LedgerPublishes, Zenon
    <3> QED
      BY <2>2, <3>1, <3>4, Zenon
  <2> QED
    BY <2>8, <2>9, Zenon
<1>9. ASSUME NEW c \in Clients, NEW x \in due'[c] PROVE MatchStream(query'[c], published'[x])
  <2>1. due[c] \subseteq 1 .. n
    BY <1>1, LedgerOf, Zenon DEF Ledger
  <2>2. CASE x \in due[c]
    BY <1>4, <1>5, <2>1, <2>2, Zenon DEF LedgerInv
  <2>3. CASE x \notin due[c]
    <3>1. x = r /\ MatchStream(query[c], labels)
      BY <1>7, <1>9, <2>3, Zenon
    <3> QED
      BY <1>4, <1>5, <3>1, Zenon
  <2> QED
    BY <2>2, <2>3, Zenon
<1>10. DOMAIN due' = Clients
  BY <1>7, Zenon
<1>11. \A c \in Clients : Ledger(tail'[c], due'[c], Len(published'), c, broker')
  BY <1>4, <1>5, <1>8, Zenon
<1> QED
  BY <1>4, <1>5, <1>9, <1>10, <1>11, Zenon DEF LedgerInv

\* An unchanged ledger, as when the registry closes.
LEMMA LedgerUnchanged ==
  ASSUME LedgerInv, query' = query, tail' = tail, broker' = broker, published' = published, due' = due
  PROVE  LedgerInv'
  BY Zenon DEF LedgerInv

LEMMA InitLedger ==
  ASSUME TailInit
  PROVE  LedgerInv
<1>1. tail = [c \in Clients |-> Idle] /\ due = [c \in Clients |-> {}] /\ published = <<>>
  BY Zenon DEF TailInit
<1>2. PICK t, D, n : t = Idle /\ D = {} /\ n = 0
  BY Zenon
<1>3. t \in TailRecord
  BY <1>2 DEF Idle, TailRecord
<1>4. /\ t.pc = "request" /\ t.sent = <<>> /\ t.hand = <<>> /\ t.ch = <<>> /\ t.pending = <<>>
      /\ t.dropped = 0 /\ t.reported = 0
  BY <1>2 DEF Idle
<1>5. Range(t.sent) = {} /\ Range(t.ch) = {} /\ Range(t.pending) = {} /\ InHand(t) = {}
  BY <1>4 DEF Range, InHand
<1>6. Rising(t.sent) /\ Rising(t.ch) /\ Rising(t.pending)
  BY <1>4 DEF Rising
<1>7. InLine({}, {}, {}, {}, n)
  BY Zenon DEF InLine, Before
<1>8. Ordered(t, n)
  BY <1>5, <1>6, <1>7, Zenon DEF Ordered
<1>9. n \in Nat /\ D \subseteq 1 .. n /\ Len(t.ch) <= Buffer
  BY <1>2, <1>4, TailAssumption
<1>10. t.reported <= t.dropped
  BY <1>4
<1>11. ASSUME NEW c \in Clients PROVE Ledger(t, D, n, c, broker)
  <2>1. Stage(t, D, c, broker)
    BY <1>2, <1>4, Zenon DEF Stage
  <2>2. Counted(t, D, c, broker)
    BY <1>4, <1>10, Zenon DEF Counted
  <2> QED
    BY <1>3, <1>8, <1>9, <2>1, <2>2, Zenon DEF Ledger
<1>12. Len(published) = n /\ published \in Seq(LabelSets)
  BY <1>1, <1>2
<1>13. DOMAIN due = Clients /\ \A c \in Clients : tail[c] = t /\ due[c] = D /\ due[c] = {}
  BY <1>1, <1>2, Zenon
<1>14. \A c \in Clients : Ledger(tail[c], due[c], Len(published), c, broker)
  BY <1>11, <1>12, <1>13, Zenon
<1> QED
  BY <1>12, <1>13, <1>14, Zenon DEF LedgerInv, TailInit

-----------------------------------------------------------------------------
(* What the ledgers say to a client.                                       *)

\* The records on their way, as one sequence.
LEMMA TheWholeLine ==
  ASSUME NEW t, NEW D, NEW n, NEW self, NEW Live, Ledger(t, D, n, self, Live), NEW h,
         h = IF t.hand = <<>> THEN <<>> ELSE <<t.hand[1]>>
  PROVE  /\ Rising(t.sent \o h \o t.ch \o t.pending)
         /\ Range(t.sent \o h \o t.ch \o t.pending) = There(t)
<1>1. /\ t.sent \in Seq(Nat) /\ t.ch \in Seq(Nat) /\ t.pending \in Seq(Nat) /\ t.hand \in Seq(Nat)
      /\ Rising(t.sent) /\ Rising(t.ch) /\ Rising(t.pending)
      /\ InLine(Range(t.sent), InHand(t), Range(t.ch), Range(t.pending), n)
  BY Zenon DEF Ledger, TailRecord, Ordered
<1>2. h \in Seq(Nat) /\ Rising(h) /\ Range(h) = InHand(t)
  <2>1. CASE t.hand = <<>>
    <3>1. h = <<>> /\ InHand(t) = {}
      BY <2>1, Zenon DEF InHand
    <3> QED
      BY <3>1 DEF Rising, Range
  <2>2. CASE t.hand # <<>>
    <3>1. PICK x : x = t.hand[1]
      BY Zenon
    <3>2. x \in Nat
      BY <1>1, <2>2, <3>1
    <3>3. h = <<x>> /\ InHand(t) = {x}
      BY <2>2, <3>1, Zenon DEF InHand
    <3>4. h \in Seq(Nat) /\ DOMAIN h = {1} /\ h[1] = x
      BY <3>2, <3>3
    <3>5. Rising(h)
      BY <3>4 DEF Rising
    <3>6. Range(h) = {x}
      BY <3>4, Zenon DEF Range
    <3> QED
      BY <3>3, <3>4, <3>5, <3>6, Zenon
  <2> QED
    BY <2>1, <2>2, Zenon
<1>3. PICK S, H, C, P : S = Range(t.sent) /\ H = Range(h) /\ C = Range(t.ch) /\ P = Range(t.pending)
  BY Zenon
<1>4. Before(S, H) /\ Before(S \cup H, C) /\ Before((S \cup H) \cup C, P)
  <2>1. InLine(S, H, C, P, n)
    BY <1>1, <1>2, <1>3, Zenon
  <2> QED
    BY <2>1, Zenon DEF InLine, Before
<1>5. PICK a : a = t.sent \o h
  BY Zenon
<1>6. a \in Seq(Nat) /\ Rising(a) /\ Range(a) = S \cup H
  BY <1>1, <1>2, <1>3, <1>4, <1>5, RisingConcat, Zenon
<1>7. PICK b : b = a \o t.ch
  BY Zenon
<1>8. b \in Seq(Nat) /\ Rising(b) /\ Range(b) = (S \cup H) \cup C
  <2>1. Before(Range(a), Range(t.ch))
    BY <1>3, <1>4, <1>6, Zenon
  <2>2. b \in Seq(Nat) /\ Rising(b) /\ Range(b) = Range(a) \cup Range(t.ch)
    BY <1>1, <1>6, <1>7, <2>1, RisingConcat, Zenon
  <2> QED
    BY <1>3, <1>6, <2>2, Zenon
<1>9. PICK w : w = b \o t.pending
  BY Zenon
<1>10. Rising(w) /\ Range(w) = ((S \cup H) \cup C) \cup P
  <2>1. Before(Range(b), Range(t.pending))
    BY <1>3, <1>4, <1>8, Zenon
  <2>2. Rising(w) /\ Range(w) = Range(b) \cup Range(t.pending)
    BY <1>1, <1>8, <1>9, <2>1, RisingConcat, Zenon
  <2> QED
    BY <1>3, <1>8, <2>2, Zenon
<1>11. Range(w) = There(t)
  BY <1>2, <1>3, <1>10, Zenon DEF There
<1> QED
  BY <1>5, <1>7, <1>9, <1>10, <1>11, Zenon

\* Up to and including a record the client was sent, what it missed is what it
\* missed before it.
LEMMA MissedUpTo ==
  ASSUME NEW D, NEW s \in Seq(Nat), s # <<>>, D \subseteq Nat
  PROVE  {r \in D : r <= s[Len(s)]} \ Range(s) = MissedTo(D, Range(s), s[Len(s)])
<1>1. PICK x, S : x = s[Len(s)] /\ S = Range(s)
  BY Zenon
<1>2. x \in Nat /\ Len(s) \in DOMAIN s
  BY <1>1
<1>3. x \in S
  BY <1>1, <1>2, Zenon DEF Range
<1>4. \A r \in Nat : r # x => (r <= x <=> r < x)
  BY <1>2
<1>5. \A r \in Nat : r < x => r <= x
  BY <1>2
<1>6. {r \in D : r <= x} \ S = {r \in D : r < x} \ S
  BY <1>3, <1>4, Zenon
<1> QED
  BY <1>1, <1>6, Zenon DEF MissedTo

LEMMA LedgersAccount ==
  ASSUME RegistryInv, LedgerInv
  PROVE  TailAccountsForAll
<1>1. ASSUME NEW c \in Clients
      PROVE  /\ tail[c].pc \in {"request", "register", "upgrade", "loop", "writing", "ended"}
             /\ Len(tail[c].ch) <= Buffer
             /\ tail[c].reported \in 0 .. tail[c].dropped
  <2>1. PICK t : t = tail[c]
    BY Zenon
  <2>2. t \in TailRecord /\ Len(t.ch) <= Buffer /\ t.reported <= t.dropped
    BY <2>1, LedgerOf, Zenon DEF Ledger, Counted
  <2>3. t.reported \in Nat /\ t.dropped \in Nat /\ t.pc \in {"request", "register", "upgrade", "loop", "writing", "ended"}
    BY <2>2, Zenon DEF TailRecord
  <2>4. t.reported \in 0 .. t.dropped
    BY <2>2, <2>3
  <2> QED
    BY <2>1, <2>2, <2>3, <2>4, Zenon
<1>2. TailTypeOK
  BY <1>1, Zenon DEF TailTypeOK, RegistryInv
<1>3. ASSUME NEW c \in Clients, tail[c].pc \in {"loop", "writing"}, ~tail[c].done, NEW h, NEW w,
             h = IF tail[c].hand = <<>> THEN <<>> ELSE <<tail[c].hand[1]>>,
             w = tail[c].sent \o h \o tail[c].ch \o tail[c].pending
      PROVE  Cardinality(due[c] \ Range(w)) <= tail[c].dropped /\ Rising(w)
  <2>1. Ledger(tail[c], due[c], Len(published), c, broker)
    BY LedgerOf, Zenon
  <2>2. Rising(w) /\ Range(w) = There(tail[c])
    BY <1>3, <2>1, TheWholeLine, Zenon
  <2>3. c \in broker /\ Cardinality(Missed(due[c], There(tail[c]), c, broker)) <= tail[c].dropped
    BY <1>3, <2>1, Zenon DEF Ledger, Stage, Counted
  <2>4. Missed(due[c], There(tail[c]), c, broker) = due[c] \ There(tail[c])
    BY <2>3, Zenon DEF Missed
  <2> QED
    BY <2>2, <2>3, <2>4, Zenon
<1>4. HandshakeHolds
  BY <1>3, Zenon DEF HandshakeHolds, Rising
<1>5. ASSUME NEW c \in Clients, tail[c].sent # <<>>
      PROVE  Cardinality({r \in due[c] : r <= tail[c].sent[Len(tail[c].sent)]} \ Range(tail[c].sent))
               <= tail[c].reported
  <2>1. PICK s, D, n : s = tail[c].sent /\ D = due[c] /\ n = Len(published)
    BY Zenon
  <2>2. /\ s \in Seq(Nat) /\ D \subseteq 1 .. n
        /\ Cardinality(MissedTo(D, Range(s), s[Len(s)])) <= tail[c].reported
    BY <1>5, <2>1, LedgerOf, Zenon DEF Ledger, TailRecord, Counted
  <2>3. D \subseteq Nat
    BY <2>2
  <2>4. {r \in D : r <= s[Len(s)]} \ Range(s) = MissedTo(D, Range(s), s[Len(s)])
    BY <1>5, <2>1, <2>2, <2>3, MissedUpTo, Zenon
  <2> QED
    BY <2>1, <2>2, <2>4, Zenon
<1>6. GapsAreReported
  BY <1>5, Zenon DEF GapsAreReported
<1> QED
  BY <1>2, <1>4, <1>6, Zenon DEF TailAccountsForAll

LEMMA LedgerStep ==
  ASSUME RegistryInv, LedgerInv, [TailNext]_tailVars
  PROVE  LedgerInv'
<1>1. ASSUME NEW c \in Clients, Deliver(c) PROVE LedgerInv'
  BY <1>1, DeliverLedger, Zenon
<1>2. ASSUME NEW c \in Clients, EndOne(c) PROVE LedgerInv'
  BY <1>2, EndOneLedger, Zenon
<1>3. ASSUME NEW c \in Clients, Handler(c) PROVE LedgerInv'
  BY <1>3, SubscribeLedger, RegisterLedger, UpgradeLedger, HandlerLedger, SentLedger, Zenon DEF Handler
<1>4. ASSUME NEW c \in Clients, Send(c) PROVE LedgerInv'
  BY <1>4, SendLedger, Zenon
<1>5. ASSUME NEW c \in Clients, Ping(c) \/ Pong(c) \/ HangUp(c) PROVE LedgerInv'
  BY <1>5, HandlerLedger, Zenon
<1>6. CASE Close
  BY <1>6, LedgerUnchanged, Zenon DEF Close
<1>7. ASSUME NEW labels \in LabelSets, Publish(labels) PROVE LedgerInv'
  BY <1>7, PublishLedger, Zenon
<1>8. CASE UNCHANGED tailVars
  BY <1>8, LedgerUnchanged, Zenon DEF tailVars
<1> QED
  BY <1>1, <1>2, <1>3, <1>4, <1>5, <1>6, <1>7, <1>8, Zenon DEF TailNext

-----------------------------------------------------------------------------
(* Goodbyes.                                                               *)

\* A step by c leaves the other handlers where they are.
LEMMA OneMoves ==
  ASSUME RegistryInv, NEW c \in Clients, NEW u, Set(c, u)
  PROVE  tail'[c] = u /\ \A d \in Clients \ {c} : tail'[d] = tail[d]
  BY Zenon DEF RegistryInv, Set

\* What is said of one client.
Told(c) ==
  tail[c].pc \in {"loop", "writing"} /\ tail[c].done /\ tail'[c].pc = "ended" /\ tail'[c].peer
    => tail'[c].told

LEMMA StaysUntold ==
  ASSUME RegistryInv, NEW c \in Clients, NEW u, Set(c, u), u.pc # "ended" \/ tail[c].pc = "request" \/ tail[c].pc = "register" \/ tail[c].pc = "ended"
  PROVE  Announced
<1>1. \A d \in Clients \ {c} : tail'[d] = tail[d]
  BY OneMoves, Zenon
<1>2. tail'[c] = u
  BY OneMoves, Zenon
<1>3. ASSUME NEW d \in Clients PROVE Told(d)
  <2>1. CASE d = c
    BY <1>2, <2>1, Zenon DEF Told
  <2>2. CASE d # c
    <3>1. tail'[d] = tail[d]
      BY <1>1, <2>2, Zenon
    <3> QED
      BY <3>1, Zenon DEF Told
  <2> QED
    BY <2>1, <2>2, Zenon
<1> QED
  BY <1>3, Zenon DEF Announced, Told

LEMMA ReturnsTold ==
  ASSUME RegistryInv, NEW c \in Clients, NEW s \in TailRecord, Return(c, s),
         \/ tail[c].pc = "upgrade" \/ ~s.peer \/ s.told
  PROVE  Announced
<1>1. PICK u : u = [s EXCEPT !.pc = "ended", !.done = TRUE, !.pinging = FALSE, !.hand = <<>>]
  BY Zenon
<1>2. Set(c, u)
  BY <1>1, Zenon DEF Return
<1>3. u.peer = s.peer /\ u.told = s.told
  BY <1>1, Zenon DEF TailRecord
<1>4. \A d \in Clients \ {c} : tail'[d] = tail[d]
  BY <1>2, OneMoves, Zenon
<1>5. tail'[c] = u
  BY <1>2, OneMoves, Zenon
<1>6. ASSUME NEW d \in Clients PROVE Told(d)
  <2>1. CASE d = c
    BY <1>3, <1>5, <2>1, Zenon DEF Told
  <2>2. CASE d # c
    <3>1. tail'[d] = tail[d]
      BY <1>4, <2>2, Zenon
    <3> QED
      BY <3>1, Zenon DEF Told
  <2> QED
    BY <2>1, <2>2, Zenon
<1> QED
  BY <1>6, Zenon DEF Announced, Told

LEMMA GoodbyeTold ==
  ASSUME NEW t \in TailRecord
  PROVE  /\ ~Goodbye(t).peer \/ Goodbye(t).told
         /\ t.done => ~Farewell(t).peer \/ Farewell(t).told
         /\ ~Farewell([t EXCEPT !.peer = FALSE]).peer
<1>1. \A s \in TailRecord : Goodbye(s).peer = s.peer /\ Goodbye(s).told = s.peer
  BY Zenon DEF Goodbye, TailRecord
<1>2. t.done => Farewell(t) = Goodbye(t)
  BY Zenon DEF Farewell
<1>3. PICK s : s = [t EXCEPT !.peer = FALSE]
  BY Zenon
<1>4. s \in TailRecord /\ ~s.peer
  BY <1>3, Zenon DEF TailRecord
<1>5. ~Farewell(s).peer
  BY <1>1, <1>4, Zenon DEF Farewell
<1> QED
  BY <1>1, <1>2, <1>3, <1>5, Zenon

LEMMA AnnouncedStep ==
  ASSUME RegistryInv, LedgerInv, [TailNext]_tailVars
  PROVE  Announced
<1>1. \A c \in Clients : tail[c] \in TailRecord
  BY LedgerOf, Zenon
<1>2. ASSUME NEW c \in Clients, Deliver(c) PROVE Announced
  <2>1. PICK r, rest : r = Head(tail[c].pending) /\ rest = [tail[c] EXCEPT !.pending = Tail(@)]
    BY Zenon
  <2>2. rest.pc = tail[c].pc /\ Offer(rest, r).pc = tail[c].pc
    <3>1. tail[c] \in TailRecord
      BY <1>1, Zenon
    <3>2. rest.pc = tail[c].pc /\ DOMAIN rest = DOMAIN tail[c] /\ "pc" \in DOMAIN tail[c]
      BY <2>1, <3>1, Zenon DEF TailRecord
    <3>3. [rest EXCEPT !.ch = Append(@, r)].pc = rest.pc /\ [rest EXCEPT !.dropped = @ + 1].pc = rest.pc
      BY <3>2, Zenon
    <3> QED
      BY <3>2, <3>3, Zenon DEF Offer
  <2>3. PICK u : Set(c, u) /\ u.pc = tail[c].pc
    BY <1>2, <2>1, <2>2, Zenon DEF Deliver
  <2>4. CASE tail[c].pc = "ended"
    BY <2>3, <2>4, StaysUntold, Zenon
  <2>5. CASE tail[c].pc # "ended"
    BY <2>3, <2>5, StaysUntold, Zenon
  <2> QED
    BY <2>4, <2>5, Zenon
<1>3. ASSUME NEW c \in Clients, EndOne(c) \/ Ping(c) \/ HangUp(c) PROVE Announced
  <2>1. tail[c] \in TailRecord
    BY <1>1, Zenon
  <2>2. /\ [tail[c] EXCEPT !.done = TRUE].pc = tail[c].pc
        /\ [tail[c] EXCEPT !.pinging = TRUE].pc = tail[c].pc
        /\ [tail[c] EXCEPT !.peer = FALSE].pc = tail[c].pc
    BY <2>1, Zenon DEF TailRecord
  <2>3. PICK u : Set(c, u) /\ u.pc = tail[c].pc
    BY <1>3, <2>2, Zenon DEF EndOne, Ping, HangUp
  <2>4. CASE tail[c].pc = "ended"
    BY <2>3, <2>4, StaysUntold, Zenon
  <2>5. CASE tail[c].pc # "ended"
    BY <2>3, <2>5, StaysUntold, Zenon
  <2> QED
    BY <2>4, <2>5, Zenon
<1>4. ASSUME NEW c \in Clients, Subscribe(c) \/ Register(c) PROVE Announced
  <2>1. PICK u : Set(c, u)
    BY <1>4, Zenon DEF Subscribe, Register
  <2>2. tail[c].pc = "request" \/ tail[c].pc = "register"
    BY <1>4, Zenon DEF Subscribe, Register
  <2> QED
    BY <2>1, <2>2, StaysUntold, Zenon
<1>5. ASSUME NEW c \in Clients, Upgrade(c) PROVE Announced
  <2>1. tail[c] \in TailRecord /\ tail[c].pc = "upgrade"
    BY <1>1, <1>5, Zenon DEF Upgrade
  <2>2. CASE Set(c, [tail[c] EXCEPT !.pc = "loop"])
    <3>1. [tail[c] EXCEPT !.pc = "loop"].pc # "ended"
      BY <2>1, Zenon DEF TailRecord
    <3> QED
      BY <2>2, <3>1, StaysUntold, Zenon
  <2>3. CASE Return(c, tail[c])
    BY <2>1, <2>3, ReturnsTold, Zenon
  <2> QED
    BY <1>5, <2>2, <2>3, Zenon DEF Upgrade
<1>6. ASSUME NEW c \in Clients, PeerGone(c) PROVE Announced
  BY <1>1, <1>6, ReturnsTold, Zenon DEF PeerGone
<1>7. ASSUME NEW c \in Clients, SubDone(c) PROVE Announced
  <2>1. Goodbye(tail[c]) \in TailRecord /\ (~Goodbye(tail[c]).peer \/ Goodbye(tail[c]).told)
    BY <1>1, Farewells, GoodbyeTold, Zenon
  <2> QED
    BY <1>7, <2>1, ReturnsTold, Zenon DEF SubDone
<1>8. ASSUME NEW c \in Clients, Send(c) \/ Sent(c) PROVE Announced
  <2>1. tail[c] \in TailRecord
    BY <1>1, Zenon
  <2>2. /\ [tail[c] EXCEPT !.pc = "writing", !.ch = Tail(@), !.hand = <<Head(tail[c].ch), tail[c].dropped>>].pc = "writing"
        /\ [tail[c] EXCEPT !.pc = "loop", !.hand = <<>>, !.sent = Append(@, tail[c].hand[1]),
                           !.reported = tail[c].hand[2]].pc = "loop"
    BY <2>1, Zenon DEF TailRecord
  <2>3. PICK u : Set(c, u) /\ u.pc \in {"loop", "writing"}
    BY <1>8, <2>2, Zenon DEF Send, Sent
  <2>4. u.pc # "ended"
    BY <2>3, Zenon
  <2> QED
    BY <2>3, <2>4, StaysUntold, Zenon
<1>9. ASSUME NEW c \in Clients, SendFails(c) \/ Pong(c) PROVE Announced
  <2>1. tail[c] \in TailRecord
    BY <1>1, Zenon
  <2>2. ASSUME tail[c].done, Return(c, Farewell(tail[c])) PROVE Announced
    <3>1. Farewell(tail[c]) \in TailRecord /\ (~Farewell(tail[c]).peer \/ Farewell(tail[c]).told)
      BY <2>1, <2>2, Farewells, GoodbyeTold, Zenon
    <3> QED
      BY <2>2, <3>1, ReturnsTold, Zenon
  <2>3. ASSUME Return(c, Farewell([tail[c] EXCEPT !.peer = FALSE])) PROVE Announced
    <3>1. PICK s : s = Farewell([tail[c] EXCEPT !.peer = FALSE])
      BY Zenon
    <3>2. s \in TailRecord /\ ~s.peer /\ Return(c, s)
      BY <2>1, <2>3, <3>1, Farewells, GoodbyeTold, Zenon
    <3> QED
      BY <3>2, ReturnsTold, Zenon
  <2>4. ASSUME tail[c].pc = "loop", Set(c, [tail[c] EXCEPT !.pinging = FALSE]) PROVE Announced
    <3>1. [tail[c] EXCEPT !.pinging = FALSE].pc # "ended"
      BY <2>1, <2>4, Zenon DEF TailRecord
    <3> QED
      BY <2>4, <3>1, StaysUntold, Zenon
  <2> QED
    BY <1>9, <2>2, <2>3, <2>4, Zenon DEF SendFails, Pong
<1>10. ASSUME tail' = tail PROVE Announced
  BY <1>10, Zenon DEF Announced
<1>11. ASSUME NEW labels \in LabelSets, Publish(labels) PROVE Announced
  <2>1. ASSUME NEW c \in Clients PROVE tail'[c].pc = tail[c].pc
    <3>1. tail[c] \in TailRecord
      BY <1>1, Zenon
    <3>2. \A p : [tail[c] EXCEPT !.pending = p].pc = tail[c].pc
      BY <3>1, Zenon DEF TailRecord
    <3>3. \/ tail'[c] = tail[c]
          \/ tail'[c] = [tail[c] EXCEPT !.pending = Append(@, Len(published) + 1)]
      BY <1>11, Zenon DEF Publish
    <3> QED
      BY <3>2, <3>3, Zenon
  <2> QED
    BY <2>1, Zenon DEF Announced
<1> QED
  BY <1>2, <1>3, <1>4, <1>5, <1>6, <1>7, <1>8, <1>9, <1>10, <1>11, Zenon
     DEF TailNext, Handler, Close, tailVars

\* LedgerInv is inductive, on top of RegistryInv.
LEMMA LedgerInvHolds == TailSpec => []LedgerInv
<1>1. TailInit => LedgerInv
  BY InitLedger, Zenon
<1>2. RegistryInv /\ LedgerInv /\ [TailNext]_tailVars => LedgerInv'
  BY LedgerStep, Zenon
<1> QED
  BY <1>1, <1>2, RegistryInvHolds, PTL DEF TailSpec

\* A client can account for every matching record published since its handshake,
\* in order: it was sent, is on its way, or is in a drop count the client is told
\* with the next record it gets, however deliveries, writes, drops and the end of
\* the subscription interleave (httpapi/tail.go 40-153, tail.go 189-220, and the
\* subjects of queue.go 82-88, which never under-match).
THEOREM ClientsAccountForAll == TailSpec => []TailAccountsForAll
<1>1. RegistryInv /\ LedgerInv => TailAccountsForAll
  BY LedgersAccount, Zenon
<1> QED
  BY <1>1, RegistryInvHolds, LedgerInvHolds, PTL

\* A client still there when the server shuts down gets the close frame before
\* its handler returns, whether the handler was idle, writing or waiting for a
\* pong (SubDone and goodbye, httpapi/tail.go 121-164).
THEOREM ClientsAreTold == TailSpec => ShutdownIsAnnounced
<1>1. RegistryInv /\ LedgerInv /\ [TailNext]_tailVars => [Announced]_tailVars
  BY AnnouncedStep, Zenon
<1> QED
  BY <1>1, RegistryInvHolds, LedgerInvHolds, PTL DEF TailSpec, ShutdownIsAnnounced

=============================================================================
