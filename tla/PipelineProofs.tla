--------------------------- MODULE PipelineProofs ---------------------------
(***************************************************************************)
(* The agent's pipeline, for any number of sources, any input, any         *)
(* capacity and any number of faults.                                      *)
(*                                                                         *)
(* ChannelsSafe: no goroutine sends on a channel that was closed under it. *)
(* A channel is closed only behind the last goroutine that sends on it,    *)
(* which Senders says and every action keeps.                              *)
(*                                                                         *)
(* RecordsWhole and HonestStop rest on one inductive invariant, PipeInv.   *)
(* Its heart is Flow: read from the shipper back to the source, what a     *)
(* source has emitted lies in the pipe as consecutive runs of its lines,   *)
(* whole records first and single lines behind them, each run beginning    *)
(* where the one before it ends.  The lemmas about runs say what taking    *)
(* from one and adding to the next does to them.                           *)
(***************************************************************************)
EXTENDS Pipeline, TLAPS

USE SMTT(30)

\* The joiner's record has its fields.
Shape == joiner = [pc |-> joiner.pc, held |-> joiner.held, outq |-> joiner.outq]

\* Whoever could send on a closed channel has returned.
Senders ==
  /\ ~panic
  /\ "lines" \in closed => \A s \in Sources : src[s].pc = "done"
  /\ "toJoiner" \in closed => relay = "done"
  /\ "joined" \in closed => joiner.pc = "done"
  /\ joiner.pc = "done" => joiner.outq = <<>>

ChannelInv == Shape /\ Senders

-----------------------------------------------------------------------------
(* What a record says of its lines, and how the lines of a source are      *)
(* spread over the pipe.                                                   *)

LineIn == {l \in Line : l.n <= Len(Input[l.src])}

\* A record covers the lines it says, within both limits.
Whole(r) ==
  /\ r \in Record /\ r.start <= r.offset /\ r.offset <= Len(Input[r.src])
  /\ r.lines = r.offset - r.start + 1
  /\ \A n \in (r.start + 1) .. r.offset : setup.joining /\ Input[r.src][n].cont
  /\ IsJoinedLen(r.len, r.src, r.start, r.offset)
  /\ r.len <= MaxMessageLen /\ r.lines <= MaxLines
WholeRecord == {r \in Record : Whole(r)}

\* The lines of s in q are those after a up to b, in order; mark is the last
\* one among the first i elements.
LineRun(q, s, a, b) ==
  \E mark \in [0 .. Len(q) -> Nat] :
    /\ mark[0] = a /\ mark[Len(q)] = b
    /\ \A i \in 1 .. Len(q) :
         IF q[i].src = s THEN q[i].n = mark[i - 1] + 1 /\ mark[i] = q[i].n
                         ELSE mark[i] = mark[i - 1]

\* The same of a sequence of records.
RecordRun(q, s, a, b) ==
  \E mark \in [0 .. Len(q) -> Nat] :
    /\ mark[0] = a /\ mark[Len(q)] = b
    /\ \A i \in 1 .. Len(q) :
         IF q[i].src = s THEN q[i].start = mark[i - 1] + 1 /\ mark[i] = q[i].offset
                         ELSE mark[i] = mark[i - 1]

HeldRun(held, s, a, b) ==
  IF s \in DOMAIN held THEN held[s].start = a + 1 /\ b = held[s].offset ELSE b = a

\* An empty channel holds no line.
LEMMA LineEmpty ==
  ASSUME NEW s, NEW a \in Nat, NEW b \in Nat
  PROVE  LineRun(<<>>, s, a, b) <=> a = b
<1>1. ASSUME a = b PROVE LineRun(<<>>, s, a, b)
  <2> DEFINE m == [i \in 0 .. 0 |-> a]
  <2>1. m \in [0 .. Len(<<>>) -> Nat] /\ m[0] = a /\ m[Len(<<>>)] = b
    BY <1>1
  <2>2. ASSUME NEW i \in 1 .. Len(<<>>) PROVE FALSE
    OBVIOUS
  <2> HIDE DEF m
  <2> QED
    BY <2>1, <2>2, Zenon DEF LineRun
<1>2. LineRun(<<>>, s, a, b) => a = b
  BY DEF LineRun
<1> QED
  BY <1>1, <1>2

\* A send puts a line at the end of the run of its source.
LEMMA LineAppend ==
  ASSUME NEW S, NEW q \in Seq(S), NEW x \in S, NEW s, NEW a \in Nat, NEW b \in Nat,
         LineRun(q, s, a, b)
  PROVE  /\ x.src # s => LineRun(Append(q, x), s, a, b)
         /\ x.src = s /\ x.n = b + 1 => LineRun(Append(q, x), s, a, b + 1)
<1>1. PICK mark \in [0 .. Len(q) -> Nat] :
        /\ mark[0] = a /\ mark[Len(q)] = b
        /\ \A i \in 1 .. Len(q) :
             IF q[i].src = s THEN q[i].n = mark[i - 1] + 1 /\ mark[i] = q[i].n
                             ELSE mark[i] = mark[i - 1]
  BY DEF LineRun
<1> DEFINE p == Append(q, x)
<1>2. /\ Len(p) = Len(q) + 1 /\ p[Len(q) + 1] = x /\ Len(q) \in Nat
      /\ \A i \in 1 .. Len(q) : p[i] = q[i]
  OBVIOUS
<1>3. ASSUME NEW z \in Nat, IF x.src = s THEN x.n = b + 1 /\ z = x.n ELSE z = b
      PROVE  LineRun(p, s, a, z)
  <2> DEFINE m == [i \in 0 .. Len(q) + 1 |-> IF i = Len(q) + 1 THEN z ELSE mark[i]]
  <2>1. m \in [0 .. Len(p) -> Nat] /\ m[0] = a /\ m[Len(p)] = z
    BY <1>1, <1>2
  <2>2. ASSUME NEW i \in 1 .. Len(p)
        PROVE  IF p[i].src = s THEN p[i].n = m[i - 1] + 1 /\ m[i] = p[i].n ELSE m[i] = m[i - 1]
    <3>1. CASE i = Len(q) + 1
      <4>1. p[i] = x /\ m[i] = z /\ m[i - 1] = b
        BY <1>1, <1>2, <3>1
      <4> QED
        BY <1>3, <4>1
    <3>2. CASE i # Len(q) + 1
      <4>1. i \in 1 .. Len(q) /\ p[i] = q[i] /\ m[i] = mark[i] /\ m[i - 1] = mark[i - 1]
        BY <1>2, <3>2
      <4> QED
        BY <1>1, <4>1
    <3> QED
      BY <3>1, <3>2
  <2> HIDE DEF m, p
  <2> QED
    BY <2>1, <2>2, Zenon DEF LineRun
<1>4. x.src # s => LineRun(p, s, a, b)
  BY <1>3
<1>5. x.src = s /\ x.n = b + 1 => LineRun(p, s, a, b + 1)
  <2>1. b + 1 \in Nat
    OBVIOUS
  <2> QED
    BY <1>3, <2>1
<1> QED
  BY <1>4, <1>5, Zenon

\* A receive takes the first line of the run of its source.
LEMMA LineTail ==
  ASSUME NEW S, NEW q \in Seq(S), q # <<>>, NEW s, NEW a \in Nat, NEW b \in Nat,
         LineRun(q, s, a, b)
  PROVE  IF Head(q).src = s THEN Head(q).n = a + 1 /\ LineRun(Tail(q), s, a + 1, b)
                            ELSE LineRun(Tail(q), s, a, b)
<1>1. PICK mark \in [0 .. Len(q) -> Nat] :
        /\ mark[0] = a /\ mark[Len(q)] = b
        /\ \A i \in 1 .. Len(q) :
             IF q[i].src = s THEN q[i].n = mark[i - 1] + 1 /\ mark[i] = q[i].n
                             ELSE mark[i] = mark[i - 1]
  BY DEF LineRun
<1> DEFINE p == Tail(q)
           m == [i \in 0 .. Len(q) - 1 |-> mark[i + 1]]
<1>2. /\ Len(q) \in Nat /\ Len(q) >= 1 /\ Len(p) = Len(q) - 1 /\ Head(q) = q[1]
      /\ \A i \in 1 .. Len(p) : p[i] = q[i + 1]
  OBVIOUS
<1>3. /\ m \in [0 .. Len(p) -> Nat] /\ m[0] = mark[1] /\ m[Len(p)] = b
      /\ \A i \in 1 .. Len(p) : m[i] = mark[i + 1] /\ m[i - 1] = mark[i]
  BY <1>1, <1>2
<1>4. ASSUME NEW i \in 1 .. Len(p)
      PROVE  IF p[i].src = s THEN p[i].n = m[i - 1] + 1 /\ m[i] = p[i].n ELSE m[i] = m[i - 1]
  <2>1. i + 1 \in 1 .. Len(q) /\ (i + 1) - 1 = i
    BY <1>2
  <2> QED
    BY <1>1, <1>2, <1>3, <2>1
<1>5. LineRun(p, s, mark[1], b)
  <2> HIDE DEF m, p
  <2> QED
    BY <1>3, <1>4, Zenon DEF LineRun
<1>6. 1 \in 1 .. Len(q) /\ mark[1] = IF Head(q).src = s THEN a + 1 ELSE a
  BY <1>1, <1>2
<1>7. Head(q).src = s => Head(q).n = a + 1
  BY <1>1, <1>2, <1>6
<1> QED
  BY <1>5, <1>6, <1>7

\* An empty channel holds no record.
LEMMA RecordEmpty ==
  ASSUME NEW s, NEW a \in Nat, NEW b \in Nat
  PROVE  RecordRun(<<>>, s, a, b) <=> a = b
<1>1. ASSUME a = b PROVE RecordRun(<<>>, s, a, b)
  <2> DEFINE m == [i \in 0 .. 0 |-> a]
  <2>1. m \in [0 .. Len(<<>>) -> Nat] /\ m[0] = a /\ m[Len(<<>>)] = b
    BY <1>1
  <2>2. ASSUME NEW i \in 1 .. Len(<<>>) PROVE FALSE
    OBVIOUS
  <2> HIDE DEF m
  <2> QED
    BY <2>1, <2>2, Zenon DEF RecordRun
<1>2. RecordRun(<<>>, s, a, b) => a = b
  BY DEF RecordRun
<1> QED
  BY <1>1, <1>2

\* A send puts a record at the end of the run of its source.
LEMMA RecordAppend ==
  ASSUME NEW S, NEW q \in Seq(S), NEW x \in S, NEW s, NEW a \in Nat, NEW b \in Nat,
         RecordRun(q, s, a, b)
  PROVE  /\ x.src # s => RecordRun(Append(q, x), s, a, b)
         /\ x.src = s /\ x.start = b + 1 /\ x.offset \in Nat => RecordRun(Append(q, x), s, a, x.offset)
<1>1. PICK mark \in [0 .. Len(q) -> Nat] :
        /\ mark[0] = a /\ mark[Len(q)] = b
        /\ \A i \in 1 .. Len(q) :
             IF q[i].src = s THEN q[i].start = mark[i - 1] + 1 /\ mark[i] = q[i].offset
                             ELSE mark[i] = mark[i - 1]
  BY DEF RecordRun
<1> DEFINE p == Append(q, x)
<1>2. /\ Len(p) = Len(q) + 1 /\ p[Len(q) + 1] = x /\ Len(q) \in Nat
      /\ \A i \in 1 .. Len(q) : p[i] = q[i]
  OBVIOUS
<1>3. ASSUME NEW z \in Nat, IF x.src = s THEN x.start = b + 1 /\ z = x.offset ELSE z = b
      PROVE  RecordRun(p, s, a, z)
  <2> DEFINE m == [i \in 0 .. Len(q) + 1 |-> IF i = Len(q) + 1 THEN z ELSE mark[i]]
  <2>1. m \in [0 .. Len(p) -> Nat] /\ m[0] = a /\ m[Len(p)] = z
    BY <1>1, <1>2
  <2>2. ASSUME NEW i \in 1 .. Len(p)
        PROVE  IF p[i].src = s THEN p[i].start = m[i - 1] + 1 /\ m[i] = p[i].offset ELSE m[i] = m[i - 1]
    <3>1. CASE i = Len(q) + 1
      <4>1. p[i] = x /\ m[i] = z /\ m[i - 1] = b
        BY <1>1, <1>2, <3>1
      <4> QED
        BY <1>3, <4>1
    <3>2. CASE i # Len(q) + 1
      <4>1. i \in 1 .. Len(q) /\ p[i] = q[i] /\ m[i] = mark[i] /\ m[i - 1] = mark[i - 1]
        BY <1>2, <3>2
      <4> QED
        BY <1>1, <4>1
    <3> QED
      BY <3>1, <3>2
  <2> HIDE DEF m, p
  <2> QED
    BY <2>1, <2>2, Zenon DEF RecordRun
<1>4. x.src # s => RecordRun(p, s, a, b)
  BY <1>3
<1>5. x.src = s /\ x.start = b + 1 /\ x.offset \in Nat => RecordRun(p, s, a, x.offset)
  BY <1>3
<1> QED
  BY <1>4, <1>5, Zenon

\* A receive takes the first record of the run of its source.
LEMMA RecordTail ==
  ASSUME NEW S, NEW q \in Seq(S), q # <<>>, NEW s, NEW a \in Nat, NEW b \in Nat,
         RecordRun(q, s, a, b)
  PROVE  IF Head(q).src = s
         THEN /\ Head(q).start = a + 1 /\ Head(q).offset \in Nat
              /\ RecordRun(Tail(q), s, Head(q).offset, b)
         ELSE RecordRun(Tail(q), s, a, b)
<1>1. PICK mark \in [0 .. Len(q) -> Nat] :
        /\ mark[0] = a /\ mark[Len(q)] = b
        /\ \A i \in 1 .. Len(q) :
             IF q[i].src = s THEN q[i].start = mark[i - 1] + 1 /\ mark[i] = q[i].offset
                             ELSE mark[i] = mark[i - 1]
  BY DEF RecordRun
<1> DEFINE p == Tail(q)
           m == [i \in 0 .. Len(q) - 1 |-> mark[i + 1]]
<1>2. /\ Len(q) \in Nat /\ Len(q) >= 1 /\ Len(p) = Len(q) - 1 /\ Head(q) = q[1]
      /\ \A i \in 1 .. Len(p) : p[i] = q[i + 1]
  OBVIOUS
<1>3. /\ m \in [0 .. Len(p) -> Nat] /\ m[0] = mark[1] /\ m[Len(p)] = b
      /\ \A i \in 1 .. Len(p) : m[i] = mark[i + 1] /\ m[i - 1] = mark[i]
  BY <1>1, <1>2
<1>4. ASSUME NEW i \in 1 .. Len(p)
      PROVE  IF p[i].src = s THEN p[i].start = m[i - 1] + 1 /\ m[i] = p[i].offset ELSE m[i] = m[i - 1]
  <2>1. i + 1 \in 1 .. Len(q) /\ (i + 1) - 1 = i
    BY <1>2
  <2> QED
    BY <1>1, <1>2, <1>3, <2>1
<1>5. RecordRun(p, s, mark[1], b)
  <2> HIDE DEF m, p
  <2> QED
    BY <1>3, <1>4, Zenon DEF RecordRun
<1>6. 1 \in 1 .. Len(q) /\ mark[1] = IF Head(q).src = s THEN Head(q).offset ELSE a
  BY <1>1, <1>2
<1>7. Head(q).src = s => Head(q).start = a + 1 /\ Head(q).offset \in Nat
  BY <1>1, <1>2, <1>6
<1> QED
  BY <1>5, <1>6, <1>7

\* order lists the n keys of due, each once.
Visits(order, n, due) ==
  /\ order \in [1 .. n -> due] /\ DOMAIN order = 1 .. n
  /\ \A i, j \in 1 .. n : i # j => order[i] # order[j]
  /\ \A k \in due : \E i \in 1 .. n : order[i] = k

\* What of s is due.
HeldDue(held, due, s, a, b) ==
  IF s \in due THEN held[s].start = a + 1 /\ b = held[s].offset ELSE b = a

\* A flush hands on each record that was held, once.
LEMMA FlushRun ==
  ASSUME NEW held, NEW due, NEW n \in Nat, NEW order, Visits(order, n, due),
         \A k \in due : held[k].src = k,
         NEW q, Len(q) = n, \A i \in 1 .. n : q[i] = held[order[i]],
         NEW s, NEW a \in Nat, NEW b \in Nat, HeldDue(held, due, s, a, b)
  PROVE  RecordRun(q, s, a, b)
<1>0. /\ order \in [1 .. n -> due]
      /\ \A i, j \in 1 .. n : i # j => order[i] # order[j]
      /\ \A k \in due : \E i \in 1 .. n : order[i] = k
      /\ IF s \in due THEN held[s].start = a + 1 /\ b = held[s].offset ELSE b = a
  BY Zenon DEF Visits, HeldDue
<1>1. Len(q) = n /\ \A i \in 1 .. n : q[i] = held[order[i]] /\ q[i].src = order[i]
  BY <1>0
<1>2. CASE s \notin due
  <2> DEFINE m == [i \in 0 .. n |-> a]
  <2>1. m \in [0 .. Len(q) -> Nat] /\ m[0] = a /\ m[Len(q)] = b
    BY <1>0, <1>1, <1>2
  <2>2. ASSUME NEW i \in 1 .. Len(q)
        PROVE  IF q[i].src = s THEN q[i].start = m[i - 1] + 1 /\ m[i] = q[i].offset ELSE m[i] = m[i - 1]
    BY <1>0, <1>1, <1>2
  <2> HIDE DEF m
  <2> QED
    BY <2>1, <2>2, Zenon DEF RecordRun
<1>3. CASE s \in due
  <2>1. PICK k \in 1 .. n : order[k] = s
    BY <1>0, <1>3
  <2>2. held[s].start = a + 1 /\ b = held[s].offset
    BY <1>0, <1>3
  <2> DEFINE m == [i \in 0 .. n |-> IF i < k THEN a ELSE b]
  <2>3. m \in [0 .. Len(q) -> Nat] /\ m[0] = a /\ m[Len(q)] = b
    BY <1>0, <1>1
  <2>4. ASSUME NEW i \in 1 .. Len(q)
        PROVE  IF q[i].src = s THEN q[i].start = m[i - 1] + 1 /\ m[i] = q[i].offset ELSE m[i] = m[i - 1]
    <3>1. CASE i = k
      <4>1. q[i] = held[s] /\ q[i].src = s /\ m[i - 1] = a /\ m[i] = b
        BY <1>0, <1>1, <2>1, <3>1
      <4> QED
        BY <2>2, <4>1
    <3>2. CASE i # k
      <4>1. q[i].src # s /\ m[i] = m[i - 1]
        BY <1>0, <1>1, <2>1, <3>2
      <4> QED
        BY <4>1
    <3> QED
      BY <3>1, <3>2
  <2> HIDE DEF m
  <2> QED
    BY <2>3, <2>4, Zenon DEF RecordRun
<1> QED
  BY <1>2, <1>3
\* A range over the map visits every key once.
LEMMA OrdersIs ==
  ASSUME NEW S, NEW order \in Orders(S)
  PROVE  \E n \in Nat : Visits(order, n, S)
<1>1. PICK n \in 0 .. Cardinality(S) : order \in [1 .. n -> S]
  BY Zenon DEF Orders
<1>2. n \in Nat /\ DOMAIN order = 1 .. n
  BY <1>1
<1>3. \A i, j \in 1 .. n : i # j => order[i] # order[j]
  BY <1>2, Zenon DEF Orders, IsInjective
<1>4. \A x \in S : \E i \in 1 .. n : order[i] = x
  BY <1>2, Zenon DEF Orders, Range
<1>5. Visits(order, n, S)
  BY <1>1, <1>2, <1>3, <1>4, Zenon DEF Visits
<1> QED
  BY <1>2, <1>5, Zenon

-----------------------------------------------------------------------------
(* The inductive invariant.                                                *)

MainPcs == {"serve", "sources", "joiner", "shipper", "returned", "exited"}
Errors == {"fatal", "source", "timeout", "shipper", "final", "admin"}
Names == {"lines", "toJoiner", "joined"}

\* The types of the parts.
SourceState ==
  [pc : {"run", "done", "wedged"}, read : Nat, handoff : Seq(Nat), sent : Nat, err : BOOLEAN]
SrcType == src \in [Sources -> SourceState]
ChanType ==
  /\ chan = [c \in Names |-> chan[c]]
  /\ chan["lines"] \in Seq(LineIn) /\ chan["toJoiner"] \in Seq(LineIn)
  /\ chan["joined"] \in Seq(WholeRecord)
  /\ \A c \in Names : Len(chan[c]) <= QueueCapacity
  /\ closed \subseteq Names
HeldType(held) ==
  /\ held = [s \in DOMAIN held |-> held[s]] /\ DOMAIN held \subseteq Sources
  /\ \A s \in DOMAIN held : held[s] \in WholeRecord /\ held[s].src = s
JoinerType ==
  /\ joiner = [pc |-> joiner.pc, held |-> joiner.held, outq |-> joiner.outq]
  /\ joiner.pc \in {"run", "last", "done"}
  /\ HeldType(joiner.held)
  /\ joiner.outq \in Seq(WholeRecord)
  /\ relay \in {"run", "done"}
ShipperType == shipper \in [pc : {"run", "done"}, got : [Sources -> Seq(WholeRecord)], err : BOOLEAN]
MainState ==
  [pc : MainPcs, signal : BOOLEAN, deadline : BOOLEAN, fatal : BOOLEAN, errs : SUBSET Errors]
MainType ==
  /\ main \in MainState
  /\ admin \in {"up", "failed", "down"}
Types == setup \in Setups /\ SrcType /\ ChanType /\ JoinerType /\ ShipperType /\ MainType

\* What a source that runs has in its handoff comes right after what it sent.
SourceInv ==
  \A s \in Sources : src[s].pc = "run" =>
    /\ src[s].read = src[s].sent + Len(src[s].handoff) /\ src[s].read <= Len(Input[s])
    /\ \A i \in DOMAIN src[s].handoff : src[s].handoff[i] = src[s].sent + i
    /\ s \notin StdinSources => src[s].handoff = <<>>

\* Nothing has been cut short: no deadline, no early return.
Clean == ~main.deadline /\ "timeout" \notin main.errs
Finished == main.pc \in {"returned", "exited"} /\ "timeout" \notin main.errs

\* A stage that returned by itself had nothing left to read; main goes on only
\* when the stage before has returned, and keeps its error.
StageInv ==
  /\ Clean /\ relay = "done" => chan["lines"] = <<>> /\ "lines" \in closed
  /\ joiner.pc = "last" => joiner.held = <<>> /\ chan["toJoiner"] = <<>> /\ "toJoiner" \in closed
  /\ ~setup.joining => DOMAIN joiner.held = {}
  /\ Clean /\ joiner.pc = "done" => "toJoiner" \in closed
  /\ Clean /\ shipper.pc = "done" => shipper.err \/ (chan["joined"] = <<>> /\ "joined" \in closed)
  /\ shipper.err => shipper.pc = "done"
  /\ main.fatal => "fatal" \in main.errs
MainInv ==
  /\ main.pc \in {"joiner", "shipper"} \/ Finished =>
       /\ "lines" \in closed
       /\ (\E s \in Sources : src[s].err) => "source" \in main.errs
  /\ main.pc = "shipper" \/ Finished => "joined" \in closed
  /\ Finished =>
       /\ shipper.pc = "done" /\ admin # "up"
       /\ shipper.err => "shipper" \in main.errs \/ "fatal" \in main.errs
  /\ main.pc = "exited" => admin # "up" /\ (admin = "failed" => "admin" \in main.errs)

\* The records the shipper has are a source's lines from the first on.
FromFirst(q, s) ==
  \A i \in DOMAIN q : q[i].src = s /\ q[i].start = IF i = 1 THEN 1 ELSE q[i - 1].offset + 1
GotInv == \A s \in Sources : FromFirst(shipper.got[s], s)

\* From the last line of s the shipper has to the last one s sent, none is
\* missing, repeated or out of order: in joined always, and up to the source
\* while the joiner runs or when it has returned by itself.
Flow(s) ==
  \E a, b, c, d \in Nat :
    /\ RecordRun(chan["joined"], s, Delivered(s), a)
    /\ joiner.pc # "done" =>
         /\ RecordRun(joiner.outq, s, a, b) /\ HeldRun(joiner.held, s, b, c)
         /\ LineRun(chan["toJoiner"], s, c, d) /\ LineRun(chan["lines"], s, d, src[s].sent)
    /\ joiner.pc = "done" /\ Clean => a = src[s].sent

PipeInv == Types /\ ChannelInv /\ SourceInv /\ StageInv /\ MainInv /\ GotInv /\ \A s \in Sources : Flow(s)

\* Init establishes the invariant: nothing is closed.
LEMMA InitChannel == Init => ChannelInv
  BY DEF Init, ChannelInv, Shape, Senders

\* A source that sends is running, so lines is open.
LEMMA SourceKeeps ==
  ASSUME ChannelInv, NEW s \in Sources, SourceStep(s) \/ SourceFails(s) \/ Wedges(s)
  PROVE  ChannelInv'
<1>1. src[s].pc = "run" /\ UNCHANGED <<closed, relay, joiner>>
  BY Zenon DEF SourceStep, EmitLine, ReaderReads, Forward, InputEnds, SourceCancelled,
     SourceFails, Wedges, SrcOnly, RestOfSource
<1>2. "lines" \notin closed
  BY <1>1 DEF ChannelInv, Senders
<1>3. ~panic'
  BY <1>2, Zenon DEF SourceStep, EmitLine, ReaderReads, Forward, InputEnds, SourceCancelled,
     SourceFails, Wedges, SrcOnly, Put, ChannelInv, Senders
<1>4. QED
  BY <1>1, <1>2, <1>3 DEF ChannelInv, Shape, Senders

\* The relay closes toJoiner as it returns, and nobody else sends on it.
LEMMA RelayKeeps ==
  ASSUME ChannelInv, RelayStep
  PROVE  ChannelInv'
<1> USE DEF ChannelInv, Shape, Senders, RestOfRelay
<1>1. CASE RelayMoves
  BY <1>1 DEF RelayMoves
<1>2. CASE RelayEnds
  BY <1>2 DEF RelayEnds
<1>3. QED
  BY <1>1, <1>2 DEF RelayStep

\* A joiner with something to send has not returned, so joined is open.
LEMMA JoinerKeeps ==
  ASSUME ChannelInv, JoinerStep
  PROVE  ChannelInv'
<1> USE DEF ChannelInv, Shape, Senders, RestOfJoiner
<1> DEFINE Keeps == joiner' = [pc |-> joiner'.pc, held |-> joiner'.held, outq |-> joiner'.outq]
<1>1. CASE JoinerTakes
  <2>1. joiner.pc = "run"
    BY <1>1 DEF JoinerTakes, JoinerWaits
  <2>3. PICK h, o : joiner' = [pc |-> "run", held |-> h, outq |-> o]
    <3>1. PICK line : joiner' = IF setup.joining THEN Absorb(line)
                                ELSE [joiner EXCEPT !.outq = <<NewHeld(line)>>]
      BY <1>1, Zenon DEF JoinerTakes
    <3>2. CASE ~setup.joining
      BY <2>1, <3>1, <3>2, Zenon
    <3>3. CASE setup.joining
      BY <2>1, <3>1, <3>3, Zenon DEF Absorb
    <3>4. QED
      BY <3>2, <3>3
  <2>4. UNCHANGED <<src, closed, relay, panic>>
    BY <1>1, Zenon DEF JoinerTakes
  <2>5. QED
    BY <2>1, <2>3, <2>4
<1>2. CASE FlushDue
  <2>1. joiner'.pc = "run" /\ Keeps
    BY <1>2, Zenon DEF FlushDue, JoinerWaits
  <2>2. UNCHANGED <<src, closed, relay, panic>> /\ joiner.pc # "done"
    BY <1>2, Zenon DEF FlushDue, JoinerWaits
  <2>3. QED
    BY <2>1, <2>2
<1>3. CASE JoinerSends
  <2>1. joiner'.pc = joiner.pc /\ Keeps
    BY <1>3, Zenon DEF JoinerSends
  <2>2. joiner.pc # "done" /\ ~panic'
    BY <1>3 DEF JoinerSends, Put
  <2>3. UNCHANGED <<src, closed, relay>>
    BY <1>3, Zenon DEF JoinerSends
  <2>4. QED
    BY <2>1, <2>2, <2>3
<1>4. CASE JoinerDrains
  <2>1. joiner'.pc = "last" /\ Keeps
    BY <1>4, Zenon DEF JoinerDrains, JoinerWaits
  <2>2. UNCHANGED <<src, closed, relay, panic>> /\ joiner.pc # "done"
    BY <1>4, Zenon DEF JoinerDrains, JoinerWaits
  <2>3. QED
    BY <2>1, <2>2
<1>5. CASE JoinerReturns
  <2>1. joiner'.pc = "done" /\ joiner'.outq = <<>> /\ Keeps
    BY <1>5, Zenon DEF JoinerReturns
  <2>2. UNCHANGED <<src, closed, relay, panic>> /\ joiner.pc # "done"
    BY <1>5, Zenon DEF JoinerReturns
  <2>3. QED
    BY <2>1, <2>2
<1>6. CASE JoinerCancelled
  BY <1>6 DEF JoinerCancelled
<1>7. QED
  BY <1>1, <1>2, <1>3, <1>4, <1>5, <1>6 DEF JoinerStep

\* The shipper only receives.
LEMMA ShipperKeeps ==
  ASSUME ChannelInv, ShipperStep \/ ShipperFails
  PROVE  ChannelInv'
<1>1. UNCHANGED <<src, closed, relay, joiner, panic>>
  BY Zenon DEF ShipperStep, ShipperTakes, ShipperEnds, ShipperFails, RestOfShipper
<1>2. QED
  BY <1>1 DEF ChannelInv, Shape, Senders

\* runPipeline closes lines once every source has returned and joined once the
\* joiner has.
LEMMA MainKeeps ==
  ASSUME ChannelInv, Signal \/ AdminFails \/ DeadlinePasses \/ MainStep
  PROVE  ChannelInv'
<1> USE DEF ChannelInv, Shape, Senders, RestOfMain
<1>1. CASE SourcesStopped
  <2>1. /\ \A s \in Sources : src[s].pc = "done"
        /\ closed' = closed \cup {"lines"} /\ UNCHANGED <<src, relay, joiner, panic>>
    BY <1>1, Zenon DEF SourcesStopped
  <2>2. QED
    BY <2>1
<1>2. CASE JoinerCollected
  BY <1>2 DEF JoinerCollected
<1>3. CASE \E failed \in {{}, {"final"}} : ShipperCollected(failed)
  BY <1>3 DEF ShipperCollected
<1>4. CASE Signal \/ AdminFails \/ DeadlinePasses \/ StopOnCtx \/ StopOnShipper
             \/ SourcesTimedOut \/ Exit
  BY <1>4 DEF Signal, AdminFails, DeadlinePasses, StopOnCtx, StopOnShipper, SourcesTimedOut, Exit
<1>5. QED
  BY <1>1, <1>2, <1>3, <1>4 DEF MainStep

\* runPipeline's shutdown sequence never closes a channel under a sender, for
\* every configuration of sources, input and capacity.
THEOREM ChannelsSafe == Spec => []NoPanic
<1>1. ChannelInv /\ [Next]_vars => ChannelInv'
  <2> SUFFICES ASSUME ChannelInv, [Next]_vars PROVE ChannelInv'
    OBVIOUS
  <2>1. CASE UNCHANGED vars
    BY <2>1 DEF vars, ChannelInv, Shape, Senders
  <2>2. CASE Next
    BY <2>2, SourceKeeps, RelayKeeps, JoinerKeeps, ShipperKeeps, MainKeeps DEF Next
  <2>3. QED
    BY <2>1, <2>2
<1>2. ChannelInv => NoPanic
  BY DEF ChannelInv, Senders, NoPanic
<1>3. QED
  BY <1>1, <1>2, InitChannel, PTL DEF Spec

-----------------------------------------------------------------------------
(* The flow of lines.                                                      *)

\* The configuration stands still while the agent runs.
LEMMA SetupKept ==
  ASSUME setup' = setup
  PROVE  LineIn' = LineIn /\ WholeRecord' = WholeRecord /\ Input' = Input
<1>1. Input' = Input
  BY Zenon DEF Input
<1>2. LineIn' = LineIn
  BY <1>1, Zenon DEF LineIn
<1>3. ASSUME NEW r PROVE Whole(r)' = Whole(r)
  BY <1>1, Zenon DEF Whole, IsJoinedLen
<1>4. WholeRecord' = WholeRecord
  BY <1>3, Zenon DEF WholeRecord
<1> QED
  BY <1>1, <1>2, <1>4, Zenon

\* The elements of a sequence.
LEMMA SeqIs ==
  ASSUME NEW R, NEW q \in Seq(R)
  PROVE  Len(q) \in Nat /\ DOMAIN q = 1 .. Len(q) /\ \A i \in 1 .. Len(q) : q[i] \in R
  OBVIOUS

\* Each source's input is a sequence of lines.
LEMMA InputIs ==
  ASSUME setup \in Setups
  PROVE  /\ setup.joining \in BOOLEAN
         /\ \A s \in Sources :
              /\ Len(Input[s]) \in Nat /\ DOMAIN Input[s] = 1 .. Len(Input[s])
              /\ \A i \in 1 .. Len(Input[s]) : Input[s][i].len \in 0 .. MaxMessageLen
<1>1. setup.joining \in BOOLEAN /\ Input \in [Sources -> Seq([len : 0 .. MaxMessageLen, cont : BOOLEAN])]
  BY PipelineAssumption, Zenon DEF Input
<1>2. ASSUME NEW s \in Sources
      PROVE  /\ Len(Input[s]) \in Nat /\ DOMAIN Input[s] = 1 .. Len(Input[s])
             /\ \A i \in 1 .. Len(Input[s]) : Input[s][i].len \in 0 .. MaxMessageLen
  <2>1. Input[s] \in Seq([len : 0 .. MaxMessageLen, cont : BOOLEAN])
    BY <1>1, Zenon
  <2>2. /\ Len(Input[s]) \in Nat /\ DOMAIN Input[s] = 1 .. Len(Input[s])
        /\ \A i \in 1 .. Len(Input[s]) : Input[s][i] \in [len : 0 .. MaxMessageLen, cont : BOOLEAN]
    BY <2>1, SeqIs, Zenon
  <2> QED
    BY <2>2, Zenon
<1> QED
  BY <1>1, <1>2, Zenon

\* A source's record after an assignment to some of its fields.
LEMMA SrcExcept ==
  ASSUME NEW o \in SourceState, NEW x, NEW y, NEW z, NEW q
  PROVE  /\ q = [o EXCEPT !.read = x, !.sent = y] =>
              q = [pc |-> o.pc, read |-> x, handoff |-> o.handoff, sent |-> y, err |-> o.err]
         /\ q = [o EXCEPT !.read = x, !.handoff = y] =>
              q = [pc |-> o.pc, read |-> x, handoff |-> y, sent |-> o.sent, err |-> o.err]
         /\ q = [o EXCEPT !.handoff = x, !.sent = y] =>
              q = [pc |-> o.pc, read |-> o.read, handoff |-> x, sent |-> y, err |-> o.err]
         /\ q = [o EXCEPT !.pc = x] =>
              q = [pc |-> x, read |-> o.read, handoff |-> o.handoff, sent |-> o.sent, err |-> o.err]
         /\ q = [o EXCEPT !.pc = x, !.handoff = y] =>
              q = [pc |-> x, read |-> o.read, handoff |-> y, sent |-> o.sent, err |-> o.err]
         /\ q = [o EXCEPT !.pc = x, !.err = y, !.handoff = z] =>
              q = [pc |-> x, read |-> o.read, handoff |-> z, sent |-> o.sent, err |-> y]
<1>0. o = [pc |-> o.pc, read |-> o.read, handoff |-> o.handoff, sent |-> o.sent, err |-> o.err]
  BY Zenon DEF SourceState
<1>1. q = [o EXCEPT !.read = x, !.sent = y] => q = [pc |-> o.pc, read |-> x, handoff |-> o.handoff, sent |-> y, err |-> o.err]
  <2> DEFINE p == [o EXCEPT !.read = x]
  <2>1. p = [pc |-> o.pc, read |-> x, handoff |-> o.handoff, sent |-> o.sent, err |-> o.err]
    BY <1>0
  <2>2. [o EXCEPT !.read = x, !.sent = y] = [p EXCEPT !.sent = y]
    BY Zenon
  <2> HIDE DEF p
  <2>3. [p EXCEPT !.sent = y] = [pc |-> o.pc, read |-> x, handoff |-> o.handoff, sent |-> y, err |-> o.err]
    BY <2>1
  <2> QED
    BY <2>2, <2>3, Zenon
<1>2. q = [o EXCEPT !.read = x, !.handoff = y] => q = [pc |-> o.pc, read |-> x, handoff |-> y, sent |-> o.sent, err |-> o.err]
  <2> DEFINE p == [o EXCEPT !.read = x]
  <2>1. p = [pc |-> o.pc, read |-> x, handoff |-> o.handoff, sent |-> o.sent, err |-> o.err]
    BY <1>0
  <2>2. [o EXCEPT !.read = x, !.handoff = y] = [p EXCEPT !.handoff = y]
    BY Zenon
  <2> HIDE DEF p
  <2>3. [p EXCEPT !.handoff = y] = [pc |-> o.pc, read |-> x, handoff |-> y, sent |-> o.sent, err |-> o.err]
    BY <2>1
  <2> QED
    BY <2>2, <2>3, Zenon
<1>3. q = [o EXCEPT !.handoff = x, !.sent = y] => q = [pc |-> o.pc, read |-> o.read, handoff |-> x, sent |-> y, err |-> o.err]
  <2> DEFINE p == [o EXCEPT !.handoff = x]
  <2>1. p = [pc |-> o.pc, read |-> o.read, handoff |-> x, sent |-> o.sent, err |-> o.err]
    BY <1>0
  <2>2. [o EXCEPT !.handoff = x, !.sent = y] = [p EXCEPT !.sent = y]
    BY Zenon
  <2> HIDE DEF p
  <2>3. [p EXCEPT !.sent = y] = [pc |-> o.pc, read |-> o.read, handoff |-> x, sent |-> y, err |-> o.err]
    BY <2>1
  <2> QED
    BY <2>2, <2>3, Zenon
<1>4. q = [o EXCEPT !.pc = x] => q = [pc |-> x, read |-> o.read, handoff |-> o.handoff, sent |-> o.sent, err |-> o.err]
  BY <1>0
<1>5. q = [o EXCEPT !.pc = x, !.handoff = y] => q = [pc |-> x, read |-> o.read, handoff |-> y, sent |-> o.sent, err |-> o.err]
  <2> DEFINE p == [o EXCEPT !.pc = x]
  <2>1. p = [pc |-> x, read |-> o.read, handoff |-> o.handoff, sent |-> o.sent, err |-> o.err]
    BY <1>0
  <2>2. [o EXCEPT !.pc = x, !.handoff = y] = [p EXCEPT !.handoff = y]
    BY Zenon
  <2> HIDE DEF p
  <2>3. [p EXCEPT !.handoff = y] = [pc |-> x, read |-> o.read, handoff |-> y, sent |-> o.sent, err |-> o.err]
    BY <2>1
  <2> QED
    BY <2>2, <2>3, Zenon
<1>6. q = [o EXCEPT !.pc = x, !.err = y, !.handoff = z] => q = [pc |-> x, read |-> o.read, handoff |-> z, sent |-> o.sent, err |-> y]
  <2> DEFINE p == [o EXCEPT !.pc = x]
  <2>1. p = [pc |-> x, read |-> o.read, handoff |-> o.handoff, sent |-> o.sent, err |-> o.err]
    BY <1>0
  <2>2. [o EXCEPT !.pc = x, !.err = y, !.handoff = z] = [p EXCEPT !.err = y, !.handoff = z]
    BY Zenon
  <2> HIDE DEF p
  <2> DEFINE r == [p EXCEPT !.err = y]
  <2>3. r = [pc |-> x, read |-> o.read, handoff |-> o.handoff, sent |-> o.sent, err |-> y]
    BY <2>1
  <2>4. [p EXCEPT !.err = y, !.handoff = z] = [r EXCEPT !.handoff = z]
    BY Zenon
  <2> HIDE DEF r
  <2>5. [r EXCEPT !.handoff = z] = [pc |-> x, read |-> o.read, handoff |-> z, sent |-> o.sent, err |-> y]
    BY <2>3
  <2> QED
    BY <2>2, <2>4, <2>5, Zenon
<1> QED
  BY <1>1, <1>2, <1>3, <1>4, <1>5, <1>6, Zenon

\* What a step of a source does: it may put its next line on lines, while it
\* runs.
SendsNext(s) ==
  /\ src[s].sent + 1 <= Len(Input[s]) /\ Len(chan["lines"]) < QueueCapacity
  /\ src'[s].sent = src[s].sent + 1
  /\ chan' = [chan EXCEPT !["lines"] = Append(@, [src |-> s, n |-> src[s].sent + 1])]

\* r is a state of s that a running source may be in.
Follows(s, r) ==
  r.pc = "run" =>
    /\ r.read = r.sent + Len(r.handoff) /\ r.read <= Len(Input[s])
    /\ \A i \in DOMAIN r.handoff : r.handoff[i] = r.sent + i
    /\ s \notin StdinSources => r.handoff = <<>>
\* What s sends on its way to r.
Sends(s, r) ==
  \/ chan' = chan /\ r.sent = src[s].sent
  \/ /\ src[s].sent + 1 <= Len(Input[s]) /\ Len(chan["lines"]) < QueueCapacity
     /\ r.sent = src[s].sent + 1
     /\ chan' = [chan EXCEPT !["lines"] = Append(@, [src |-> s, n |-> src[s].sent + 1])]

\* A step of a source to such a state.
LEMMA SourceBecomes ==
  ASSUME SrcType, SourceInv, NEW s \in Sources, NEW r \in SourceState, UNCHANGED setup,
         src' = [src EXCEPT ![s] = r], Follows(s, r), Sends(s, r)
  PROVE  /\ \A t \in Sources \ {s} : src'[t] = src[t]
         /\ SrcType' /\ SourceInv'
         /\ SendsNext(s) \/ (chan' = chan /\ src'[s].sent = src[s].sent)
<1>0. Input' = Input
  BY Zenon DEF Input
<1>1. src'[s] = r /\ (\A t \in Sources \ {s} : src'[t] = src[t]) /\ src' \in [Sources -> SourceState]
  BY Zenon DEF SrcType
<1>2. SrcType'
  BY <1>1, Zenon DEF SrcType, SourceState
<1>3. SourceInv'
  BY <1>0, <1>1, Zenon DEF SourceInv, Follows
<1>4. SendsNext(s) \/ (chan' = chan /\ src'[s].sent = src[s].sent)
  BY <1>1, Zenon DEF SendsNext, Sends
<1> QED
  BY <1>1, <1>2, <1>3, <1>4, Zenon

\* What the reader hands over and what Run takes of it.
LEMMA HandoffRun ==
  ASSUME NEW q \in Seq(Nat), NEW k \in Nat, \A i \in DOMAIN q : q[i] = k + i
  PROVE  /\ Append(q, k + Len(q) + 1) \in Seq(Nat) /\ Len(Append(q, k + Len(q) + 1)) = Len(q) + 1
         /\ \A i \in DOMAIN Append(q, k + Len(q) + 1) : Append(q, k + Len(q) + 1)[i] = k + i
         /\ q # <<>> =>
              /\ Tail(q) \in Seq(Nat) /\ Len(Tail(q)) = Len(q) - 1 /\ Head(q) = k + 1 /\ Len(q) >= 1
              /\ \A i \in DOMAIN Tail(q) : Tail(q)[i] = k + 1 + i
<1>1. Len(q) \in Nat /\ DOMAIN q = 1 .. Len(q)
  OBVIOUS
<1>2. /\ Append(q, k + Len(q) + 1) \in Seq(Nat) /\ Len(Append(q, k + Len(q) + 1)) = Len(q) + 1
      /\ \A i \in DOMAIN Append(q, k + Len(q) + 1) : Append(q, k + Len(q) + 1)[i] = k + i
  BY <1>1
<1>3. ASSUME q # <<>>
      PROVE  /\ Tail(q) \in Seq(Nat) /\ Len(Tail(q)) = Len(q) - 1 /\ Head(q) = k + 1 /\ Len(q) >= 1
             /\ \A i \in DOMAIN Tail(q) : Tail(q)[i] = k + 1 + i
  BY <1>1, <1>3
<1> QED
  BY <1>2, <1>3, Zenon

LEMMA SourceEffect ==
  ASSUME Types, ChannelInv, SourceInv, NEW s \in Sources, SourceStep(s) \/ SourceFails(s) \/ Wedges(s)
  PROVE  /\ src[s].pc = "run" /\ "lines" \notin closed
         /\ UNCHANGED <<setup, closed, relay, joiner, shipper, main, admin>>
         /\ \A t \in Sources \ {s} : src'[t] = src[t]
         /\ SrcType' /\ SourceInv'
         /\ SendsNext(s) \/ (chan' = chan /\ src'[s].sent = src[s].sent)
<1>1. src[s].pc = "run" /\ UNCHANGED <<setup, closed, relay, joiner, shipper, main, admin>>
  BY Zenon DEF SourceStep, EmitLine, ReaderReads, Forward, InputEnds, SourceCancelled,
     SourceFails, Wedges, SrcOnly, RestOfSource
<1>2. "lines" \notin closed
  BY <1>1 DEF ChannelInv, Senders
<1>6. PICK o : o = src[s]
  OBVIOUS
<1>3. /\ SrcType /\ o \in SourceState /\ o.pc = "run"
      /\ o.read \in Nat /\ o.handoff \in Seq(Nat) /\ o.sent \in Nat /\ o.err \in BOOLEAN
      /\ o = [pc |-> o.pc, read |-> o.read, handoff |-> o.handoff, sent |-> o.sent, err |-> o.err]
  BY <1>1, <1>6, Zenon DEF Types, SrcType, SourceState
<1>4. /\ o.read = o.sent + Len(o.handoff) /\ o.read <= Len(Input[s])
      /\ \A i \in DOMAIN o.handoff : o.handoff[i] = o.sent + i
      /\ s \notin StdinSources => o.handoff = <<>>
  BY <1>1, <1>6, Zenon DEF SourceInv
<1>5. Len(Input[s]) \in Nat /\ Input' = Input
  BY <1>1, InputIs, Zenon DEF Types, Input
<1>7. CASE EmitLine(s)
  <2> DEFINE r == [pc |-> "run", read |-> o.read + 1, handoff |-> o.handoff, sent |-> o.sent + 1,
                   err |-> o.err]
  <2>1. /\ s \notin StdinSources /\ o.read < Len(Input[s])
        /\ Put("lines", [src |-> s, n |-> o.read + 1])
        /\ src' = [src EXCEPT ![s].read = @ + 1, ![s].sent = @ + 1]
    BY <1>6, <1>7, Zenon DEF EmitLine
  <2>2. src' = [src EXCEPT ![s] = r]
    <3>1. PICK x, y, q : x = o.read + 1 /\ y = o.sent + 1 /\ q = src'[s]
      BY Zenon
    <3>2. src' = [src EXCEPT ![s] = q] /\ q = [o EXCEPT !.read = x, !.sent = y]
      BY <1>3, <1>6, <2>1, <3>1, Zenon DEF SrcType
    <3>3. q = [pc |-> o.pc, read |-> x, handoff |-> o.handoff, sent |-> y, err |-> o.err]
      BY <1>3, <3>2, SrcExcept, Zenon
    <3>4. q = r
      BY <1>3, <3>1, <3>3, Zenon
    <3> QED
      BY <3>2, <3>4, Zenon
  <2>3. o.read = o.sent /\ o.sent + 1 \in Nat /\ o.sent + 1 <= Len(Input[s]) /\ o.handoff = <<>>
    BY <1>3, <1>4, <1>5, <2>1
  <2>4. r \in SourceState
    BY <1>3, <2>3, Zenon DEF SourceState
  <2>5. Follows(s, r)
    BY <1>3, <2>3 DEF Follows
  <2>6. Sends(s, r)
    BY <1>2, <2>1, <2>3, <1>6, Zenon DEF Put, Room, Sends
  <2> HIDE DEF r
  <2> QED
    BY <1>1, <1>2, <1>3, SourceBecomes, <2>2, <2>4, <2>5, <2>6, Zenon
<1>8. CASE ReaderReads(s)
  <2> DEFINE h == Append(o.handoff, o.read + 1)
             r == [pc |-> "run", read |-> o.read + 1, handoff |-> h, sent |-> o.sent, err |-> o.err]
  <2>1. /\ s \in StdinSources /\ o.read < Len(Input[s]) /\ chan' = chan
        /\ src' = [src EXCEPT ![s].read = @ + 1, ![s].handoff = Append(@, src[s].read + 1)]
    BY <1>6, <1>8, Zenon DEF ReaderReads, SrcOnly
  <2>2. src' = [src EXCEPT ![s] = r]
    <3>1. PICK x, y, q : x = o.read + 1 /\ y = h /\ q = src'[s]
      BY Zenon
    <3>2. src' = [src EXCEPT ![s] = q] /\ q = [o EXCEPT !.read = x, !.handoff = y]
      BY <1>3, <1>6, <2>1, <3>1, Zenon DEF SrcType
    <3>3. q = [pc |-> o.pc, read |-> x, handoff |-> y, sent |-> o.sent, err |-> o.err]
      BY <1>3, <3>2, SrcExcept, Zenon
    <3>4. q = r
      BY <1>3, <3>1, <3>3, Zenon
    <3> QED
      BY <3>2, <3>4, Zenon
  <2>3. /\ o.read + 1 \in Nat /\ h \in Seq(Nat) /\ o.read + 1 = o.sent + Len(h)
        /\ o.read + 1 <= Len(Input[s]) /\ \A i \in DOMAIN h : h[i] = o.sent + i
    <3>1. h = Append(o.handoff, o.sent + Len(o.handoff) + 1) /\ Len(o.handoff) \in Nat
      BY <1>3, <1>4
    <3> HIDE DEF h
    <3>2. h \in Seq(Nat) /\ Len(h) = Len(o.handoff) + 1 /\ \A i \in DOMAIN h : h[i] = o.sent + i
      BY <1>3, <1>4, <3>1, HandoffRun, Zenon
    <3>3. o.read \in Nat /\ o.sent \in Nat
      BY <1>3, Zenon
    <3> QED
      BY <1>4, <1>5, <2>1, <3>1, <3>2, <3>3
  <2> HIDE DEF h
  <2>4. r \in SourceState
    BY <1>3, <2>3, Zenon DEF SourceState
  <2>5. Follows(s, r) /\ Sends(s, r)
    BY <2>1, <2>3, <1>6, Zenon DEF Follows, Sends
  <2> HIDE DEF r
  <2> QED
    BY <1>1, <1>2, <1>3, SourceBecomes, <2>2, <2>4, <2>5, Zenon
<1>9. CASE Forward(s)
  <2> DEFINE h == Tail(o.handoff)
             r == [pc |-> "run", read |-> o.read, handoff |-> h, sent |-> o.sent + 1, err |-> o.err]
  <2>1. /\ o.handoff # <<>>
        /\ Put("lines", [src |-> s, n |-> Head(o.handoff)])
        /\ src' = [src EXCEPT ![s].handoff = Tail(@), ![s].sent = @ + 1]
    BY <1>6, <1>9, Zenon DEF Forward
  <2>2. src' = [src EXCEPT ![s] = r]
    <3>1. PICK x, y, q : x = h /\ y = o.sent + 1 /\ q = src'[s]
      BY Zenon
    <3>2. src' = [src EXCEPT ![s] = q] /\ q = [o EXCEPT !.handoff = x, !.sent = y]
      BY <1>3, <1>6, <2>1, <3>1, Zenon DEF SrcType
    <3>3. q = [pc |-> o.pc, read |-> o.read, handoff |-> x, sent |-> y, err |-> o.err]
      BY <1>3, <3>2, SrcExcept, Zenon
    <3>4. q = r
      BY <1>3, <3>1, <3>3, Zenon
    <3> QED
      BY <3>2, <3>4, Zenon
  <2>3. /\ o.sent + 1 \in Nat /\ h \in Seq(Nat) /\ o.read = o.sent + 1 + Len(h)
        /\ Head(o.handoff) = o.sent + 1 /\ o.sent + 1 <= Len(Input[s])
        /\ \A i \in DOMAIN h : h[i] = o.sent + 1 + i
    <3>1. /\ h \in Seq(Nat) /\ Len(h) = Len(o.handoff) - 1 /\ Head(o.handoff) = o.sent + 1
          /\ Len(o.handoff) >= 1 /\ \A i \in DOMAIN h : h[i] = o.sent + 1 + i
      BY <1>3, <1>4, <2>1, HandoffRun, Zenon
    <3>2. Len(o.handoff) \in Nat
      BY <1>3
    <3>3. o.read \in Nat /\ o.sent \in Nat
      BY <1>3, Zenon
    <3> HIDE DEF h
    <3> QED
      BY <1>4, <1>5, <3>1, <3>2, <3>3
  <2> HIDE DEF h
  <2>4. r \in SourceState
    BY <1>3, <2>3, Zenon DEF SourceState
  <2>5. Follows(s, r)
    BY <1>4, <2>1, <2>3, Zenon DEF Follows
  <2>6. Sends(s, r)
    BY <1>2, <2>1, <2>3, <1>6, Zenon DEF Put, Room, Sends
  <2> HIDE DEF r
  <2> QED
    BY <1>1, <1>2, <1>3, SourceBecomes, <2>2, <2>4, <2>5, <2>6, Zenon
<1>10. CASE InputEnds(s) \/ SourceCancelled(s) \/ SourceFails(s) \/ Wedges(s)
  <2>0. <<>> \in Seq(Nat)
    OBVIOUS
  <2>1. \E p \in {"done", "wedged"}, h \in Seq(Nat), e \in BOOLEAN :
          src' = [src EXCEPT ![s] = [pc |-> p, read |-> o.read, handoff |-> h, sent |-> o.sent, err |-> e]]
    <3>1. CASE InputEnds(s)
      <4>1. PICK x, q : x = "done" /\ q = src'[s]
        BY Zenon
      <4>2. src' = [src EXCEPT ![s] = q] /\ q = [o EXCEPT !.pc = x]
        BY <1>3, <1>6, <3>1, <4>1, Zenon DEF SrcType, InputEnds
      <4>3. q = [pc |-> x, read |-> o.read, handoff |-> o.handoff, sent |-> o.sent, err |-> o.err]
        BY <1>3, <4>2, SrcExcept, Zenon
      <4> QED
        BY <1>3, <2>0, <4>1, <4>2, <4>3, Zenon
    <3>2. CASE SourceCancelled(s)
      <4>1. PICK x, y, q : x = "done" /\ y = <<>> /\ q = src'[s]
        BY Zenon
      <4>2. src' = [src EXCEPT ![s] = q] /\ q = [o EXCEPT !.pc = x, !.handoff = y]
        BY <1>3, <1>6, <3>2, <4>1, Zenon DEF SrcType, SourceCancelled
      <4>3. q = [pc |-> x, read |-> o.read, handoff |-> y, sent |-> o.sent, err |-> o.err]
        BY <1>3, <4>2, SrcExcept, Zenon
      <4> QED
        BY <1>3, <2>0, <4>1, <4>2, <4>3, Zenon
    <3>3. CASE SourceFails(s)
      <4>1. PICK x, y, z, q : x = "done" /\ y = TRUE /\ z = <<>> /\ q = src'[s]
        BY Zenon
      <4>2. src' = [src EXCEPT ![s] = q] /\ q = [o EXCEPT !.pc = x, !.err = y, !.handoff = z]
        BY <1>3, <1>6, <3>3, <4>1, Zenon DEF SrcType, SourceFails
      <4>3. q = [pc |-> x, read |-> o.read, handoff |-> z, sent |-> o.sent, err |-> y]
        BY <1>3, <4>2, SrcExcept, Zenon
      <4>4. x \in {"done", "wedged"} /\ z \in Seq(Nat) /\ y \in BOOLEAN
        BY <2>0, <4>1, Zenon
      <4> QED
        BY <4>2, <4>3, <4>4, Zenon
    <3>4. CASE Wedges(s)
      <4>1. PICK x, q : x = "wedged" /\ q = src'[s]
        BY Zenon
      <4>2. src' = [src EXCEPT ![s] = q] /\ q = [o EXCEPT !.pc = x]
        BY <1>3, <1>6, <3>4, <4>1, Zenon DEF SrcType, Wedges
      <4>3. q = [pc |-> x, read |-> o.read, handoff |-> o.handoff, sent |-> o.sent, err |-> o.err]
        BY <1>3, <4>2, SrcExcept, Zenon
      <4> QED
        BY <1>3, <2>0, <4>1, <4>2, <4>3, Zenon
    <3> QED
      BY <1>10, <3>1, <3>2, <3>3, <3>4, Zenon
  <2>2. PICK p \in {"done", "wedged"}, h \in Seq(Nat), e \in BOOLEAN :
          src' = [src EXCEPT ![s] = [pc |-> p, read |-> o.read, handoff |-> h, sent |-> o.sent, err |-> e]]
    BY <2>1, Zenon
  <2> DEFINE r == [pc |-> p, read |-> o.read, handoff |-> h, sent |-> o.sent, err |-> e]
  <2>3. r \in SourceState
    BY <1>3, Zenon DEF SourceState
  <2>4. chan' = chan
    BY <1>10, Zenon DEF InputEnds, SourceCancelled, SourceFails, Wedges, SrcOnly
  <2>5. r.pc # "run" /\ r.sent = o.sent
    OBVIOUS
  <2>6. Follows(s, r) /\ Sends(s, r) /\ src' = [src EXCEPT ![s] = r]
    BY <2>2, <2>4, <2>5, <1>6, Zenon DEF Follows, Sends
  <2> HIDE DEF r
  <2> QED
    BY <1>1, <1>2, <1>3, SourceBecomes, <2>3, <2>6, Zenon
<1> QED
  BY <1>1, <1>2, <1>7, <1>8, <1>9, <1>10, Zenon DEF SourceStep

\* A channel after a send or a receive; the others are as before.
LEMMA ChanSet ==
  ASSUME ChanType, NEW c \in Names, NEW q, chan' = [chan EXCEPT ![c] = q]
  PROVE  /\ chan'[c] = q /\ \A k \in Names \ {c} : chan'[k] = chan[k]
         /\ chan' = [k \in Names |-> chan'[k]]
<1>1. DOMAIN chan = Names
  BY Zenon DEF ChanType
<1> QED
  BY <1>1, Zenon

\* A send and a receive.
LEMMA SeqStep ==
  ASSUME NEW S, NEW q \in Seq(S), NEW x \in S
  PROVE  /\ Append(q, x) \in Seq(S) /\ Len(Append(q, x)) = Len(q) + 1 /\ Len(q) \in Nat
         /\ q # <<>> => Tail(q) \in Seq(S) /\ Len(Tail(q)) = Len(q) - 1 /\ Head(q) \in S
  OBVIOUS

\* Delivered is a line number.
LEMMA DeliveredNat ==
  ASSUME ShipperType, NEW s \in Sources
  PROVE  Delivered(s) \in Nat
<1>1. shipper.got[s] \in Seq(WholeRecord)
  BY Zenon DEF ShipperType
<1>2. ASSUME shipper.got[s] # <<>>
      PROVE  shipper.got[s][Len(shipper.got[s])] \in WholeRecord
  BY <1>1, <1>2
<1>3. \A r \in WholeRecord : r.offset \in Nat
  BY Zenon DEF WholeRecord, Record
<1>4. 0 \in Nat
  OBVIOUS
<1> QED
  BY <1>2, <1>3, <1>4, Zenon DEF Delivered

\* Stages that a step leaves alone keep their types.
LEMMA TypesKept ==
  ASSUME setup' = setup
  PROVE  /\ joiner' = joiner /\ relay' = relay /\ JoinerType => JoinerType'
         /\ shipper' = shipper /\ ShipperType => ShipperType'
         /\ main' = main /\ admin' = admin /\ MainType => MainType'
         /\ src' = src /\ SrcType => SrcType'
<1>1. WholeRecord' = WholeRecord
  BY SetupKept, Zenon
<1>2. joiner' = joiner /\ relay' = relay /\ JoinerType => JoinerType'
  BY <1>1, Zenon DEF JoinerType, HeldType
<1>3. shipper' = shipper /\ ShipperType => ShipperType'
  BY <1>1, Zenon DEF ShipperType
<1>4. main' = main /\ admin' = admin /\ MainType => MainType'
  BY Zenon DEF MainType, MainState, MainPcs, Errors
<1>5. src' = src /\ SrcType => SrcType'
  BY Zenon DEF SrcType, SourceState
<1> QED
  BY <1>2, <1>3, <1>4, <1>5, Zenon

\* What the shipper has is unchanged by the others.
LEMMA GotKept ==
  ASSUME GotInv, shipper' = shipper
  PROVE  GotInv'
  BY Zenon DEF GotInv

\* A step of main that cuts nothing short keeps the flow.
LEMMA FlowKept ==
  ASSUME NEW t \in Sources, Flow(t), UNCHANGED <<src, chan, joiner, shipper>>, Clean' => Clean
  PROVE  Flow(t)'
<1>1. PICK a, b, c, d \in Nat :
        /\ RecordRun(chan["joined"], t, Delivered(t), a)
        /\ joiner.pc # "done" =>
             /\ RecordRun(joiner.outq, t, a, b) /\ HeldRun(joiner.held, t, b, c)
             /\ LineRun(chan["toJoiner"], t, c, d) /\ LineRun(chan["lines"], t, d, src[t].sent)
        /\ joiner.pc = "done" /\ Clean => a = src[t].sent
  BY Zenon DEF Flow
<1>2. Delivered(t)' = Delivered(t)
  BY Zenon DEF Delivered
<1> QED
  BY <1>1, <1>2, Zenon DEF Flow

\* A source adds to the end of its own run of lines and to no other.
LEMMA SourceFlows ==
  ASSUME PipeInv, NEW s \in Sources, SourceStep(s) \/ SourceFails(s) \/ Wedges(s)
  PROVE  PipeInv'
<1> DEFINE x == [src |-> s, n |-> src[s].sent + 1]
           q == Append(chan["lines"], x)
<1>1. Types /\ ChannelInv /\ SourceInv
  BY Zenon DEF PipeInv
<1>2. /\ "lines" \notin closed /\ UNCHANGED <<setup, closed, relay, joiner, shipper, main, admin>>
      /\ \A t \in Sources \ {s} : src'[t] = src[t]
      /\ SrcType' /\ SourceInv'
      /\ SendsNext(s) \/ (chan' = chan /\ src'[s].sent = src[s].sent)
  BY <1>1, SourceEffect, Zenon
<1>3. /\ \A t \in Sources : src[t].sent \in Nat
      /\ chan["lines"] \in Seq(LineIn) /\ Len(chan["lines"]) \in Nat
  <2>1. \A t \in Sources : src[t].sent \in Nat
    BY <1>1, Zenon DEF Types, SrcType, SourceState
  <2>2. chan["lines"] \in Seq(LineIn)
    BY <1>1, Zenon DEF Types, ChanType
  <2> QED
    BY <2>1, <2>2
<1>4. ASSUME SendsNext(s)
      PROVE  /\ x \in LineIn /\ x.src = s /\ x.n = src[s].sent + 1 /\ src'[s].sent = src[s].sent + 1
             /\ q \in Seq(LineIn) /\ Len(q) <= QueueCapacity
             /\ chan'["lines"] = q /\ chan' = [k \in Names |-> chan'[k]]
             /\ \A k \in Names \ {"lines"} : chan'[k] = chan[k]
  <2>1. x.src = s /\ x.n = src[s].sent + 1 /\ x \in Line
    <3>1. src[s].sent + 1 \in Nat \ {0}
      BY <1>3
    <3> QED
      BY <3>1, Zenon DEF Line
  <2>2. x \in LineIn /\ src'[s].sent = src[s].sent + 1
    BY <1>4, <2>1, Zenon DEF LineIn, SendsNext
  <2> HIDE DEF x
  <2>3. q \in Seq(LineIn) /\ Len(q) = Len(chan["lines"]) + 1
    BY <1>3, <2>2, SeqStep, Zenon
  <2>4. Len(chan["lines"]) < QueueCapacity /\ chan' = [chan EXCEPT !["lines"] = q]
    BY <1>4, Zenon DEF SendsNext, x
  <2> HIDE DEF q
  <2>5. Len(q) <= QueueCapacity
    BY <1>3, <2>3, <2>4, PipelineAssumption
  <2>6. /\ chan'["lines"] = q /\ chan' = [k \in Names |-> chan'[k]]
        /\ \A k \in Names \ {"lines"} : chan'[k] = chan[k]
    BY <1>1, <2>4, ChanSet, Zenon DEF Types, Names
  <2> QED
    BY <2>1, <2>2, <2>3, <2>5, <2>6, Zenon
<1> HIDE DEF x, q
<1>5. \A k \in Names \ {"lines"} : chan'[k] = chan[k]
  BY <1>2, <1>4, Zenon
<1>6. Types'
  <2>1. LineIn' = LineIn /\ WholeRecord' = WholeRecord
    BY <1>2, SetupKept, Zenon
  <2>2. ChanType'
    <3>1. CASE chan' = chan
      BY <1>1, <1>2, <2>1, <3>1, Zenon DEF Types, ChanType, Names
    <3>2. CASE SendsNext(s)
      BY <1>1, <1>2, <1>4, <2>1, <3>2, Zenon DEF Types, ChanType, Names
    <3> QED
      BY <1>2, <3>1, <3>2, Zenon
  <2> QED
    BY <1>1, <1>2, <2>2, TypesKept, Zenon DEF Types
<1>7. ChannelInv'
  BY <1>1, SourceKeeps, Zenon
<1>8. StageInv'
  <2>1. chan'["joined"] = chan["joined"] /\ chan'["toJoiner"] = chan["toJoiner"]
    BY <1>5, Zenon DEF Names
  <2>2. StageInv /\ ~(Clean /\ relay = "done")
    BY <1>2, Zenon DEF PipeInv, StageInv
  <2> QED
    BY <1>2, <2>1, <2>2, Zenon DEF StageInv, Clean
<1>9. MainInv'
  <2>1. MainInv /\ ~(main.pc \in {"joiner", "shipper"} \/ Finished)
    BY <1>2, Zenon DEF PipeInv, MainInv
  <2> QED
    BY <1>2, <2>1, Zenon DEF MainInv, Finished
<1>10. GotInv'
  BY <1>2, GotKept, Zenon DEF PipeInv
<1>11. ASSUME NEW t \in Sources PROVE Flow(t)'
  <2>1. PICK a, b, c, d \in Nat :
          /\ RecordRun(chan["joined"], t, Delivered(t), a)
          /\ joiner.pc # "done" =>
               /\ RecordRun(joiner.outq, t, a, b) /\ HeldRun(joiner.held, t, b, c)
               /\ LineRun(chan["toJoiner"], t, c, d) /\ LineRun(chan["lines"], t, d, src[t].sent)
    BY Zenon DEF PipeInv, Flow
  <2>2. Delivered(t)' = Delivered(t)
    BY <1>2, Zenon DEF Delivered
  <2>3. chan'["joined"] = chan["joined"] /\ chan'["toJoiner"] = chan["toJoiner"]
    BY <1>5, Zenon DEF Names
  <2>4. ~(joiner.pc = "done" /\ Clean)
    BY <1>1, <1>2, Zenon DEF PipeInv, StageInv, ChannelInv, Senders
  <2>5. ASSUME LineRun(chan["lines"], t, d, src[t].sent)
        PROVE  LineRun(chan'["lines"], t, d, src'[t].sent)
    <3>0. SendsNext(s) =>
            /\ x.src # t => LineRun(q, t, d, src[t].sent)
            /\ x.src = t /\ x.n = src[t].sent + 1 => LineRun(q, t, d, src[t].sent + 1)
      BY <1>3, <1>4, <2>5, LineAppend, Zenon DEF q
    <3>1. CASE SendsNext(s) /\ t = s
      BY <1>4, <3>0, <3>1, Zenon
    <3>2. CASE SendsNext(s) /\ t # s
      BY <1>2, <1>4, <3>0, <3>2, Zenon
    <3>3. CASE chan' = chan /\ src'[s].sent = src[s].sent
      BY <1>2, <2>5, <3>3, Zenon
    <3> QED
      BY <1>2, <3>1, <3>2, <3>3, Zenon
  <2> QED
    BY <1>2, <2>1, <2>2, <2>3, <2>4, <2>5, Zenon DEF Flow, Clean
<1> QED
  BY <1>2, <1>6, <1>7, <1>8, <1>9, <1>10, <1>11, Zenon DEF PipeInv

\* A run that was not cut short is still draining while a stage runs.
LEMMA DrainCut ==
  ASSUME PipeInv, DrainDone, Clean
  PROVE  relay = "done" /\ joiner.pc = "done" /\ shipper.pc = "done"
<1>1. main.pc = "returned" /\ "timeout" \notin main.errs
  BY Zenon DEF DrainDone, Clean
<1>2. Finished
  BY <1>1, Zenon DEF Finished
<1>3. shipper.pc = "done" /\ "joined" \in closed
  BY <1>2, Zenon DEF PipeInv, MainInv
<1>4. joiner.pc = "done"
  BY <1>3, Zenon DEF PipeInv, ChannelInv, Senders
<1>5. "toJoiner" \in closed
  BY <1>4, Zenon DEF PipeInv, StageInv
<1> QED
  BY <1>3, <1>4, <1>5, Zenon DEF PipeInv, ChannelInv, Senders

\* The relay moves the first line of lines to the end of toJoiner.
LEMMA RelayMovesFlows ==
  ASSUME PipeInv, RelayMoves
  PROVE  PipeInv'
<1> DEFINE l == Head(chan["lines"])
           q == Append(chan["toJoiner"], l)
<1>1. Types /\ ChannelInv /\ relay = "run" /\ "toJoiner" \notin closed
  BY Zenon DEF PipeInv, RelayMoves, ChannelInv, Senders
<1>2. /\ chan["lines"] \in Seq(LineIn) /\ chan["toJoiner"] \in Seq(LineIn) /\ chan["lines"] # <<>>
      /\ UNCHANGED <<setup, src, closed, relay, joiner, shipper, main, admin>>
      /\ Len(chan["toJoiner"]) < QueueCapacity /\ Len(chan["lines"]) <= QueueCapacity
      /\ DOMAIN chan = Names
  BY <1>1, Zenon DEF Types, ChanType, RelayMoves, RestOfRelay, CanTake, Room, Names
<1>3. /\ chan' = [k \in Names |-> chan'[k]] /\ chan'["lines"] = Tail(chan["lines"])
      /\ chan'["toJoiner"] = q /\ chan'["joined"] = chan["joined"]
  BY <1>2, Zenon DEF RelayMoves, Names
<1>4. l \in LineIn /\ Tail(chan["lines"]) \in Seq(LineIn) /\ q \in Seq(LineIn)
      /\ Len(Tail(chan["lines"])) <= QueueCapacity /\ Len(q) <= QueueCapacity
  BY <1>2, PipelineAssumption
<1> HIDE DEF l
<1>5. Types'
  <2>1. LineIn' = LineIn /\ WholeRecord' = WholeRecord
    BY <1>2, SetupKept, Zenon
  <2>2. ChanType'
    BY <1>1, <1>2, <1>3, <1>4, <2>1, Zenon DEF Types, ChanType, Names
  <2> QED
    BY <1>1, <1>2, <2>2, TypesKept, Zenon DEF Types
<1>6. ChannelInv'
  BY <1>1, RelayKeeps, Zenon DEF RelayStep
<1>7. SourceInv'
  BY <1>2, Zenon DEF PipeInv, SourceInv, Input
<1>8. StageInv'
  <2>1. StageInv /\ joiner.pc # "last"
    BY <1>1, Zenon DEF PipeInv, StageInv
  <2> QED
    BY <1>1, <1>2, <1>3, <2>1, Zenon DEF StageInv, Clean
<1>9. MainInv'
  BY <1>2, Zenon DEF PipeInv, MainInv, Finished
<1>10. GotInv'
  BY <1>2, GotKept, Zenon DEF PipeInv
<1>11. ASSUME NEW t \in Sources PROVE Flow(t)'
  <2>1. PICK a, b, c, d \in Nat :
          /\ RecordRun(chan["joined"], t, Delivered(t), a)
          /\ joiner.pc # "done" =>
               /\ RecordRun(joiner.outq, t, a, b) /\ HeldRun(joiner.held, t, b, c)
               /\ LineRun(chan["toJoiner"], t, c, d) /\ LineRun(chan["lines"], t, d, src[t].sent)
    BY Zenon DEF PipeInv, Flow
  <2>2. Delivered(t)' = Delivered(t)
    BY <1>2, Zenon DEF Delivered
  <2>3. ~(joiner.pc = "done" /\ Clean)
    BY <1>1, Zenon DEF PipeInv, StageInv
  <2>4. src[t].sent \in Nat /\ d + 1 \in Nat
    <3>1. src[t].sent \in Nat
      BY <1>1, Zenon DEF Types, SrcType, SourceState
    <3> QED
      BY <3>1
  <2>5. ASSUME LineRun(chan["toJoiner"], t, c, d), LineRun(chan["lines"], t, d, src[t].sent)
        PROVE  \E e \in Nat : /\ LineRun(q, t, c, e)
                              /\ LineRun(Tail(chan["lines"]), t, e, src[t].sent)
    <3>1. IF l.src = t THEN l.n = d + 1 /\ LineRun(Tail(chan["lines"]), t, d + 1, src[t].sent)
                       ELSE LineRun(Tail(chan["lines"]), t, d, src[t].sent)
      BY <1>2, <2>4, <2>5, LineTail, Zenon DEF l
    <3>2. /\ l.src # t => LineRun(q, t, c, d)
          /\ l.src = t /\ l.n = d + 1 => LineRun(q, t, c, d + 1)
      BY <1>2, <1>4, <2>5, LineAppend, Zenon
    <3> HIDE DEF q
    <3> QED
      BY <2>4, <3>1, <3>2, Zenon
  <2> HIDE DEF q
  <2> QED
    BY <1>2, <1>3, <2>1, <2>2, <2>3, <2>5, Zenon DEF Flow, Clean
<1> QED
  BY <1>5, <1>6, <1>7, <1>8, <1>9, <1>10, <1>11, Zenon DEF PipeInv

\* The relay returns only when lines is closed and empty, or the drain was cut.
LEMMA RelayEndsFlows ==
  ASSUME PipeInv, RelayEnds
  PROVE  PipeInv'
<1>1. /\ Types /\ ChannelInv /\ relay = "run" /\ relay' = "done" /\ closed' = closed \cup {"toJoiner"}
      /\ UNCHANGED <<setup, src, chan, joiner, shipper, main, admin>>
  BY Zenon DEF PipeInv, RelayEnds, RestOfRelay
<1>2. Clean => chan["lines"] = <<>> /\ "lines" \in closed
  <2>1. Clean => ~DrainDone
    BY <1>1, DrainCut, Zenon
  <2> QED
    BY <2>1, Zenon DEF RelayEnds, AtEnd
<1>3. Types'
  <2>1. LineIn' = LineIn /\ WholeRecord' = WholeRecord
    BY <1>1, SetupKept, Zenon
  <2>2. ChanType' /\ JoinerType'
    BY <1>1, <2>1, Zenon DEF Types, ChanType, JoinerType, HeldType, Names
  <2> QED
    BY <1>1, <2>2, TypesKept, Zenon DEF Types
<1>4. ChannelInv'
  BY <1>1, RelayKeeps, Zenon DEF RelayStep
<1>5. SourceInv'
  BY <1>1, Zenon DEF PipeInv, SourceInv, Input
<1>6. StageInv'
  BY <1>1, <1>2, Zenon DEF PipeInv, StageInv, Clean
<1>7. MainInv'
  BY <1>1, Zenon DEF PipeInv, MainInv, Finished
<1>8. GotInv'
  BY <1>1, GotKept, Zenon DEF PipeInv
<1>9. ASSUME NEW t \in Sources PROVE Flow(t)'
  BY <1>1, FlowKept, Zenon DEF PipeInv, Clean
<1> QED
  BY <1>3, <1>4, <1>5, <1>6, <1>7, <1>8, <1>9, Zenon DEF PipeInv

\* One record is a run.
LEMMA RecordOne ==
  ASSUME NEW x, NEW s, NEW a \in Nat, NEW b \in Nat,
         IF x.src = s THEN x.start = a + 1 /\ x.offset = b ELSE b = a
  PROVE  RecordRun(<<x>>, s, a, b)
<1>1. RecordRun(<<>>, s, a, a)
  BY RecordEmpty, Zenon
<1>2. Append(<<>>, x) = <<x>> /\ <<>> \in Seq({x})
  OBVIOUS
<1>3. x.src # s => RecordRun(<<x>>, s, a, a)
  BY <1>1, <1>2, RecordAppend, Zenon
<1>4. x.src = s /\ x.start = a + 1 /\ x.offset \in Nat => RecordRun(<<x>>, s, a, x.offset)
  BY <1>1, <1>2, RecordAppend, Zenon
<1> QED
  BY <1>3, <1>4, Zenon

\* The record absorb starts with a line.
LEMMA NewHeldWhole ==
  ASSUME setup \in Setups, NEW l \in LineIn
  PROVE  /\ NewHeld(l) \in WholeRecord
         /\ NewHeld(l).src = l.src /\ NewHeld(l).start = l.n /\ NewHeld(l).offset = l.n
<1>1. l.src \in Sources /\ l.n \in Nat \ {0} /\ l.n <= Len(Input[l.src])
  BY Zenon DEF LineIn, Line
<1> DEFINE k == l.n
           L == LenOf(l)
<1>2. L \in 0 .. MaxMessageLen /\ MaxMessageLen \in Nat /\ MaxLines \in Nat \ {0}
  <2>1. k \in 1 .. Len(Input[l.src])
    BY <1>1, InputIs
  <2>2. MaxMessageLen \in Nat /\ MaxLines \in Nat \ {0}
    BY PipelineAssumption
  <2> QED
    BY <1>1, <2>1, <2>2, InputIs, Zenon DEF LenOf
<1> DEFINE r == [src |-> l.src, start |-> k, offset |-> k, len |-> L, lines |-> 1]
<1>3. NewHeld(l) = r
  BY Zenon DEF NewHeld
<1>4. IsJoinedLen(L, l.src, k, k)
  <2> DEFINE f == [i \in k .. k |-> L]
  <2>1. /\ f \in [k .. k -> 0 .. L] /\ f[k] = L
        /\ \A n \in (k + 1) .. k : FALSE
    BY <1>1, <1>2
  <2>2. L = Input[l.src][k].len
    BY Zenon DEF LenOf
  <2> HIDE DEF f, k, L
  <2> QED
    BY <2>1, <2>2, Zenon DEF IsJoinedLen
<1>5. L \in Nat /\ k \in Nat \ {0} /\ 1 \in Nat \ {0} /\ 1 = k - k + 1 /\ k <= k /\ L <= MaxMessageLen
      /\ 1 <= MaxLines /\ \A n \in (k + 1) .. k : FALSE
  BY <1>1, <1>2
<1>6. k <= Len(Input[l.src])
  BY <1>1, Zenon
<1> HIDE DEF k, L
<1>7. r \in Record
  BY <1>1, <1>5, Zenon DEF Record
<1>8. Whole(r)
  BY <1>4, <1>5, <1>6, <1>7, Zenon DEF Whole
<1>9. r.src = l.src /\ r.start = l.n /\ r.offset = l.n
  BY Zenon DEF k
<1> HIDE DEF r
<1>10. r \in WholeRecord
  BY <1>7, <1>8, Zenon DEF WholeRecord
<1> QED
  BY <1>3, <1>9, <1>10, Zenon

\* The record absorb extends with a line that continues it.
LEMMA ExtendWhole ==
  ASSUME setup \in Setups, setup.joining, NEW h \in WholeRecord, NEW l \in LineIn,
         l.src = h.src, l.n = h.offset + 1, Continues(l), ~Overflows(h, l)
  PROVE  /\ Extend(h, l) \in WholeRecord
         /\ Extend(h, l).src = h.src /\ Extend(h, l).start = h.start /\ Extend(h, l).offset = l.n
<1>1. /\ h = [src |-> h.src, start |-> h.start, offset |-> h.offset, len |-> h.len, lines |-> h.lines]
      /\ h.src \in Sources /\ h.start \in Nat \ {0} /\ h.offset \in Nat \ {0} /\ h.len \in Nat
      /\ h.lines \in Nat \ {0}
  BY Zenon DEF WholeRecord, Record
<1>2. /\ h.start <= h.offset /\ h.lines = h.offset - h.start + 1
      /\ \A n \in (h.start + 1) .. h.offset : Input[h.src][n].cont
      /\ IsJoinedLen(h.len, h.src, h.start, h.offset)
  BY Zenon DEF WholeRecord, Whole
<1>3. l.n \in Nat \ {0} /\ l.n <= Len(Input[h.src])
  BY Zenon DEF LineIn, Line
<1>4. LenOf(l) = Input[h.src][l.n].len /\ LenOf(l) \in Nat /\ Input[h.src][l.n].cont
  <2>1. LenOf(l) = Input[h.src][l.n].len /\ Input[h.src][l.n].cont
    BY Zenon DEF LenOf, Continues
  <2>2. l.n \in 1 .. Len(Input[h.src])
    BY <1>1, <1>3, InputIs
  <2>3. LenOf(l) \in 0 .. MaxMessageLen
    BY <1>1, <2>1, <2>2, InputIs, Zenon
  <2>4. MaxMessageLen \in Nat
    BY PipelineAssumption
  <2> QED
    BY <2>1, <2>3, <2>4
<1>5. PICK a, b, k, z, L, M, N, sep :
        /\ a = h.start /\ b = h.offset /\ k = l.n /\ z = LenOf(l) /\ L = h.len + Sep(h) + LenOf(l)
        /\ M = h.len /\ N = h.lines + 1 /\ sep = Sep(h)
  BY Zenon
<1>6. /\ a \in Nat \ {0} /\ b \in Nat /\ k = b + 1 /\ a <= b /\ M \in Nat /\ z \in Nat
      /\ sep = (IF M > 0 THEN 1 ELSE 0)
      /\ L = M + sep + z /\ L \in Nat /\ N \in Nat \ {0} /\ N = k - a + 1
      /\ L <= MaxMessageLen /\ N <= MaxLines
  <2>1. sep = (IF M > 0 THEN 1 ELSE 0) /\ sep \in 0 .. 1
    BY <1>1, <1>5 DEF Sep
  <2>2. MaxMessageLen \in Nat /\ MaxLines \in Nat
    BY PipelineAssumption
  <2>3. ~(L > MaxMessageLen) /\ ~(N > MaxLines)
    BY <1>5, Zenon DEF Overflows
  <2>4. h.start \in Nat \ {0} /\ h.offset \in Nat /\ h.len \in Nat /\ h.lines \in Nat \ {0} /\ LenOf(l) \in Nat
    BY <1>1, <1>4
  <2> QED
    BY <1>2, <1>5, <2>1, <2>2, <2>3, <2>4
<1>7. IsJoinedLen(L, h.src, a, k)
  <2>1. PICK f \in [a .. b -> 0 .. M] :
          /\ f[a] = Input[h.src][a].len /\ f[b] = M
          /\ \A n \in (a + 1) .. b :
               f[n] = f[n - 1] + (IF f[n - 1] > 0 THEN 1 ELSE 0) + Input[h.src][n].len
    BY <1>2, <1>5, Zenon DEF IsJoinedLen
  <2> DEFINE g == [n \in a .. k |-> IF n = k THEN L ELSE f[n]]
  <2>2. g \in [a .. k -> 0 .. L]
    BY <1>6
  <2>3. g[a] = f[a] /\ g[k] = L /\ \A n \in a .. b : g[n] = f[n]
    BY <1>6
  <2>4. ASSUME NEW n \in (a + 1) .. k
        PROVE  g[n] = g[n - 1] + (IF g[n - 1] > 0 THEN 1 ELSE 0) + Input[h.src][n].len
    <3>1. CASE n = k
      <4>1. g[n] = L /\ g[n - 1] = M
        BY <1>6, <2>1, <3>1
      <4>2. Input[h.src][n].len = z
        BY <1>4, <1>5, <3>1, Zenon
      <4> HIDE DEF g
      <4> QED
        BY <1>6, <4>1, <4>2
    <3>2. CASE n # k
      <4>1. n \in (a + 1) .. b /\ g[n] = f[n] /\ g[n - 1] = f[n - 1]
        BY <1>6, <3>2
      <4> HIDE DEF g
      <4> QED
        BY <2>1, <4>1
    <3> QED
      BY <3>1, <3>2, Zenon
  <2> HIDE DEF g
  <2>5. g[a] = Input[h.src][a].len
    BY <2>1, <2>3, Zenon
  <2> QED
    BY <2>2, <2>3, <2>4, <2>5, Zenon DEF IsJoinedLen
<1>8. \A n \in (a + 1) .. k : Input[h.src][n].cont
  <2>1. \A n \in (a + 1) .. k : n = k \/ n \in (a + 1) .. b
    BY <1>6
  <2> QED
    BY <1>2, <1>4, <1>5, <2>1, Zenon
<1> DEFINE r == [src |-> h.src, start |-> a, offset |-> k, len |-> L, lines |-> N]
<1>9. Extend(h, l) = r
  <2>1. PICK p : p = [h EXCEPT !.len = L]
    BY Zenon
  <2>2. p = [src |-> h.src, start |-> h.start, offset |-> h.offset, len |-> L, lines |-> h.lines]
    BY <1>1, <2>1
  <2>3. PICK q : q = [p EXCEPT !.lines = N]
    BY Zenon
  <2>4. q = [src |-> h.src, start |-> h.start, offset |-> h.offset, len |-> L, lines |-> N]
    BY <2>2, <2>3
  <2>5. [q EXCEPT !.offset = k] = [src |-> h.src, start |-> h.start, offset |-> k, len |-> L, lines |-> N]
    BY <2>4
  <2>6. Extend(h, l) = [h EXCEPT !.len = L, !.lines = N, !.offset = k]
    BY <1>5, Zenon DEF Extend
  <2>7. [h EXCEPT !.len = L, !.lines = N, !.offset = k] = [q EXCEPT !.offset = k]
    BY <2>1, <2>3, Zenon
  <2> QED
    BY <1>5, <2>5, <2>6, <2>7, Zenon
<1>10. r.src = h.src /\ r.start = h.start /\ r.offset = l.n /\ r.len = L /\ r.lines = N
       /\ r.start = a /\ r.offset = k /\ r \in Record
  <2>1. k \in Nat \ {0}
    BY <1>6
  <2> QED
    BY <1>1, <1>5, <1>6, <2>1, Zenon DEF Record
<1> HIDE DEF r
<1>11. a <= k /\ k <= Len(Input[h.src])
  <2>1. k <= Len(Input[h.src])
    BY <1>3, <1>5, Zenon
  <2> QED
    BY <1>6, <2>1
<1>12. Whole(r)
  BY <1>6, <1>7, <1>8, <1>10, <1>11, Zenon DEF Whole
<1> QED
  BY <1>9, <1>10, <1>12, Zenon DEF WholeRecord

\* What the joiner keeps and what it has to send once it has taken line l, which
\* comes next in its source.
Absorbs(l, H, O) ==
  \A t \in Sources : \A a, c \in Nat :
    HeldRun(joiner.held, t, a, c) /\ (l.src = t => l.n = c + 1)
      => \E b \in Nat : RecordRun(O, t, a, b) /\ HeldRun(H, t, b, IF l.src = t THEN l.n ELSE c)

\* absorb starts a record, ends one and starts the next, or extends one.
LEMMA AbsorbIs ==
  ASSUME Types, JoinerWaits, setup.joining, NEW l \in LineIn,
         l.src \in DOMAIN joiner.held => l.n = joiner.held[l.src].offset + 1
  PROVE  \E H, O : /\ Absorb(l) = [pc |-> "run", held |-> H, outq |-> O]
                   /\ HeldType(H) /\ O \in Seq(WholeRecord) /\ Absorbs(l, H, O)
<1>1. PICK j, held, s, x : j = joiner /\ held = joiner.held /\ s = l.src /\ x = NewHeld(l)
  BY Zenon
<1>2. j = [pc |-> "run", held |-> held, outq |-> <<>>] /\ HeldType(held) /\ setup \in Setups
  BY <1>1, Zenon DEF Types, JoinerType, JoinerWaits
<1>3. s \in Sources /\ l.n \in Nat
  BY <1>1 DEF LineIn, Line
<1>4. x \in WholeRecord /\ x.src = s /\ x.start = l.n /\ x.offset = l.n
  BY <1>1, <1>2, NewHeldWhole, Zenon
<1>5. \A r \in WholeRecord : r.offset \in Nat /\ <<r>> \in Seq(WholeRecord) /\ <<>> \in Seq(WholeRecord)
  <2>1. \A r \in WholeRecord : r.offset \in Nat
    BY Zenon DEF WholeRecord, Record
  <2>2. \A r \in WholeRecord : <<r>> \in Seq(WholeRecord) /\ <<>> \in Seq(WholeRecord)
    OBVIOUS
  <2> QED
    BY <2>1, <2>2, Zenon
<1>6. CASE s \notin DOMAIN held
  <2>1. PICK H : H = With(held, x)
    BY Zenon
  <2>2. /\ DOMAIN H = DOMAIN held \cup {s} /\ H[s] = x /\ \A t \in DOMAIN held \ {s} : H[t] = held[t]
        /\ H = [t \in DOMAIN H |-> H[t]]
    BY <1>4, <2>1, Zenon DEF With
  <2>3. HeldType(H)
    BY <1>2, <1>3, <1>4, <2>2, Zenon DEF HeldType
  <2>4. Absorb(l) = [j EXCEPT !.held = H]
    BY <1>1, <1>6, <2>1, Zenon DEF Absorb
  <2>5. [j EXCEPT !.held = H] = [pc |-> "run", held |-> H, outq |-> <<>>]
    BY <1>2
  <2>6. ASSUME NEW t \in Sources, NEW a \in Nat, NEW c \in Nat, HeldRun(held, t, a, c), s = t => l.n = c + 1
        PROVE  RecordRun(<<>>, t, a, a) /\ HeldRun(H, t, a, IF s = t THEN l.n ELSE c)
    <3>1. RecordRun(<<>>, t, a, a)
      BY RecordEmpty, Zenon
    <3>2. CASE s = t
      BY <1>4, <1>6, <2>2, <2>6, <3>1, <3>2, Zenon DEF HeldRun
    <3>3. CASE s # t
      BY <2>2, <2>6, <3>1, <3>3, Zenon DEF HeldRun
    <3> QED
      BY <3>2, <3>3, Zenon
  <2>7. Absorbs(l, H, <<>>)
    BY <1>1, <2>6, Zenon DEF Absorbs
  <2> QED
    BY <1>4, <1>5, <2>3, <2>4, <2>5, <2>7, Zenon
<1>7. ASSUME s \in DOMAIN held, ~Continues(l) \/ Overflows(held[s], l)
      PROVE  \E H, O : /\ Absorb(l) = [pc |-> "run", held |-> H, outq |-> O]
                       /\ HeldType(H) /\ O \in Seq(WholeRecord) /\ Absorbs(l, H, O)
  <2>1. PICK H, h : H = With(Without(held, {s}), x) /\ h = held[s]
    BY Zenon
  <2>2. /\ DOMAIN H = DOMAIN held \cup {s} /\ H[s] = x /\ \A t \in DOMAIN held \ {s} : H[t] = held[t]
        /\ H = [t \in DOMAIN H |-> H[t]]
    BY <1>4, <2>1, Zenon DEF With, Without
  <2>3. HeldType(H) /\ h \in WholeRecord /\ h.src = s
    <3>1. h \in WholeRecord /\ h.src = s
      BY <1>2, <1>7, <2>1, Zenon DEF HeldType
    <3>2. HeldType(H)
      BY <1>2, <1>3, <1>4, <2>2, Zenon DEF HeldType
    <3> QED
      BY <3>1, <3>2, Zenon
  <2>4. Absorb(l) = [j EXCEPT !.held = H, !.outq = <<h>>]
    BY <1>1, <1>7, <2>1, Zenon DEF Absorb
  <2>5. [j EXCEPT !.held = H, !.outq = <<h>>] = [pc |-> "run", held |-> H, outq |-> <<h>>]
    <3>1. PICK p, q : p = [j EXCEPT !.held = H] /\ q = <<h>>
      BY Zenon
    <3>2. p = [pc |-> "run", held |-> H, outq |-> <<>>]
      BY <1>2, <3>1
    <3>3. [p EXCEPT !.outq = q] = [pc |-> "run", held |-> H, outq |-> q]
      BY <3>2
    <3>4. [j EXCEPT !.held = H, !.outq = q] = [p EXCEPT !.outq = q]
      BY <3>1, Zenon
    <3> QED
      BY <3>1, <3>3, <3>4, Zenon
  <2>6. ASSUME NEW t \in Sources, NEW a \in Nat, NEW c \in Nat, HeldRun(held, t, a, c), s = t => l.n = c + 1
        PROVE  \E b \in Nat : RecordRun(<<h>>, t, a, b) /\ HeldRun(H, t, b, IF s = t THEN l.n ELSE c)
    <3>2. CASE s = t
      <4>1. h.start = a + 1 /\ c = h.offset
        BY <1>7, <2>1, <2>6, <3>2, Zenon DEF HeldRun
      <4>2. RecordRun(<<h>>, t, a, c)
        BY <2>3, <3>2, <4>1, RecordOne, Zenon
      <4>3. HeldRun(H, t, c, l.n)
        BY <1>4, <2>2, <2>6, <3>2, Zenon DEF HeldRun
      <4> QED
        BY <3>2, <4>2, <4>3, Zenon
    <3>3. CASE s # t
      <4>1. RecordRun(<<h>>, t, a, a)
        BY <2>3, <3>3, RecordOne, Zenon
      <4>2. HeldRun(H, t, a, c)
        BY <2>2, <2>6, <3>3, Zenon DEF HeldRun
      <4> QED
        BY <3>3, <4>1, <4>2, Zenon
    <3> QED
      BY <3>2, <3>3, Zenon
  <2>7. Absorbs(l, H, <<h>>)
    BY <1>1, <2>6, Zenon DEF Absorbs
  <2> QED
    BY <1>5, <2>3, <2>4, <2>5, <2>7, Zenon
<1>8. ASSUME s \in DOMAIN held, Continues(l), ~Overflows(held[s], l)
      PROVE  \E H, O : /\ Absorb(l) = [pc |-> "run", held |-> H, outq |-> O]
                       /\ HeldType(H) /\ O \in Seq(WholeRecord) /\ Absorbs(l, H, O)
  <2>1. PICK H, e : e = Extend(held[s], l) /\ H = [held EXCEPT ![s] = e]
    BY Zenon
  <2>2. /\ DOMAIN H = DOMAIN held /\ H[s] = e /\ \A t \in DOMAIN held \ {s} : H[t] = held[t]
        /\ H = [t \in DOMAIN H |-> H[t]]
    BY <1>8, <2>1, Zenon
  <2>3. e \in WholeRecord /\ e.src = s /\ e.start = held[s].start /\ e.offset = l.n
    <3>1. held[s] \in WholeRecord /\ held[s].src = s
      BY <1>2, <1>8, Zenon DEF HeldType
    <3>2. l.src = held[s].src /\ l.n = held[s].offset + 1
      BY <1>1, <1>8, <3>1, Zenon
    <3> QED
      BY <1>1, <1>2, <1>8, <2>1, <3>1, <3>2, ExtendWhole, Zenon
  <2>4. HeldType(H)
    <3>1. ASSUME NEW t \in DOMAIN H PROVE H[t] \in WholeRecord /\ H[t].src = t
      <4>1. CASE t = s
        BY <2>2, <2>3, <4>1, Zenon
      <4>2. CASE t # s
        BY <1>2, <2>2, <3>1, <4>2, Zenon DEF HeldType
      <4> QED
        BY <4>1, <4>2, Zenon
    <3>2. DOMAIN H \subseteq Sources
      BY <1>2, <2>2, Zenon DEF HeldType
    <3>3. H = [t \in DOMAIN H |-> H[t]]
      BY <2>2, Zenon
    <3> QED
      BY <3>1, <3>2, <3>3, Zenon DEF HeldType
  <2>5. Absorb(l) = [j EXCEPT !.held[s] = e]
    BY <1>1, <1>8, <2>1, Zenon DEF Absorb
  <2>6. [j EXCEPT !.held[s] = e] = [pc |-> "run", held |-> H, outq |-> <<>>]
    <3>1. [j EXCEPT !.held[s] = e] = [j EXCEPT !.held = [held EXCEPT ![s] = e]]
      <4>1. j.held = held
        BY <1>1, Zenon
      <4> QED
        BY <4>1, Zenon
    <3>2. [j EXCEPT !.held = H] = [pc |-> "run", held |-> H, outq |-> <<>>]
      BY <1>2
    <3> QED
      BY <2>1, <3>1, <3>2, Zenon
  <2>7. ASSUME NEW t \in Sources, NEW a \in Nat, NEW c \in Nat, HeldRun(held, t, a, c), s = t => l.n = c + 1
        PROVE  RecordRun(<<>>, t, a, a) /\ HeldRun(H, t, a, IF s = t THEN l.n ELSE c)
    <3>1. RecordRun(<<>>, t, a, a)
      BY RecordEmpty, Zenon
    <3>2. CASE s = t
      BY <1>8, <2>2, <2>3, <2>7, <3>1, <3>2, Zenon DEF HeldRun
    <3>3. CASE s # t
      BY <2>2, <2>7, <3>1, <3>3, Zenon DEF HeldRun
    <3> QED
      BY <3>2, <3>3, Zenon
  <2>8. Absorbs(l, H, <<>>)
    BY <1>1, <2>7, Zenon DEF Absorbs
  <2> QED
    BY <1>4, <1>5, <2>4, <2>5, <2>6, <2>8, Zenon
<1> QED
  BY <1>6, <1>7, <1>8, Zenon

\* What a step of the joiner leaves to show.
LEMMA JoinerRest ==
  ASSUME PipeInv, UNCHANGED <<setup, src, closed, relay, shipper, main, admin>>, JoinerStep,
         JoinerType', ChanType', StageInv', \A t \in Sources : Flow(t)'
  PROVE  PipeInv'
<1>1. Types'
  BY TypesKept, Zenon DEF PipeInv, Types
<1>2. ChannelInv'
  BY JoinerKeeps, Zenon DEF PipeInv
<1>3. SourceInv'
  BY Zenon DEF PipeInv, SourceInv, Input
<1>4. MainInv'
  BY Zenon DEF PipeInv, MainInv, Finished
<1>5. GotInv'
  BY GotKept, Zenon DEF PipeInv
<1> QED
  BY <1>1, <1>2, <1>3, <1>4, <1>5, Zenon DEF PipeInv

\* The joiner's own part of a step of it.
LEMMA JoinerIs ==
  ASSUME setup' = setup, relay' = relay, JoinerType, NEW p \in {"run", "last", "done"}, NEW H, NEW O,
         joiner' = [pc |-> p, held |-> H, outq |-> O], HeldType(H), O \in Seq(WholeRecord)
  PROVE  JoinerType' /\ joiner'.pc = p /\ joiner'.held = H /\ joiner'.outq = O
<1>1. WholeRecord' = WholeRecord
  BY SetupKept, Zenon
<1>2. joiner'.pc = p /\ joiner'.held = H /\ joiner'.outq = O
  OBVIOUS
<1>3. HeldType(joiner'.held)
  BY <1>2, Zenon
<1> QED
  BY <1>1, <1>2, <1>3, Zenon DEF JoinerType, HeldType

\* A line the joiner takes is the next of its source, and joins or follows what
\* is held of that source.
LEMMA JoinerTakesFlows ==
  ASSUME PipeInv, JoinerTakes
  PROVE  PipeInv'
<1>1. PICK l, q, held : l = Head(chan["toJoiner"]) /\ q = chan["toJoiner"] /\ held = joiner.held
  BY Zenon
<1>2. /\ Types /\ q \in Seq(LineIn) /\ q # <<>> /\ joiner.pc = "run" /\ joiner.outq = <<>>
      /\ UNCHANGED <<setup, src, closed, relay, shipper, main, admin>>
      /\ chan' = [chan EXCEPT !["toJoiner"] = Tail(q)] /\ HeldType(held)
      /\ Len(q) <= QueueCapacity /\ StageInv
      /\ joiner' = IF setup.joining THEN Absorb(l) ELSE [joiner EXCEPT !.outq = <<NewHeld(l)>>]
  BY <1>1, Zenon DEF PipeInv, Types, ChanType, JoinerType, JoinerTakes, JoinerWaits, CanTake, Take,
     RestOfJoiner, Names
<1>3. l = Head(q) /\ l \in LineIn /\ Tail(q) \in Seq(LineIn) /\ Len(Tail(q)) <= QueueCapacity
  BY <1>1, <1>2, PipelineAssumption
<1>4. l.src \in Sources
  BY <1>3, Zenon DEF LineIn, Line
<1>5. /\ chan'["toJoiner"] = Tail(q) /\ chan'["lines"] = chan["lines"] /\ chan'["joined"] = chan["joined"]
      /\ chan' = [k \in Names |-> chan'[k]]
  <2>1. DOMAIN chan = Names
    BY <1>2, Zenon DEF Types, ChanType
  <2> QED
    BY <1>2, <2>1, Zenon DEF Names
<1>6. \A t \in Sources : \E a, c, d \in Nat :
        /\ RecordRun(chan["joined"], t, Delivered(t), a)
        /\ HeldRun(held, t, a, c) /\ (l.src = t => l.n = c + 1)
        /\ LineRun(Tail(q), t, IF l.src = t THEN l.n ELSE c, d) /\ LineRun(chan["lines"], t, d, src[t].sent)
  <2>1. ASSUME NEW t \in Sources
        PROVE  \E a, c, d \in Nat :
                 /\ RecordRun(chan["joined"], t, Delivered(t), a)
                 /\ HeldRun(held, t, a, c) /\ (l.src = t => l.n = c + 1)
                 /\ LineRun(Tail(q), t, IF l.src = t THEN l.n ELSE c, d)
                 /\ LineRun(chan["lines"], t, d, src[t].sent)
    <3>1. PICK a, b, c, d \in Nat :
            /\ RecordRun(chan["joined"], t, Delivered(t), a)
            /\ RecordRun(<<>>, t, a, b) /\ HeldRun(held, t, b, c)
            /\ LineRun(q, t, c, d) /\ LineRun(chan["lines"], t, d, src[t].sent)
      BY <1>1, <1>2, Zenon DEF PipeInv, Flow
    <3>2. a = b
      BY <3>1, RecordEmpty, Zenon
    <3>3. IF l.src = t THEN l.n = c + 1 /\ LineRun(Tail(q), t, c + 1, d) ELSE LineRun(Tail(q), t, c, d)
      BY <1>2, <1>3, <3>1, LineTail, Zenon
    <3> QED
      BY <3>1, <3>2, <3>3, Zenon
  <2> QED
    BY <2>1, Zenon
<1>7. \E H, O : /\ joiner' = [pc |-> "run", held |-> H, outq |-> O]
                /\ HeldType(H) /\ O \in Seq(WholeRecord) /\ Absorbs(l, H, O)
                /\ ~setup.joining => DOMAIN H = {}
  <2>1. CASE setup.joining
    <3>1. l.src \in DOMAIN held => l.n = held[l.src].offset + 1
      BY <1>4, <1>6, Zenon DEF HeldRun
    <3>2. \E H, O : /\ Absorb(l) = [pc |-> "run", held |-> H, outq |-> O]
                    /\ HeldType(H) /\ O \in Seq(WholeRecord) /\ Absorbs(l, H, O)
      BY <1>1, <1>2, <1>3, <2>1, <3>1, AbsorbIs, Zenon DEF JoinerWaits
    <3> QED
      BY <1>2, <2>1, <3>2, Zenon
  <2>2. CASE ~setup.joining
    <3>1. PICK j, x, O : j = joiner /\ x = NewHeld(l) /\ O = <<x>>
      BY Zenon
    <3>2. DOMAIN held = {}
      BY <1>1, <1>2, <2>2, Zenon DEF StageInv
    <3>3. x \in WholeRecord /\ x.src = l.src /\ x.start = l.n /\ x.offset = l.n
      BY <1>2, <1>3, <3>1, NewHeldWhole, Zenon DEF Types
    <3>4. j = [pc |-> "run", held |-> held, outq |-> <<>>] /\ joiner' = [j EXCEPT !.outq = O]
      BY <1>1, <1>2, <2>2, <3>1, Zenon DEF Types, JoinerType
    <3>5. [j EXCEPT !.outq = O] = [pc |-> "run", held |-> held, outq |-> O] /\ O \in Seq(WholeRecord)
      BY <3>1, <3>3, <3>4
    <3>6. ASSUME NEW t \in Sources, NEW a \in Nat, NEW c \in Nat, HeldRun(held, t, a, c), l.src = t => l.n = c + 1
          PROVE  \E b \in Nat : RecordRun(O, t, a, b) /\ HeldRun(held, t, b, IF l.src = t THEN l.n ELSE c)
      <4>1. c = a /\ \A b \in Nat : HeldRun(held, t, b, b)
        BY <3>2, <3>6, Zenon DEF HeldRun
      <4>2. c + 1 \in Nat
        OBVIOUS
      <4>3. RecordRun(O, t, a, IF l.src = t THEN c + 1 ELSE c)
        BY <3>1, <3>3, <3>6, <4>1, <4>2, RecordOne, Zenon
      <4> QED
        BY <3>6, <4>1, <4>2, <4>3, Zenon
    <3>7. Absorbs(l, held, O)
      BY <1>1, <3>6, Zenon DEF Absorbs
    <3> QED
      BY <1>2, <3>2, <3>4, <3>5, <3>7, Zenon
  <2> QED
    BY <2>1, <2>2, Zenon
<1>8. PICK H, O : /\ joiner' = [pc |-> "run", held |-> H, outq |-> O]
                  /\ HeldType(H) /\ O \in Seq(WholeRecord) /\ Absorbs(l, H, O)
                  /\ ~setup.joining => DOMAIN H = {}
  BY <1>7, Zenon
<1>9. JoinerType' /\ joiner'.pc = "run" /\ joiner'.held = H /\ joiner'.outq = O
  BY <1>2, <1>8, JoinerIs, Zenon DEF Types
<1>10. ChanType'
  <2>1. LineIn' = LineIn /\ WholeRecord' = WholeRecord
    BY <1>2, SetupKept, Zenon
  <2> QED
    BY <1>2, <1>3, <1>5, <2>1, Zenon DEF Types, ChanType, Names
<1>11. StageInv'
  BY <1>2, <1>5, <1>8, <1>9, Zenon DEF StageInv, Clean
<1>12. ASSUME NEW t \in Sources PROVE Flow(t)'
  <2>1. PICK a, c, d \in Nat :
          /\ RecordRun(chan["joined"], t, Delivered(t), a)
          /\ HeldRun(held, t, a, c) /\ (l.src = t => l.n = c + 1)
          /\ LineRun(Tail(q), t, IF l.src = t THEN l.n ELSE c, d) /\ LineRun(chan["lines"], t, d, src[t].sent)
    BY <1>6, Zenon
  <2>2. PICK b \in Nat : RecordRun(O, t, a, b) /\ HeldRun(H, t, b, IF l.src = t THEN l.n ELSE c)
    BY <1>1, <1>8, <2>1, Zenon DEF Absorbs
  <2>3. PICK e : e = IF l.src = t THEN l.n ELSE c
    BY Zenon
  <2>4. e \in Nat
    <3>1. c + 1 \in Nat
      OBVIOUS
    <3> QED
      BY <2>1, <2>3, <3>1, Zenon
  <2>5. Delivered(t)' = Delivered(t)
    BY <1>2, Zenon DEF Delivered
  <2>6. HeldRun(H, t, b, e) /\ LineRun(Tail(q), t, e, d)
    BY <2>1, <2>2, <2>3, Zenon
  <2>7. RecordRun(O, t, a, b) /\ RecordRun(chan["joined"], t, Delivered(t), a)
        /\ LineRun(chan["lines"], t, d, src[t].sent)
    BY <2>1, <2>2, Zenon
  <2> QED
    BY <1>2, <1>5, <1>9, <2>4, <2>5, <2>6, <2>7, Zenon DEF Flow
<1> QED
  BY <1>2, <1>9, <1>10, <1>11, <1>12, JoinerRest, Zenon DEF JoinerStep

\* Records that leave what is held, each once, follow what was sent before them.
LEMMA FlushIs ==
  ASSUME NEW held, HeldType(held), NEW due, due \subseteq DOMAIN held, NEW order \in Orders(due),
         NEW O, O = [i \in DOMAIN order |-> held[order[i]]], NEW H,
         HeldType(H), DOMAIN H = DOMAIN held \ due, \A s \in DOMAIN H : H[s] = held[s]
  PROVE  /\ O \in Seq(WholeRecord)
         /\ \A t \in Sources : \A a, c \in Nat :
              HeldRun(held, t, a, c) => \E b \in Nat : RecordRun(O, t, a, b) /\ HeldRun(H, t, b, c)
<1>1. PICK n \in Nat : Visits(order, n, due)
  BY OrdersIs, Zenon
<1>2. \A k \in due : held[k] \in WholeRecord /\ held[k].src = k
  BY Zenon DEF HeldType
<1>3. order \in [1 .. n -> due] /\ O = [i \in 1 .. n |-> held[order[i]]]
  BY <1>1, Zenon DEF Visits
<1>4. O \in Seq(WholeRecord)
  <2>1. \A i \in 1 .. n : held[order[i]] \in WholeRecord
    BY <1>2, <1>3, Zenon
  <2> QED
    BY <1>3, <2>1
<1>5. ASSUME NEW t \in Sources, NEW a \in Nat, NEW b \in Nat, HeldDue(held, due, t, a, b)
      PROVE  RecordRun(O, t, a, b)
  <2>1. Len(O) = n /\ \A i \in 1 .. n : O[i] = held[order[i]]
    BY <1>3
  <2>2. \A k \in due : held[k].src = k
    BY <1>2, Zenon
  <2> QED
    BY <1>1, <1>5, <2>1, <2>2, FlushRun, Zenon
<1>6. ASSUME NEW t \in Sources, NEW a \in Nat, NEW c \in Nat, HeldRun(held, t, a, c)
      PROVE  \E b \in Nat : RecordRun(O, t, a, b) /\ HeldRun(H, t, b, c)
  <2>1. CASE t \in due
    <3>1. held[t].start = a + 1 /\ c = held[t].offset
      BY <1>6, <2>1, Zenon DEF HeldRun
    <3>2. RecordRun(O, t, a, c)
      BY <1>5, <2>1, <3>1, Zenon DEF HeldDue
    <3>3. HeldRun(H, t, c, c)
      BY <2>1, Zenon DEF HeldRun
    <3> QED
      BY <3>2, <3>3, Zenon
  <2>2. CASE t \notin due
    <3>1. RecordRun(O, t, a, a)
      BY <1>5, <2>2, Zenon DEF HeldDue
    <3>2. HeldRun(H, t, a, c)
      BY <1>6, <2>2, Zenon DEF HeldRun
    <3> QED
      BY <3>1, <3>2, Zenon
  <2> QED
    BY <2>1, <2>2, Zenon
<1> QED
  BY <1>4, <1>6, Zenon

\* A flush, of the due records or of all: the channels stand still.
LEMMA FlushFlows ==
  ASSUME PipeInv, FlushDue \/ JoinerDrains
  PROVE  PipeInv'
<1>1. PICK held : held = joiner.held
  BY Zenon
<1>2. /\ Types /\ StageInv /\ joiner.pc = "run" /\ joiner.outq = <<>> /\ HeldType(held)
      /\ UNCHANGED <<setup, src, chan, closed, relay, shipper, main, admin>>
  BY <1>1, Zenon DEF PipeInv, Types, JoinerType, FlushDue, JoinerDrains, JoinerWaits, RestOfJoiner
<1>3. PICK j : j = joiner /\ j = [pc |-> "run", held |-> held, outq |-> <<>>]
  BY <1>1, <1>2, Zenon DEF Types, JoinerType
<1>4. ASSUME NEW p \in {"run", "last"}, NEW H, NEW O, joiner' = [pc |-> p, held |-> H, outq |-> O],
             NEW due, due \subseteq DOMAIN held, NEW order \in Orders(due),
             O = [i \in DOMAIN order |-> held[order[i]]],
             HeldType(H), DOMAIN H = DOMAIN held \ due, \A s \in DOMAIN H : H[s] = held[s],
             p = "last" => H = <<>> /\ AtEnd("toJoiner")
      PROVE  PipeInv'
  <2>1. /\ O \in Seq(WholeRecord)
        /\ \A t \in Sources : \A a, c \in Nat :
             HeldRun(held, t, a, c) => \E b \in Nat : RecordRun(O, t, a, b) /\ HeldRun(H, t, b, c)
    BY <1>2, <1>4, FlushIs, Zenon
  <2>2. JoinerType' /\ joiner'.pc = p /\ joiner'.held = H /\ joiner'.outq = O
    BY <1>2, <1>4, <2>1, JoinerIs, Zenon DEF Types
  <2>3. ChanType'
    <3>1. LineIn' = LineIn /\ WholeRecord' = WholeRecord
      BY <1>2, SetupKept, Zenon
    <3> QED
      BY <1>2, <3>1, Zenon DEF Types, ChanType, Names
  <2>4. StageInv'
    <3>1. ~setup.joining => DOMAIN H = {}
      BY <1>1, <1>2, <1>4, Zenon DEF StageInv
    <3>2. p # "done"
      BY <1>4, Zenon
    <3> QED
      BY <1>2, <1>4, <2>2, <3>1, <3>2, Zenon DEF StageInv, Clean, AtEnd
  <2>5. ASSUME NEW t \in Sources PROVE Flow(t)'
    <3>1. PICK a, b, c, d \in Nat :
            /\ RecordRun(chan["joined"], t, Delivered(t), a)
            /\ RecordRun(<<>>, t, a, b) /\ HeldRun(held, t, b, c)
            /\ LineRun(chan["toJoiner"], t, c, d) /\ LineRun(chan["lines"], t, d, src[t].sent)
      BY <1>1, <1>2, Zenon DEF PipeInv, Flow
    <3>2. HeldRun(held, t, a, c)
      BY <3>1, RecordEmpty, Zenon
    <3>3. PICK e \in Nat : RecordRun(O, t, a, e) /\ HeldRun(H, t, e, c)
      BY <2>1, <3>2, Zenon
    <3>4. Delivered(t)' = Delivered(t) /\ joiner'.pc # "done"
      BY <1>2, <1>4, <2>2, Zenon DEF Delivered
    <3> QED
      BY <1>2, <2>2, <3>1, <3>3, <3>4, Zenon DEF Flow
  <2> QED
    BY <1>2, <2>2, <2>3, <2>4, <2>5, JoinerRest, Zenon DEF JoinerStep
<1>5. CASE FlushDue
  <2>1. PICK due \in (SUBSET DOMAIN joiner.held) \ {{}} :
          \E order \in Orders(due) :
            joiner' = [joiner EXCEPT !.held = Without(@, due),
                                     !.outq = [i \in DOMAIN order |-> joiner.held[order[i]]]]
    BY <1>5, Zenon DEF FlushDue
  <2>2. PICK order \in Orders(due) :
          joiner' = [joiner EXCEPT !.held = Without(@, due),
                                   !.outq = [i \in DOMAIN order |-> joiner.held[order[i]]]]
    BY <2>1, Zenon
  <2>3. PICK H, O : H = Without(held, due) /\ O = [i \in DOMAIN order |-> held[order[i]]]
    BY Zenon
  <2>4. joiner' = [j EXCEPT !.held = H, !.outq = O]
    BY <1>1, <1>3, <2>2, <2>3, Zenon
  <2>5. [j EXCEPT !.held = H, !.outq = O] = [pc |-> "run", held |-> H, outq |-> O]
    <3>1. PICK p : p = [j EXCEPT !.held = H]
      BY Zenon
    <3>2. p = [pc |-> "run", held |-> H, outq |-> <<>>]
      BY <1>3, <3>1
    <3>3. [p EXCEPT !.outq = O] = [pc |-> "run", held |-> H, outq |-> O]
      BY <3>2
    <3>4. [j EXCEPT !.held = H, !.outq = O] = [p EXCEPT !.outq = O]
      BY <3>1, Zenon
    <3> QED
      BY <3>3, <3>4, Zenon
  <2>6. /\ due \subseteq DOMAIN held /\ DOMAIN H = DOMAIN held \ due /\ H = [s \in DOMAIN H |-> H[s]]
        /\ \A s \in DOMAIN H : H[s] = held[s]
    BY <1>1, <2>1, <2>3, Zenon DEF Without
  <2>7. HeldType(H)
    BY <1>2, <2>6, Zenon DEF HeldType
  <2> QED
    BY <1>4, <2>3, <2>4, <2>5, <2>6, <2>7, Zenon
<1>6. CASE JoinerDrains
  <2>1. PICK order \in Orders(DOMAIN joiner.held) :
          joiner' = [joiner EXCEPT !.pc = "last", !.held = <<>>,
                                   !.outq = [i \in DOMAIN order |-> joiner.held[order[i]]]]
    BY <1>6, Zenon DEF JoinerDrains
  <2>2. PICK H, O, x : H = <<>> /\ O = [i \in DOMAIN order |-> held[order[i]]] /\ x = "last"
    BY Zenon
  <2>3. joiner' = [j EXCEPT !.pc = x, !.held = H, !.outq = O]
    BY <1>1, <1>3, <2>1, <2>2, Zenon
  <2>4. [j EXCEPT !.pc = x, !.held = H, !.outq = O] = [pc |-> x, held |-> H, outq |-> O]
    <3>1. PICK p : p = [j EXCEPT !.pc = x]
      BY Zenon
    <3>2. p = [pc |-> x, held |-> held, outq |-> <<>>]
      BY <1>3, <3>1
    <3>3. PICK r : r = [p EXCEPT !.held = H]
      BY Zenon
    <3>4. r = [pc |-> x, held |-> H, outq |-> <<>>]
      BY <3>2, <3>3
    <3>5. [r EXCEPT !.outq = O] = [pc |-> x, held |-> H, outq |-> O]
      BY <3>4
    <3>6. [j EXCEPT !.pc = x, !.held = H, !.outq = O] = [r EXCEPT !.outq = O]
      BY <3>1, <3>3, Zenon
    <3> QED
      BY <3>5, <3>6, Zenon
  <2>5. DOMAIN H = {} /\ H = [s \in DOMAIN H |-> H[s]]
    BY <2>2
  <2>6. HeldType(H) /\ DOMAIN H = DOMAIN held \ DOMAIN held /\ \A s \in DOMAIN H : H[s] = held[s]
    BY <2>5, Zenon DEF HeldType
  <2>7. AtEnd("toJoiner") /\ x \in {"run", "last"} /\ order \in Orders(DOMAIN held)
    BY <1>1, <1>6, <2>2, Zenon DEF JoinerDrains
  <2>8. DOMAIN held \subseteq DOMAIN held
    BY Zenon
  <2> QED
    BY <1>4, <2>2, <2>3, <2>4, <2>6, <2>7, <2>8, Zenon
<1> QED
  BY <1>5, <1>6, Zenon

\* The joiner sends the first record it has to send, behind the others.
LEMMA JoinerSendsFlows ==
  ASSUME PipeInv, JoinerSends
  PROVE  PipeInv'
<1>1. PICK j, o, x, q : j = joiner /\ o = joiner.outq /\ x = Head(o) /\ q = chan["joined"]
  BY Zenon
<1>2. /\ Types /\ StageInv /\ o \in Seq(WholeRecord) /\ o # <<>> /\ q \in Seq(WholeRecord)
      /\ UNCHANGED <<setup, src, closed, relay, shipper, main, admin>> /\ HeldType(joiner.held)
      /\ joiner' = [joiner EXCEPT !.outq = Tail(o)] /\ Put("joined", x)
      /\ j = [pc |-> joiner.pc, held |-> joiner.held, outq |-> joiner.outq]
      /\ joiner.pc \in {"run", "last", "done"}
  BY <1>1, Zenon DEF PipeInv, Types, JoinerType, ChanType, JoinerSends, RestOfJoiner
<1>3. joiner.pc # "done" /\ "joined" \notin closed
  BY <1>1, <1>2, Zenon DEF PipeInv, ChannelInv, Senders
<1>4. PICK T, Q : T = Tail(o) /\ Q = Append(q, x)
  BY Zenon
<1>5. /\ x \in WholeRecord /\ T \in Seq(WholeRecord) /\ Q \in Seq(WholeRecord) /\ Len(Q) = Len(q) + 1
      /\ Len(q) \in Nat
  BY <1>1, <1>2, <1>4
<1>6. chan' = [chan EXCEPT !["joined"] = Q] /\ Len(q) < QueueCapacity
  BY <1>1, <1>2, <1>3, <1>4, Zenon DEF Put, Room
<1>7. /\ chan'["joined"] = Q /\ chan' = [k \in Names |-> chan'[k]]
      /\ chan'["lines"] = chan["lines"] /\ chan'["toJoiner"] = chan["toJoiner"]
  BY <1>2, <1>6, ChanSet, Zenon DEF Types, Names
<1>8. Len(Q) <= QueueCapacity
  BY <1>5, <1>6, PipelineAssumption
<1>9. JoinerType' /\ joiner'.pc = joiner.pc /\ joiner'.held = joiner.held /\ joiner'.outq = T
  <2>1. PICK p, h : p = joiner.pc /\ h = joiner.held
    BY Zenon
  <2>2. j = [pc |-> p, held |-> h, outq |-> o] /\ joiner' = [j EXCEPT !.outq = T]
    BY <1>1, <1>2, <1>4, <2>1, Zenon
  <2>3. [j EXCEPT !.outq = T] = [pc |-> p, held |-> h, outq |-> T]
    BY <2>2
  <2>4. joiner' = [pc |-> p, held |-> h, outq |-> T]
    BY <2>2, <2>3, Zenon
  <2>5. p \in {"run", "last", "done"} /\ HeldType(h) /\ JoinerType
    BY <1>2, <2>1, Zenon DEF Types
  <2> QED
    BY <1>2, <1>5, <2>1, <2>4, <2>5, JoinerIs, Zenon
<1>10. ChanType'
  <2>1. LineIn' = LineIn /\ WholeRecord' = WholeRecord
    BY <1>2, SetupKept, Zenon
  <2> QED
    BY <1>2, <1>5, <1>7, <1>8, <2>1, Zenon DEF Types, ChanType, Names
<1>11. StageInv'
  BY <1>2, <1>3, <1>7, <1>9, Zenon DEF StageInv, Clean
<1>12. ASSUME NEW t \in Sources PROVE Flow(t)'
  <2>1. PICK a, b, c, d \in Nat :
          /\ RecordRun(q, t, Delivered(t), a)
          /\ RecordRun(o, t, a, b) /\ HeldRun(joiner.held, t, b, c)
          /\ LineRun(chan["toJoiner"], t, c, d) /\ LineRun(chan["lines"], t, d, src[t].sent)
    BY <1>1, <1>3, Zenon DEF PipeInv, Flow
  <2>2. Delivered(t)' = Delivered(t) /\ Delivered(t) \in Nat
    BY <1>2, DeliveredNat, Zenon DEF Delivered, Types
  <2>3. IF x.src = t THEN /\ x.start = a + 1 /\ x.offset \in Nat /\ RecordRun(T, t, x.offset, b)
                     ELSE RecordRun(T, t, a, b)
    BY <1>1, <1>2, <1>4, <2>1, RecordTail, Zenon
  <2>4. /\ x.src # t => RecordRun(Q, t, Delivered(t), a)
        /\ x.src = t /\ x.start = a + 1 /\ x.offset \in Nat => RecordRun(Q, t, Delivered(t), x.offset)
    BY <1>2, <1>4, <1>5, <2>1, <2>2, RecordAppend, Zenon
  <2>5. PICK e \in Nat : RecordRun(Q, t, Delivered(t), e) /\ RecordRun(T, t, e, b)
    BY <2>1, <2>3, <2>4, Zenon
  <2> QED
    BY <1>2, <1>3, <1>7, <1>9, <2>1, <2>2, <2>5, Zenon DEF Flow
<1> QED
  BY <1>2, <1>9, <1>10, <1>11, <1>12, JoinerRest, Zenon DEF JoinerStep

\* The joiner returns with nothing left of any source, unless the drain was cut.
LEMMA JoinerEndsFlows ==
  ASSUME PipeInv, JoinerReturns \/ JoinerCancelled
  PROVE  PipeInv'
<1>1. /\ Types /\ StageInv /\ UNCHANGED <<setup, src, chan, closed, relay, shipper, main, admin>>
      /\ joiner.pc # "done" /\ JoinerType
  BY Zenon DEF PipeInv, Types, JoinerReturns, JoinerCancelled, RestOfJoiner
<1>2. joiner' = [pc |-> "done", held |-> <<>>, outq |-> <<>>]
  <2>1. CASE JoinerReturns
    <3>1. PICK j, x : j = joiner /\ x = "done"
      BY Zenon
    <3>2. j = [pc |-> "last", held |-> <<>>, outq |-> <<>>] /\ joiner' = [j EXCEPT !.pc = x]
      BY <1>1, <2>1, <3>1, Zenon DEF JoinerReturns, JoinerType, StageInv
    <3>3. [j EXCEPT !.pc = x] = [pc |-> x, held |-> <<>>, outq |-> <<>>]
      BY <3>2
    <3> QED
      BY <3>1, <3>2, <3>3, Zenon
  <2>2. CASE JoinerCancelled
    BY <2>2, Zenon DEF JoinerCancelled
  <2> QED
    BY <2>1, <2>2, Zenon
<1>3. HeldType(<<>>) /\ <<>> \in Seq(WholeRecord)
  <2>1. DOMAIN <<>> = {} /\ <<>> = [s \in DOMAIN <<>> |-> <<>>[s]] /\ <<>> \in Seq(WholeRecord)
    OBVIOUS
  <2> QED
    BY <2>1, Zenon DEF HeldType
<1>4. JoinerType' /\ joiner'.pc = "done" /\ joiner'.held = <<>> /\ joiner'.outq = <<>>
  BY <1>1, <1>2, <1>3, JoinerIs, Zenon
<1>5. ChanType'
  <2>1. LineIn' = LineIn /\ WholeRecord' = WholeRecord
    BY <1>1, SetupKept, Zenon
  <2> QED
    BY <1>1, <2>1, Zenon DEF Types, ChanType, Names
<1>6. Clean =>
        /\ joiner.pc = "last" /\ joiner.outq = <<>> /\ joiner.held = <<>> /\ chan["toJoiner"] = <<>>
        /\ chan["lines"] = <<>> /\ "toJoiner" \in closed
  <2>1. Clean => JoinerReturns
    BY <1>1, DrainCut, Zenon DEF JoinerCancelled
  <2>2. Clean => joiner.pc = "last" /\ joiner.outq = <<>>
    BY <2>1, Zenon DEF JoinerReturns
  <2>3. Clean => joiner.held = <<>> /\ chan["toJoiner"] = <<>> /\ "toJoiner" \in closed
    BY <1>1, <2>2, Zenon DEF StageInv
  <2>4. Clean => relay = "done"
    BY <2>3, Zenon DEF PipeInv, ChannelInv, Senders
  <2> QED
    BY <1>1, <2>2, <2>3, <2>4, Zenon DEF StageInv
<1>7. StageInv'
  <2>1. DOMAIN joiner'.held = {}
    BY <1>4
  <2> QED
    BY <1>1, <1>4, <1>6, <2>1, Zenon DEF StageInv, Clean
<1>8. ASSUME NEW t \in Sources PROVE Flow(t)'
  <2>1. PICK a, b, c, d \in Nat :
          /\ RecordRun(chan["joined"], t, Delivered(t), a)
          /\ RecordRun(joiner.outq, t, a, b) /\ HeldRun(joiner.held, t, b, c)
          /\ LineRun(chan["toJoiner"], t, c, d) /\ LineRun(chan["lines"], t, d, src[t].sent)
    BY <1>1, Zenon DEF PipeInv, Flow
  <2>2. Delivered(t)' = Delivered(t) /\ src[t].sent \in Nat
    BY <1>1, Zenon DEF Delivered, Types, SrcType, SourceState
  <2>3. Clean => a = src[t].sent
    <3>1. DOMAIN <<>> = {}
      OBVIOUS
    <3>0. Clean => /\ RecordRun(<<>>, t, a, b) /\ LineRun(<<>>, t, c, d)
                   /\ LineRun(<<>>, t, d, src[t].sent)
      BY <1>6, <2>1, Zenon
    <3>2. Clean => a = b
      BY <3>0, RecordEmpty, Zenon
    <3>3. Clean => b = c
      BY <1>6, <2>1, <3>1, Zenon DEF HeldRun
    <3>4. Clean => c = d /\ d = src[t].sent
      BY <2>2, <3>0, LineEmpty, Zenon
    <3> QED
      BY <3>2, <3>3, <3>4, Zenon
  <2> QED
    BY <1>1, <1>4, <2>1, <2>2, <2>3, Zenon DEF Flow, Clean
<1> QED
  BY <1>1, <1>4, <1>5, <1>7, <1>8, JoinerRest, Zenon DEF JoinerStep

\* What a step of the shipper leaves to show.
LEMMA ShipperRest ==
  ASSUME PipeInv, UNCHANGED <<setup, src, closed, relay, joiner, main, admin>>,
         ShipperStep \/ ShipperFails,
         ShipperType', ChanType', StageInv', MainInv', GotInv', \A t \in Sources : Flow(t)'
  PROVE  PipeInv'
<1>1. Types'
  BY TypesKept, Zenon DEF PipeInv, Types
<1>2. ChannelInv'
  BY ShipperKeeps, Zenon DEF PipeInv
<1>3. SourceInv'
  BY Zenon DEF PipeInv, SourceInv, Input
<1> QED
  BY <1>1, <1>2, <1>3, Zenon DEF PipeInv

\* The elements of a sequence that grew.
LEMMA AppendIs ==
  ASSUME NEW S, NEW q \in Seq(S), NEW x \in S, NEW p, p = Append(q, x)
  PROVE  /\ Len(q) \in Nat /\ DOMAIN q = 1 .. Len(q) /\ DOMAIN p = 1 .. Len(q) + 1 /\ p \in Seq(S)
         /\ Len(p) = Len(q) + 1 /\ p # <<>>
         /\ p[Len(q) + 1] = x /\ \A i \in 1 .. Len(q) : p[i] = q[i]
<1>1. /\ Len(q) \in Nat /\ DOMAIN q = 1 .. Len(q) /\ DOMAIN p = 1 .. Len(q) + 1 /\ p \in Seq(S)
      /\ Len(p) = Len(q) + 1
  OBVIOUS
<1>2. p[Len(q) + 1] = x /\ \A i \in 1 .. Len(q) : p[i] = q[i]
  OBVIOUS
<1>3. p # <<>>
  BY <1>1
<1> QED
  BY <1>1, <1>2, <1>3, Zenon

\* The last line of a sequence of records.
LastLine(q) == IF q = <<>> THEN 0 ELSE q[Len(q)].offset

\* A record added to what the shipper has of its source.
LEMMA GotGrows ==
  ASSUME NEW S, NEW q \in Seq(S), NEW x \in S, NEW s, FromFirst(q, s),
         x.src = s, x.start = LastLine(q) + 1,
         NEW p, p = Append(q, x)
  PROVE  FromFirst(p, s)
<1>1. /\ Len(q) \in Nat /\ DOMAIN q = 1 .. Len(q) /\ DOMAIN p = 1 .. Len(q) + 1 /\ p \in Seq(S)
      /\ Len(p) = Len(q) + 1 /\ p # <<>>
      /\ p[Len(q) + 1] = x /\ \A i \in 1 .. Len(q) : p[i] = q[i]
  BY AppendIs
<1>2. q = <<>> <=> Len(q) = 0
  OBVIOUS
<1>3. ASSUME NEW i \in DOMAIN p
      PROVE  p[i].src = s /\ p[i].start = IF i = 1 THEN 1 ELSE p[i - 1].offset + 1
  <2>1. CASE i = Len(q) + 1
    <3>1. p[i] = x
      BY <1>1, <2>1
    <3>2. CASE Len(q) = 0
      BY <1>1, <1>2, <2>1, <3>1, <3>2 DEF LastLine
    <3>3. CASE Len(q) # 0
      <4>1. i # 1 /\ i - 1 = Len(q) /\ Len(q) \in 1 .. Len(q)
        BY <1>1, <2>1, <3>3
      <4>2. p[i - 1] = q[Len(q)]
        BY <1>1, <4>1
      <4> QED
        BY <1>2, <3>1, <3>3, <4>1, <4>2 DEF LastLine
    <3> QED
      BY <3>2, <3>3
  <2>2. CASE i # Len(q) + 1
    <3>1. i \in 1 .. Len(q)
      BY <1>1, <2>2
    <3>2. i # 1 => i - 1 \in 1 .. Len(q)
      BY <1>1, <3>1
    <3>3. p[i] = q[i] /\ (i # 1 => p[i - 1] = q[i - 1]) /\ i \in DOMAIN q
      BY <1>1, <3>1, <3>2, Zenon
    <3> QED
      BY <3>3, Zenon DEF FromFirst
  <2> QED
    BY <2>1, <2>2, Zenon
<1> QED
  BY <1>3, Zenon DEF FromFirst

\* The shipper takes the first record of joined, the next of its source.
LEMMA ShipperTakesFlows ==
  ASSUME PipeInv, ShipperTakes
  PROVE  PipeInv'
<1>1. PICK r, q, sh, s, g : /\ q = chan["joined"] /\ r = Head(q) /\ sh = shipper /\ s = r.src
                            /\ g = shipper.got
  BY Zenon
<1>2. /\ Types /\ StageInv /\ MainInv /\ GotInv /\ q \in Seq(WholeRecord) /\ q # <<>>
      /\ Len(q) <= QueueCapacity
      /\ UNCHANGED <<setup, src, closed, relay, joiner, main, admin>> /\ shipper.pc = "run"
      /\ chan' = [chan EXCEPT !["joined"] = Tail(q)]
      /\ shipper' = [shipper EXCEPT !.got[s] = Append(@, r)]
      /\ sh \in [pc : {"run", "done"}, got : [Sources -> Seq(WholeRecord)], err : BOOLEAN]
  BY <1>1, Zenon DEF PipeInv, Types, ChanType, ShipperType, ShipperTakes, CanTake, Take, RestOfShipper, Names
<1>3. PICK T : T = Tail(q)
  BY Zenon
<1>4. r \in WholeRecord /\ T \in Seq(WholeRecord) /\ Len(T) <= QueueCapacity
  BY <1>1, <1>2, <1>3, PipelineAssumption
<1>5. /\ chan'["joined"] = T /\ chan' = [k \in Names |-> chan'[k]]
      /\ chan'["lines"] = chan["lines"] /\ chan'["toJoiner"] = chan["toJoiner"]
  BY <1>2, <1>3, ChanSet, Zenon DEF Types, Names
<1>6. s \in Sources /\ g \in [Sources -> Seq(WholeRecord)] /\ r.offset \in Nat
  BY <1>1, <1>2, <1>4, Zenon DEF WholeRecord, Record
<1>7. \A t \in Sources : \E a \in Nat :
        IF t = s THEN r.start = Delivered(t) + 1 /\ RecordRun(T, t, r.offset, a)
                 ELSE RecordRun(T, t, Delivered(t), a)
  <2>1. ASSUME NEW t \in Sources
        PROVE  \E a \in Nat : IF t = s THEN r.start = Delivered(t) + 1 /\ RecordRun(T, t, r.offset, a)
                                       ELSE RecordRun(T, t, Delivered(t), a)
    <3>1. PICK a \in Nat : RecordRun(q, t, Delivered(t), a)
      BY <1>1, Zenon DEF PipeInv, Flow
    <3>2. Delivered(t) \in Nat
      BY <1>2, DeliveredNat, Zenon DEF Types
    <3>3. IF r.src = t THEN /\ r.start = Delivered(t) + 1 /\ r.offset \in Nat /\ RecordRun(T, t, r.offset, a)
                       ELSE RecordRun(T, t, Delivered(t), a)
      BY <1>1, <1>2, <1>3, <3>1, <3>2, RecordTail, Zenon
    <3> QED
      BY <1>1, <3>1, <3>3, Zenon
  <2> QED
    BY <2>1, Zenon
<1>8. PICK p : p = Append(g[s], r)
  BY Zenon
<1>9. p \in Seq(WholeRecord) /\ p # <<>> /\ p[Len(p)] = r /\ FromFirst(p, s)
  <2>1. PICK z : z = g[s]
    BY Zenon
  <2>2. z \in Seq(WholeRecord) /\ FromFirst(z, s) /\ p = Append(z, r)
    BY <1>1, <1>2, <1>6, <1>8, <2>1, Zenon DEF GotInv
  <2>3. Delivered(s) = LastLine(z)
    BY <1>1, <2>1, Zenon DEF Delivered, LastLine
  <2>4. r.start = Delivered(s) + 1
    BY <1>6, <1>7, Zenon
  <2>5. r.src = s /\ r.start = LastLine(z) + 1
    BY <1>1, <2>3, <2>4, Zenon
  <2>6. FromFirst(p, s)
    BY <1>4, <2>2, <2>5, GotGrows, Zenon
  <2>7. p \in Seq(WholeRecord) /\ p # <<>> /\ p[Len(p)] = r
    BY <1>4, <2>2, AppendIs
  <2> QED
    BY <2>6, <2>7, Zenon
<1>10. PICK G : G = [g EXCEPT ![s] = p]
  BY Zenon
<1>11. shipper' = [pc |-> "run", got |-> G, err |-> shipper.err]
  <2>1. PICK e : e = shipper.err
    BY Zenon
  <2>2. sh = [pc |-> "run", got |-> g, err |-> e]
    BY <1>1, <1>2, <2>1, Zenon
  <2>3. shipper' = [sh EXCEPT !.got = G]
    BY <1>1, <1>2, <1>8, <1>10, Zenon
  <2>4. [sh EXCEPT !.got = G] = [pc |-> "run", got |-> G, err |-> e]
    BY <2>2
  <2> QED
    BY <2>1, <2>3, <2>4, Zenon
<1>12. G \in [Sources -> Seq(WholeRecord)] /\ G[s] = p /\ \A t \in Sources \ {s} : G[t] = g[t]
  BY <1>6, <1>9, <1>10, Zenon
<1>13. shipper'.pc = "run" /\ shipper'.got = G /\ shipper'.err = shipper.err
  BY <1>11, Zenon
<1>14. ShipperType' /\ ChanType'
  <2>1. LineIn' = LineIn /\ WholeRecord' = WholeRecord
    BY <1>2, SetupKept, Zenon
  <2>2. shipper.err \in BOOLEAN
    BY <1>1, <1>2, Zenon
  <2>3. ShipperType'
    BY <1>11, <1>12, <2>1, <2>2, Zenon DEF ShipperType
  <2>4. ChanType'
    BY <1>2, <1>4, <1>5, <2>1, Zenon DEF Types, ChanType, Names
  <2> QED
    BY <2>3, <2>4, Zenon
<1>15. StageInv' /\ MainInv'
  <2>1. ~Finished
    BY <1>2, Zenon DEF MainInv
  <2>2. StageInv'
    BY <1>2, <1>5, <1>13, Zenon DEF StageInv, Clean
  <2>3. MainInv'
    BY <1>2, <2>1, Zenon DEF MainInv, Finished
  <2> QED
    BY <2>2, <2>3, Zenon
<1>16. GotInv'
  <2>1. ASSUME NEW t \in Sources PROVE FromFirst(G[t], t)
    BY <1>1, <1>2, <1>9, <1>12, Zenon DEF GotInv
  <2> QED
    BY <1>13, <2>1, Zenon DEF GotInv
<1>17. ASSUME NEW t \in Sources PROVE Flow(t)'
  <2>1. Delivered(t)' = IF t = s THEN r.offset ELSE Delivered(t)
    <3>1. CASE t = s
      BY <1>9, <1>12, <1>13, <3>1, Zenon DEF Delivered
    <3>2. CASE t # s
      BY <1>1, <1>12, <1>13, <3>2, Zenon DEF Delivered
    <3> QED
      BY <3>1, <3>2, Zenon
  <2>2. PICK a, b, c, d \in Nat :
          /\ RecordRun(chan["joined"], t, Delivered(t), a)
          /\ joiner.pc # "done" =>
               /\ RecordRun(joiner.outq, t, a, b) /\ HeldRun(joiner.held, t, b, c)
               /\ LineRun(chan["toJoiner"], t, c, d) /\ LineRun(chan["lines"], t, d, src[t].sent)
          /\ joiner.pc = "done" /\ Clean => a = src[t].sent
    BY Zenon DEF PipeInv, Flow
  <2>3. RecordRun(T, t, Delivered(t)', a)
    <3>2. Delivered(t) \in Nat
      BY <1>2, DeliveredNat, Zenon DEF Types
    <3>3. IF r.src = t THEN /\ r.start = Delivered(t) + 1 /\ r.offset \in Nat /\ RecordRun(T, t, r.offset, a)
                       ELSE RecordRun(T, t, Delivered(t), a)
      BY <1>1, <1>2, <1>3, <2>2, <3>2, RecordTail, Zenon
    <3> QED
      BY <1>1, <2>1, <3>3, Zenon
  <2> QED
    BY <1>2, <1>5, <2>2, <2>3, Zenon DEF Flow, Clean
<1> QED
  BY <1>2, <1>14, <1>15, <1>16, <1>17, ShipperRest, Zenon DEF ShipperStep

\* The shipper returns once joined is closed and empty, unless the drain was cut
\* or it never got to run.
LEMMA ShipperEndsFlows ==
  ASSUME PipeInv, ShipperStep \/ ShipperFails, ~ShipperTakes
  PROVE  PipeInv'
<1>1. Types /\ StageInv /\ MainInv /\ shipper.err \in BOOLEAN
  BY Zenon DEF PipeInv, Types, ShipperType
<1>2. ShipperFails \/ \E err \in BOOLEAN : ShipperEnds(err)
  BY <1>1, Zenon DEF ShipperStep
<1>3. PICK e \in BOOLEAN : /\ shipper' = [shipper EXCEPT !.pc = "done", !.err = e]
                           /\ Clean => e \/ AtEnd("joined")
                           /\ UNCHANGED <<setup, src, chan, closed, relay, joiner, main, admin>>
                           /\ shipper.pc = "run"
  <2>1. CASE ShipperFails
    <3>1. /\ shipper' = [shipper EXCEPT !.pc = "done", !.err = TRUE] /\ shipper.pc = "run"
          /\ UNCHANGED <<setup, src, chan, closed, relay, joiner, main, admin>>
      BY <2>1, Zenon DEF ShipperFails, RestOfShipper
    <3>2. TRUE \in BOOLEAN
      OBVIOUS
    <3> QED
      BY <3>1, <3>2, Zenon
  <2>2. CASE \E err \in BOOLEAN : ShipperEnds(err)
    <3>1. PICK err \in BOOLEAN : ShipperEnds(err)
      BY <2>2, Zenon
    <3>2. /\ shipper' = [shipper EXCEPT !.pc = "done", !.err = err] /\ shipper.pc = "run"
          /\ UNCHANGED <<setup, src, chan, closed, relay, joiner, main, admin>>
          /\ AtEnd("joined") \/ DrainDone
      BY <3>1, Zenon DEF ShipperEnds, RestOfShipper
    <3>3. Clean => AtEnd("joined")
      BY <3>2, DrainCut, Zenon
    <3> QED
      BY <3>2, <3>3, Zenon
  <2> QED
    BY <1>2, <2>1, <2>2, Zenon
<1>4. shipper' = [pc |-> "done", got |-> shipper.got, err |-> e]
  <2>1. PICK sh, g, x : sh = shipper /\ g = shipper.got /\ x = "done"
    BY Zenon
  <2>2. sh \in [pc : {"run", "done"}, got : [Sources -> Seq(WholeRecord)], err : BOOLEAN]
    BY <1>1, <2>1, Zenon DEF Types, ShipperType
  <2>3. sh = [pc |-> sh.pc, got |-> g, err |-> sh.err]
    BY <2>1, <2>2, Zenon
  <2>4. PICK p : p = [sh EXCEPT !.pc = x]
    BY Zenon
  <2>5. p = [pc |-> x, got |-> g, err |-> sh.err]
    BY <2>3, <2>4
  <2>6. [p EXCEPT !.err = e] = [pc |-> x, got |-> g, err |-> e]
    BY <2>5
  <2>7. shipper' = [p EXCEPT !.err = e]
    BY <1>3, <2>1, <2>4, Zenon
  <2> QED
    BY <2>1, <2>6, <2>7, Zenon
<1>5. shipper'.pc = "done" /\ shipper'.got = shipper.got /\ shipper'.err = e
  BY <1>4, Zenon
<1>6. ShipperType' /\ ChanType'
  <2>1. LineIn' = LineIn /\ WholeRecord' = WholeRecord
    BY <1>3, SetupKept, Zenon
  <2>2. shipper.got \in [Sources -> Seq(WholeRecord)]
    BY <1>1, Zenon DEF Types, ShipperType
  <2>3. ShipperType'
    BY <1>4, <2>1, <2>2, Zenon DEF ShipperType
  <2>4. ChanType'
    BY <1>1, <1>3, <2>1, Zenon DEF Types, ChanType, Names
  <2> QED
    BY <2>3, <2>4, Zenon
<1>7. StageInv'
  BY <1>1, <1>3, <1>5, Zenon DEF StageInv, Clean, AtEnd
<1>8. MainInv'
  <2>1. ~Finished
    BY <1>1, <1>3, Zenon DEF MainInv
  <2> QED
    BY <1>1, <1>3, <2>1, Zenon DEF MainInv, Finished
<1>9. GotInv'
  BY <1>5, Zenon DEF PipeInv, GotInv
<1>10. ASSUME NEW t \in Sources PROVE Flow(t)'
  <2>1. PICK a, b, c, d \in Nat :
          /\ RecordRun(chan["joined"], t, Delivered(t), a)
          /\ joiner.pc # "done" =>
               /\ RecordRun(joiner.outq, t, a, b) /\ HeldRun(joiner.held, t, b, c)
               /\ LineRun(chan["toJoiner"], t, c, d) /\ LineRun(chan["lines"], t, d, src[t].sent)
          /\ joiner.pc = "done" /\ Clean => a = src[t].sent
    BY Zenon DEF PipeInv, Flow
  <2>2. Delivered(t)' = Delivered(t)
    BY <1>5, Zenon DEF Delivered
  <2> QED
    BY <1>3, <2>1, <2>2, Zenon DEF Flow, Clean
<1> QED
  BY <1>3, <1>6, <1>7, <1>8, <1>9, <1>10, ShipperRest, Zenon

\* What a step of main leaves to show.
LEMMA MainRest ==
  ASSUME PipeInv, UNCHANGED <<setup, src, chan, relay, joiner, shipper>>,
         Signal \/ AdminFails \/ DeadlinePasses \/ MainStep,
         MainType', closed \subseteq closed', closed' \subseteq Names, Clean' => Clean,
         main'.fatal => "fatal" \in main'.errs, MainInv'
  PROVE  PipeInv'
<1>1. LineIn' = LineIn /\ WholeRecord' = WholeRecord
  BY SetupKept, Zenon
<1>2. ChanType'
  BY <1>1, Zenon DEF PipeInv, Types, ChanType, Names
<1>3. Types'
  BY <1>2, TypesKept, Zenon DEF PipeInv, Types
<1>4. ChannelInv'
  BY MainKeeps, Zenon DEF PipeInv
<1>5. SourceInv'
  BY Zenon DEF PipeInv, SourceInv, Input
<1>6. StageInv'
  BY Zenon DEF PipeInv, StageInv
<1>7. GotInv'
  BY GotKept, Zenon DEF PipeInv
<1>8. ASSUME NEW t \in Sources PROVE Flow(t)'
  BY FlowKept, Zenon DEF PipeInv
<1> QED
  BY <1>3, <1>4, <1>5, <1>6, <1>7, <1>8, Zenon DEF PipeInv

\* A step of main to the state that it assigns.
LEMMA MainBecomes ==
  ASSUME PipeInv, UNCHANGED <<setup, src, chan, relay, joiner, shipper>>,
         Signal \/ AdminFails \/ DeadlinePasses \/ MainStep,
         main' \in MainState, admin' \in {"up", "failed", "down"},
         closed \subseteq closed', closed' \subseteq Names,
         main.errs \subseteq main'.errs, main.deadline => main'.deadline,
         main'.fatal => main.fatal \/ "fatal" \in main'.errs, MainInv'
  PROVE  PipeInv'
<1>1. MainType'
  BY Zenon DEF MainType, MainState, MainPcs, Errors
<1>2. Clean' => Clean
  BY Zenon DEF Clean
<1>3. main'.fatal => "fatal" \in main'.errs
  BY Zenon DEF PipeInv, StageInv
<1> QED
  BY <1>1, <1>2, <1>3, MainRest, Zenon

\* What main closes, and the errors it collects, on its way down.
LEMMA MainFlows ==
  ASSUME PipeInv, Signal \/ AdminFails \/ DeadlinePasses \/ MainStep
  PROVE  PipeInv'
<1>1. /\ Types /\ StageInv /\ MainInv /\ main \in MainState /\ closed \subseteq Names
      /\ admin \in {"up", "failed", "down"} /\ main.errs \in SUBSET Errors
  BY Zenon DEF PipeInv, Types, MainType, ChanType, MainState
<1>2. UNCHANGED <<setup, src, chan, relay, joiner, shipper>>
  BY Zenon DEF Signal, AdminFails, DeadlinePasses, MainStep, StopOnCtx, StopOnShipper, SourcesStopped,
     SourcesTimedOut, JoinerCollected, ShipperCollected, Exit, RestOfMain
<1>3. PICK m, n : m = main /\ n = main'
  BY Zenon
<1>4. CASE Signal
  <2>1. n = [m EXCEPT !.signal = TRUE] /\ UNCHANGED <<closed, admin>>
    BY <1>3, <1>4, Zenon DEF Signal
  <2>2. n \in MainState /\ n.pc = m.pc /\ n.errs = m.errs /\ n.deadline = m.deadline /\ n.fatal = m.fatal
    BY <1>1, <1>3, <2>1, Zenon DEF MainState
  <2>3. MainInv'
    BY <1>1, <1>2, <1>3, <2>1, <2>2, Zenon DEF MainInv, Finished
  <2> QED
    BY <1>1, <1>2, <1>3, <2>1, <2>2, <2>3, MainBecomes, Zenon
<1>5. CASE AdminFails
  <2>1. n = m /\ UNCHANGED closed /\ admin' = "failed" /\ m.pc = "serve"
    BY <1>3, <1>5, Zenon DEF AdminFails
  <2>2. MainInv'
    BY <1>1, <1>2, <1>3, <2>1, Zenon DEF MainInv, Finished
  <2> QED
    BY <1>1, <1>2, <1>3, <2>1, <2>2, MainBecomes, Zenon
<1>6. CASE DeadlinePasses
  <2>1. n = [m EXCEPT !.deadline = TRUE] /\ UNCHANGED <<closed, admin>> /\ ~m.deadline
    BY <1>3, <1>6, Zenon DEF DeadlinePasses
  <2>2. n \in MainState /\ n.pc = m.pc /\ n.errs = m.errs /\ n.fatal = m.fatal
    BY <1>1, <1>3, <2>1, Zenon DEF MainState
  <2>3. MainInv'
    BY <1>1, <1>2, <1>3, <2>1, <2>2, Zenon DEF MainInv, Finished
  <2> QED
    BY <1>1, <1>2, <1>3, <2>1, <2>2, <2>3, MainBecomes, Zenon
<1>7. CASE StopOnCtx
  <2>1. n = [m EXCEPT !.pc = "sources"] /\ UNCHANGED <<closed, admin>> /\ "sources" \in MainPcs
    BY <1>3, <1>7, Zenon DEF StopOnCtx, MainPcs
  <2>2. n \in MainState /\ n.pc = "sources" /\ n.errs = m.errs /\ n.deadline = m.deadline /\ n.fatal = m.fatal
    BY <1>1, <1>3, <2>1, Zenon DEF MainState
  <2>3. MainInv'
    BY <1>3, <2>2, Zenon DEF MainInv, Finished
  <2> QED
    BY <1>1, <1>2, <1>3, <2>1, <2>2, <2>3, MainBecomes, Zenon
<1>8. CASE StopOnShipper
  <2>0. PICK y : y = main.errs \cup {"fatal"}
    BY Zenon
  <2>1. /\ n = [m EXCEPT !.pc = "sources", !.fatal = TRUE, !.errs = y] /\ UNCHANGED <<closed, admin>>
        /\ "sources" \in MainPcs /\ y \in SUBSET Errors
    BY <1>1, <1>3, <1>8, <2>0, Zenon DEF StopOnShipper, MainPcs, Errors
  <2>2. n \in MainState /\ n.pc = "sources" /\ n.errs = y /\ n.deadline = m.deadline
    BY <1>1, <1>3, <2>1, Zenon DEF MainState
  <2>3. MainInv'
    BY <1>3, <2>2, Zenon DEF MainInv, Finished
  <2> QED
    BY <1>1, <1>2, <1>3, <2>0, <2>1, <2>2, <2>3, MainBecomes, Zenon
<1>9. CASE SourcesStopped
  <2>0. PICK y : y = main.errs \cup Failed("source", \E s \in Sources : src[s].err)
    BY Zenon
  <2>1. /\ n = [m EXCEPT !.pc = "joiner", !.errs = y] /\ UNCHANGED admin
        /\ closed' = closed \cup {"lines"} /\ "joiner" \in MainPcs /\ y \in SUBSET Errors
    BY <1>1, <1>3, <1>9, <2>0, Zenon DEF SourcesStopped, MainPcs, Errors, Failed
  <2>2. n \in MainState /\ n.pc = "joiner" /\ n.errs = y /\ n.deadline = m.deadline /\ n.fatal = m.fatal
    BY <1>1, <1>3, <2>1, Zenon DEF MainState
  <2>3. (\E s \in Sources : src[s].err) => "source" \in y
    BY <2>0, Zenon DEF Failed
  <2>4. MainInv'
    BY <1>2, <1>3, <2>1, <2>2, <2>3, Zenon DEF MainInv, Finished
  <2>5. closed \subseteq closed' /\ closed' \subseteq Names
    BY <1>1, <2>1, Zenon DEF Names
  <2> QED
    BY <1>1, <1>2, <1>3, <2>0, <2>1, <2>2, <2>4, <2>5, MainBecomes, Zenon
<1>10. CASE SourcesTimedOut
  <2>0. PICK y : y = main.errs \cup {"timeout"}
    BY Zenon
  <2>1. /\ n = [m EXCEPT !.pc = "returned", !.errs = y] /\ UNCHANGED <<closed, admin>>
        /\ "returned" \in MainPcs /\ y \in SUBSET Errors
    BY <1>1, <1>3, <1>10, <2>0, Zenon DEF SourcesTimedOut, MainPcs, Errors
  <2>2. n \in MainState /\ n.pc = "returned" /\ n.errs = y /\ n.deadline = m.deadline /\ n.fatal = m.fatal
    BY <1>1, <1>3, <2>1, Zenon DEF MainState
  <2>3. MainInv'
    BY <1>3, <2>0, <2>2, Zenon DEF MainInv, Finished
  <2> QED
    BY <1>1, <1>2, <1>3, <2>0, <2>1, <2>2, <2>3, MainBecomes, Zenon
<1>11. CASE JoinerCollected
  <2>1. /\ n = [m EXCEPT !.pc = "shipper"] /\ UNCHANGED admin /\ m.pc = "joiner"
        /\ closed' = closed \cup {"joined"} /\ "shipper" \in MainPcs
    BY <1>3, <1>11, Zenon DEF JoinerCollected, MainPcs
  <2>2. n \in MainState /\ n.pc = "shipper" /\ n.errs = m.errs /\ n.deadline = m.deadline /\ n.fatal = m.fatal
    BY <1>1, <1>3, <2>1, Zenon DEF MainState
  <2>3. MainInv'
    BY <1>1, <1>2, <1>3, <2>1, <2>2, Zenon DEF MainInv, Finished
  <2>4. closed \subseteq closed' /\ closed' \subseteq Names
    BY <1>1, <2>1, Zenon DEF Names
  <2> QED
    BY <1>1, <1>2, <1>3, <2>1, <2>2, <2>3, <2>4, MainBecomes, Zenon
<1>12. CASE \E failed \in {{}, {"final"}} : ShipperCollected(failed)
  <2>1. PICK failed \in {{}, {"final"}} : ShipperCollected(failed)
    BY <1>12, Zenon
  <2>2. PICK y : y = main.errs \cup Failed("shipper", shipper.err /\ ~main.fatal) \cup failed
    BY Zenon
  <2>3. /\ n = [m EXCEPT !.pc = "returned", !.errs = y] /\ UNCHANGED closed /\ m.pc = "shipper"
        /\ shipper.pc = "done" /\ admin' = (IF admin = "up" THEN "down" ELSE admin)
        /\ "returned" \in MainPcs
    BY <1>3, <2>1, <2>2, Zenon DEF ShipperCollected, MainPcs
  <2>4. y \in SUBSET Errors /\ main.errs \subseteq y /\ (shipper.err /\ ~main.fatal => "shipper" \in y)
    BY <1>1, <2>1, <2>2, Zenon DEF Errors, Failed
  <2>5. n \in MainState /\ n.pc = "returned" /\ n.errs = y /\ n.deadline = m.deadline /\ n.fatal = m.fatal
    BY <1>1, <1>3, <2>3, <2>4, Zenon DEF MainState
  <2>6. admin' # "up" /\ admin' \in {"up", "failed", "down"}
    BY <1>1, <2>3, Zenon
  <2>7. MainInv'
    <3>1. main.fatal => "fatal" \in y
      BY <1>1, <2>4, Zenon DEF StageInv
    <3>2. /\ "lines" \in closed /\ "joined" \in closed
          /\ (\E s \in Sources : src[s].err) => "source" \in y
      BY <1>1, <1>3, <2>3, <2>4, Zenon DEF MainInv
    <3>3. shipper.err => "shipper" \in y \/ "fatal" \in y
      BY <2>4, <3>1, Zenon
    <3> QED
      BY <1>2, <1>3, <2>3, <2>5, <2>6, <3>2, <3>3, Zenon DEF MainInv, Finished
  <2> QED
    BY <1>1, <1>2, <1>3, <2>3, <2>4, <2>5, <2>6, <2>7, MainBecomes, Zenon
<1>13. CASE Exit
  <2>0. PICK y : y = main.errs \cup Failed("admin", admin = "failed")
    BY Zenon
  <2>1. /\ n = [m EXCEPT !.pc = "exited", !.errs = y] /\ UNCHANGED <<closed, admin>>
        /\ m.pc = "returned" /\ admin # "up" /\ "exited" \in MainPcs /\ y \in SUBSET Errors
    BY <1>1, <1>3, <1>13, <2>0, Zenon DEF Exit, MainPcs, Errors, Failed
  <2>2. n \in MainState /\ n.pc = "exited" /\ n.errs = y /\ n.deadline = m.deadline /\ n.fatal = m.fatal
    BY <1>1, <1>3, <2>1, Zenon DEF MainState
  <2>3. main.errs \subseteq y /\ (admin = "failed" => "admin" \in y)
    BY <2>0, Zenon DEF Failed
  <2>4. MainInv'
    <3>1. Finished' => Finished
      BY <1>3, <2>1, <2>2, <2>3, Zenon DEF Finished
    <3> QED
      BY <1>1, <1>2, <1>3, <2>1, <2>2, <2>3, <3>1, Zenon DEF MainInv
  <2> QED
    BY <1>1, <1>2, <1>3, <2>1, <2>2, <2>3, <2>4, MainBecomes, Zenon
<1> QED
  BY <1>4, <1>5, <1>6, <1>7, <1>8, <1>9, <1>10, <1>11, <1>12, <1>13, Zenon DEF MainStep

\* The agent starts with every channel empty and nothing read.
LEMMA InitPipe ==
  ASSUME Init
  PROVE  PipeInv
<1>0. <<>> \in Seq(Nat) /\ <<>> \in Seq(LineIn) /\ <<>> \in Seq(WholeRecord) /\ 0 \in Nat
      /\ Len(<<>>) = 0 /\ DOMAIN <<>> = {} /\ <<>> = [s \in DOMAIN <<>> |-> <<>>[s]]
  OBVIOUS
<1>1. SrcType
  <2>1. \A s \in Sources : [pc |-> "run", read |-> 0, handoff |-> <<>>, sent |-> 0, err |-> FALSE] \in SourceState
    BY <1>0, Zenon DEF SourceState
  <2> QED
    BY <2>1, Zenon DEF Init, SrcType
<1>2. ChanType
  <2>1. /\ chan = [c \in Names |-> chan[c]] /\ \A c \in Names : chan[c] = <<>>
        /\ closed = {}
    BY Zenon DEF Init, Names
  <2>2. 0 <= QueueCapacity
    BY PipelineAssumption
  <2> QED
    BY <1>0, <2>1, <2>2, Zenon DEF ChanType, Names
<1>3. joiner = [pc |-> "run", held |-> <<>>, outq |-> <<>>] /\ relay = "run"
  BY Zenon DEF Init
<1>4. joiner.pc = "run" /\ joiner.held = <<>> /\ joiner.outq = <<>>
  BY <1>3, Zenon
<1>5. JoinerType
  <2>1. HeldType(<<>>)
    BY <1>0, Zenon DEF HeldType
  <2> QED
    BY <1>0, <1>3, <1>4, <2>1, Zenon DEF JoinerType
<1>6. ShipperType
  <2>1. PICK g : g = [s \in Sources |-> <<>>]
    BY Zenon
  <2>2. g \in [Sources -> Seq(WholeRecord)]
    BY <1>0, <2>1, Zenon
  <2>3. shipper = [pc |-> "run", got |-> g, err |-> FALSE]
    BY <2>1, Zenon DEF Init
  <2>4. FALSE \in BOOLEAN
    OBVIOUS
  <2> QED
    BY <2>2, <2>3, <2>4, Zenon DEF ShipperType
<1>7. MainType
  <2>1. main = [pc |-> "serve", signal |-> FALSE, deadline |-> FALSE, fatal |-> FALSE, errs |-> {}] /\ admin = "up"
    BY Zenon DEF Init
  <2>2. "serve" \in MainPcs /\ {} \in SUBSET Errors
    BY Zenon DEF MainPcs
  <2> QED
    BY <2>1, <2>2, Zenon DEF MainType, MainState
<1>8. Types
  BY <1>1, <1>2, <1>5, <1>6, <1>7, Zenon DEF Types, Init
<1>9. ChannelInv
  BY InitChannel, Zenon
<1>10. SourceInv
  <2>1. ASSUME NEW s \in Sources
        PROVE  /\ src[s].read = 0 /\ src[s].sent = 0 /\ src[s].handoff = <<>>
               /\ 0 = 0 + Len(<<>>) /\ 0 <= Len(Input[s])
    <3>1. src[s].read = 0 /\ src[s].sent = 0 /\ src[s].handoff = <<>>
      BY Zenon DEF Init
    <3>2. Len(Input[s]) \in Nat
      BY <1>8, InputIs, Zenon DEF Types
    <3>3. 0 = 0 + Len(<<>>) /\ 0 <= Len(Input[s])
      BY <3>2
    <3> QED
      BY <3>1, <3>3, Zenon
  <2> QED
    BY <1>0, <2>1, Zenon DEF SourceInv
<1>11. StageInv
  <2>1. shipper.pc = "run" /\ ~shipper.err /\ ~main.fatal
    BY Zenon DEF Init
  <2> QED
    BY <1>0, <1>3, <1>4, <2>1, Zenon DEF StageInv
<1>12. MainInv
  <2>1. main.pc = "serve"
    BY Zenon DEF Init
  <2> QED
    BY <2>1, Zenon DEF MainInv, Finished
<1>13. \A s \in Sources : shipper.got[s] = <<>>
  BY Zenon DEF Init
<1>14. GotInv
  <2>1. ASSUME NEW s PROVE FromFirst(<<>>, s)
    BY <1>0, Zenon DEF FromFirst
  <2> QED
    BY <1>13, <2>1, Zenon DEF GotInv
<1>15. ASSUME NEW s \in Sources PROVE Flow(s)
  <2>1. Delivered(s) = 0 /\ src[s].sent = 0
    BY <1>13, Zenon DEF Delivered, Init
  <2>2. chan["joined"] = <<>> /\ chan["toJoiner"] = <<>> /\ chan["lines"] = <<>>
    BY Zenon DEF Init
  <2>3. RecordRun(<<>>, s, 0, 0) /\ LineRun(<<>>, s, 0, 0)
    <3>1. PICK z \in Nat : z = 0
      BY <1>0, Zenon
    <3>2. RecordRun(<<>>, s, z, z)
      BY RecordEmpty, Zenon
    <3>3. LineRun(<<>>, s, z, z)
      BY LineEmpty, Zenon
    <3> QED
      BY <3>1, <3>2, <3>3, Zenon
  <2>4. HeldRun(<<>>, s, 0, 0)
    BY <1>0, Zenon DEF HeldRun
  <2> QED
    BY <1>0, <1>4, <2>1, <2>2, <2>3, <2>4, Zenon DEF Flow
<1> QED
  BY <1>8, <1>9, <1>10, <1>11, <1>12, <1>14, <1>15, Zenon DEF PipeInv

\* Every step keeps the flow of lines.
LEMMA NextFlows ==
  ASSUME PipeInv, [Next]_vars
  PROVE  PipeInv'
<1>1. CASE UNCHANGED vars
  <2>1. UNCHANGED <<setup, src, chan, closed, relay, joiner, shipper, main, admin, panic>>
    BY <1>1, Zenon DEF vars
  <2>2. LineIn' = LineIn /\ WholeRecord' = WholeRecord
    BY <2>1, SetupKept, Zenon
  <2>3. Types'
    BY <2>1, <2>2, TypesKept, Zenon DEF PipeInv, Types, ChanType, Names
  <2>4. ChannelInv'
    BY <2>1, Zenon DEF PipeInv, ChannelInv, Shape, Senders
  <2>5. SourceInv'
    BY <2>1, Zenon DEF PipeInv, SourceInv, Input
  <2>6. StageInv' /\ MainInv'
    <3>1. StageInv /\ MainInv
      BY Zenon DEF PipeInv
    <3>2. StageInv'
      BY <2>1, <3>1, Zenon DEF StageInv, Clean
    <3>3. MainInv'
      BY <2>1, <3>1, Zenon DEF MainInv, Finished, Clean
    <3> QED
      BY <3>2, <3>3, Zenon
  <2>7. GotInv'
    BY <2>1, GotKept, Zenon DEF PipeInv
  <2>8. ASSUME NEW t \in Sources PROVE Flow(t)'
    BY <2>1, FlowKept, Zenon DEF PipeInv, Clean
  <2> QED
    BY <2>3, <2>4, <2>5, <2>6, <2>7, <2>8, Zenon DEF PipeInv
<1>2. CASE \E s \in Sources : SourceStep(s) \/ SourceFails(s) \/ Wedges(s)
  BY <1>2, SourceFlows, Zenon
<1>3. CASE RelayStep
  BY <1>3, RelayMovesFlows, RelayEndsFlows, Zenon DEF RelayStep
<1>4. CASE JoinerStep
  BY <1>4, JoinerTakesFlows, FlushFlows, JoinerSendsFlows, JoinerEndsFlows, Zenon DEF JoinerStep
<1>5. CASE ShipperStep \/ ShipperFails
  BY <1>5, ShipperTakesFlows, ShipperEndsFlows, Zenon
<1>6. CASE Signal \/ AdminFails \/ DeadlinePasses \/ MainStep
  BY <1>6, MainFlows, Zenon
<1> QED
  BY <1>1, <1>2, <1>3, <1>4, <1>5, <1>6, Zenon DEF Next

\* A sequence of elements.
LEMMA SeqOf ==
  ASSUME NEW S, NEW T, S \subseteq T, NEW q \in Seq(S)
  PROVE  IsSeqOf(q, T)
<1>1. \A i \in DOMAIN q : q[i] \in S
  OBVIOUS
<1> QED
  BY <1>1, Zenon DEF IsSeqOf

\* Joiner.absorb and its flushes, for every number of sources, every input and
\* every interleaving: what the shipper gets of a source is its lines in order,
\* whole records, none missing, repeated or mixed with another source's, within
\* both limits.
THEOREM RecordsWhole == Spec => []RecordsAreWhole
<1>1. PipeInv => RecordsAreWhole
  <2> SUFFICES ASSUME PipeInv PROVE TypeOK /\ RecordsCover
    BY Zenon DEF RecordsAreWhole
  <2>1. Types /\ GotInv
    BY Zenon DEF PipeInv
  <2>2. LineIn \subseteq Line /\ WholeRecord \subseteq Record
    BY Zenon DEF LineIn, WholeRecord
  <2>3. TypeOK
    <3>1. /\ \A c \in DOMAIN chan : Len(chan[c]) <= QueueCapacity
          /\ closed \subseteq DOMAIN chan
      <4>1. DOMAIN chan = Names /\ ChanType
        BY <2>1, Zenon DEF Types, ChanType
      <4> QED
        BY <4>1, Zenon DEF ChanType
    <3>2. IsSeqOf(chan["lines"], Line) /\ IsSeqOf(chan["toJoiner"], Line)
      BY <2>1, <2>2, SeqOf, Zenon DEF Types, ChanType
    <3>3. IsSeqOf(chan["joined"], Record) /\ IsSeqOf(joiner.outq, Record)
      BY <2>1, <2>2, SeqOf, Zenon DEF Types, ChanType, JoinerType
    <3>4. \A s \in DOMAIN joiner.held : joiner.held[s] \in Record /\ joiner.held[s].src = s
      BY <2>1, <2>2, Zenon DEF Types, JoinerType, HeldType
    <3>5. /\ admin \in {"up", "failed", "down"}
          /\ main.pc \in {"serve", "sources", "joiner", "shipper", "returned", "exited"}
      BY <2>1, Zenon DEF Types, MainType, MainState, MainPcs
    <3> QED
      BY <3>1, <3>2, <3>3, <3>4, <3>5, Zenon DEF TypeOK
  <2>4. ASSUME NEW s \in Sources, NEW i \in DOMAIN shipper.got[s]
        PROVE  LET r == shipper.got[s][i]
               IN  /\ r.start = (IF i = 1 THEN 1 ELSE shipper.got[s][i - 1].offset + 1)
                   /\ r.lines = r.offset - r.start + 1
                   /\ \A n \in (r.start + 1) .. r.offset : setup.joining /\ Input[s][n].cont
                   /\ IsJoinedLen(r.len, s, r.start, r.offset)
                   /\ r.len <= MaxMessageLen /\ r.lines <= MaxLines
    <3>1. PICK r, g : r = g[i] /\ g = shipper.got[s]
      BY Zenon
    <3>2. g \in Seq(WholeRecord) /\ FromFirst(g, s) /\ i \in DOMAIN g
      BY <2>1, <2>4, <3>1, Zenon DEF Types, ShipperType, GotInv
    <3>3. r.src = s /\ r.start = (IF i = 1 THEN 1 ELSE g[i - 1].offset + 1)
      BY <3>1, <3>2, Zenon DEF FromFirst
    <3>4. r \in WholeRecord
      BY <3>1, <3>2
    <3>5. Whole(r)
      BY <3>4, Zenon DEF WholeRecord
    <3>6. /\ r.lines = r.offset - r.start + 1
          /\ \A n \in (r.start + 1) .. r.offset : setup.joining /\ Input[s][n].cont
          /\ IsJoinedLen(r.len, s, r.start, r.offset)
          /\ r.len <= MaxMessageLen /\ r.lines <= MaxLines
      BY <3>3, <3>5, Zenon DEF Whole
    <3> QED
      BY <3>1, <3>3, <3>6, Zenon
  <2> QED
    BY <2>3, <2>4, Zenon DEF RecordsCover
<1>2. Init => PipeInv
  BY InitPipe, Zenon
<1>3. PipeInv /\ [Next]_vars => PipeInv'
  BY NextFlows, Zenon
<1> QED
  BY <1>1, <1>2, <1>3, PTL DEF Spec

\* runPipeline's return and run's exit, for every shutdown: a stop within the
\* deadline that reports no error has brought every line a source sent to the
\* shipper, and status 0 means that no source, stage or server failed and that
\* no stage is left behind.
THEOREM HonestStop == Spec => []StopsHonestly
<1>1. PipeInv => StopsHonestly
  <2> SUFFICES ASSUME PipeInv PROVE CleanStopDelivers /\ ZeroExitIsHonest
    BY Zenon DEF StopsHonestly
  <2>1. Types /\ ChannelInv /\ StageInv /\ MainInv
    BY Zenon DEF PipeInv
  <2>2. ASSUME Returned, main.errs = {}
        PROVE  /\ "lines" \in closed /\ "joined" \in closed /\ joiner.pc = "done" /\ shipper.pc = "done"
               /\ ~shipper.err /\ ~main.fatal /\ \A s \in Sources : src[s].pc = "done" /\ ~src[s].err
    <3>1. Finished
      BY <2>2, Zenon DEF Finished, Returned
    <3>2. /\ "lines" \in closed /\ "joined" \in closed /\ shipper.pc = "done" /\ ~shipper.err
          /\ ~\E s \in Sources : src[s].err
      BY <2>1, <2>2, <3>1, Zenon DEF MainInv
    <3>3. ~main.fatal
      BY <2>1, <2>2, Zenon DEF StageInv
    <3> QED
      BY <2>1, <3>2, <3>3, Zenon DEF ChannelInv, Senders
  <2>3. ASSUME Returned, ~main.deadline, main.errs = {}, NEW s \in Sources
        PROVE  Delivered(s) = src[s].sent
    <3>1. Clean
      BY <2>3, Zenon DEF Clean
    <3>2. PICK a \in Nat : RecordRun(chan["joined"], s, Delivered(s), a) /\ a = src[s].sent
      BY <2>2, <2>3, <3>1, Zenon DEF PipeInv, Flow
    <3>3. chan["joined"] = <<>>
      BY <2>1, <2>2, <2>3, <3>1, Zenon DEF StageInv
    <3>4. RecordRun(<<>>, s, Delivered(s), a) /\ Delivered(s) \in Nat
      BY <2>1, <3>2, <3>3, DeliveredNat, Zenon DEF Types
    <3> QED
      BY <3>2, <3>4, RecordEmpty, Zenon
  <2>4. CleanStopDelivers
    BY <2>3, Zenon DEF CleanStopDelivers
  <2>5. ASSUME main.pc = "exited", main.errs = {}
        PROVE  admin = "down" /\ Returned
    BY <2>1, <2>5, Zenon DEF MainInv, Types, MainType, Returned
  <2>6. ZeroExitIsHonest
    BY <2>2, <2>5, Zenon DEF ZeroExitIsHonest
  <2> QED
    BY <2>4, <2>6, Zenon
<1>2. Init => PipeInv
  BY InitPipe, Zenon
<1>3. PipeInv /\ [Next]_vars => PipeInv'
  BY NextFlows, Zenon
<1> QED
  BY <1>1, <1>2, <1>3, PTL DEF Spec

=============================================================================
