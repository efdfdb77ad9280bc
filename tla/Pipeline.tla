------------------------------ MODULE Pipeline ------------------------------
(***************************************************************************)
(* The agent process, src/cmd/agent/main.go: runPipeline's goroutines and  *)
(* the bounded channels between them, with the sources (as stdin.go and    *)
(* tailfile.go drive a channel), the relay, the multiline joiner           *)
(* (multiline.go), the shipper as the end of the pipe, and the shutdown    *)
(* sequence that takes them down in order.                                 *)
(*                                                                         *)
(*   source -> lines -> relay -> toJoiner -> joiner -> joined -> shipper   *)
(*                                                                         *)
(* Each goroutine is a process; a select is one action per case, so both   *)
(* outcomes are possible whenever two cases are ready.  The one line that  *)
(* a source or the relay has in hand between its receive and its send      *)
(* counts as still where it came from.  A line is its number in its        *)
(* source; a record is the run of lines it was joined from.                *)
(* What the tailer reads and what the shipper does with a record are the   *)
(* subject of modules Tail and Shipper.                                    *)
(***************************************************************************)
EXTENDS Integers, Sequences, FiniteSets, Functions

CONSTANTS
  Sources,
  Setups,        \* [joining, input]: whether a continuation pattern is configured;
                 \* each source's lines, a length and whether it continues a record
  StdinSources,  \* the sources with a reader goroutine and a clean end of input
  MayWedge,      \* whether a read may ignore cancellation for good
  QueueCapacity, HandoffCap,
  MaxFaults,     \* bound on the faults of a behaviour
  MaxMessageLen, MaxLines    \* model.MaxMessageLen, defaultMaxLines

ASSUME PipelineAssumption ==
  /\ StdinSources \subseteq Sources /\ MayWedge \in BOOLEAN
  /\ {QueueCapacity, HandoffCap, MaxMessageLen, MaxLines, MaxFaults} \subseteq Nat \ {0}
  /\ \A c \in Setups :
       /\ c.joining \in BOOLEAN
       /\ c.input \in [Sources -> Seq([len : 0 .. MaxMessageLen, cont : BOOLEAN])]

VARIABLES
  setup,    \* the one of Setups this agent runs with
  src,      \* the sources and their reader goroutines
  chan,     \* the content of lines, toJoiner and joined
  closed,   \* which of them are closed
  relay, joiner, shipper, main, admin,
  panic     \* a send on a closed channel

vars == <<setup, src, chan, closed, relay, joiner, shipper, main, admin, panic>>

\* The faults so far, at most MaxFaults of which a behaviour has.
Faults ==
  Cardinality({s \in Sources : src[s].err \/ src[s].pc = "wedged"})
    + (IF admin = "failed" THEN 1 ELSE 0) + (IF shipper.err THEN 1 ELSE 0)

Input == setup.input

\* ctx is done on a signal and when the admin server fails; the sources' own
\* context also when a stage died; the drain's once the deadline has passed or
\* runPipeline has returned.
CtxDone == main.signal \/ admin = "failed"
SrcCtxDone == CtxDone \/ main.fatal \/ main.pc = "returned"
DrainDone == main.deadline \/ main.pc = "returned"

\* The goroutines end with the process.
InProcess == main.pc # "exited"

\* A send: blocked while the channel is full, a panic once it is closed.
Room(c) == Len(chan[c]) < QueueCapacity
Put(c, x) ==
  IF c \in closed
    THEN panic' = TRUE /\ UNCHANGED chan
    ELSE Room(c) /\ chan' = [chan EXCEPT ![c] = Append(@, x)] /\ UNCHANGED panic
Take(c) == chan' = [chan EXCEPT ![c] = Tail(@)]
CanTake(c) == chan[c] # <<>>
AtEnd(c) == chan[c] = <<>> /\ c \in closed

-----------------------------------------------------------------------------
(* Sources.                                                                *)

RestOfSource == InProcess /\ UNCHANGED <<setup, closed, relay, joiner, shipper, main, admin>>
SrcOnly == RestOfSource /\ UNCHANGED <<chan, panic>>

\* The tailer reads a line and sends it.
EmitLine(s) ==
  /\ s \notin StdinSources /\ src[s].pc = "run" /\ src[s].read < Len(Input[s])
  /\ Put("lines", [src |-> s, n |-> src[s].read + 1])
  /\ src' = [src EXCEPT ![s].read = @ + 1, ![s].sent = @ + 1]
  /\ RestOfSource

\* StdinSource.read: the reader hands a line to Run.  One it reads after Run has
\* returned goes nowhere.
ReaderReads(s) ==
  /\ s \in StdinSources /\ src[s].pc = "run" /\ src[s].read < Len(Input[s])
  /\ Len(src[s].handoff) < HandoffCap
  /\ src' = [src EXCEPT ![s].read = @ + 1, ![s].handoff = Append(@, src[s].read + 1)]
  /\ SrcOnly

\* StdinSource.Run: the next line of the handoff, or its end.
Forward(s) ==
  /\ src[s].pc = "run" /\ src[s].handoff # <<>>
  /\ Put("lines", [src |-> s, n |-> Head(src[s].handoff)])
  /\ src' = [src EXCEPT ![s].handoff = Tail(@), ![s].sent = @ + 1]
  /\ RestOfSource

\* Mutant of InputEnds: the end of the input drops what was handed over.
InputEndsEarly(s) ==
  /\ s \in StdinSources /\ src[s].pc = "run" /\ src[s].read = Len(Input[s])
  /\ src' = [src EXCEPT ![s].pc = "done"]
  /\ SrcOnly

InputEnds(s) ==
  /\ s \in StdinSources /\ src[s].pc = "run" /\ src[s].read = Len(Input[s])
  /\ src[s].handoff = <<>>
  /\ src' = [src EXCEPT ![s].pc = "done"]
  /\ SrcOnly

\* <-ctx.Done(), in the send or while waiting for something to read.  The
\* handoff goes with Run.
SourceCancelled(s) ==
  /\ src[s].pc = "run" /\ SrcCtxDone
  /\ src' = [src EXCEPT ![s].pc = "done", ![s].handoff = <<>>]
  /\ SrcOnly

\* Run returns an error of its own, which shows only once the agent stops.
SourceFails(s) ==
  /\ src[s].pc = "run" /\ Faults < MaxFaults
  /\ src' = [src EXCEPT ![s].pc = "done", ![s].err = TRUE, ![s].handoff = <<>>]
  /\ SrcOnly

\* A read of a file that nothing interrupts.  One of stdin blocks its reader
\* goroutine only, and Run still sees the cancellation.
Wedges(s) ==
  /\ MayWedge /\ s \notin StdinSources /\ src[s].pc = "run" /\ Faults < MaxFaults
  /\ src' = [src EXCEPT ![s].pc = "wedged"]
  /\ SrcOnly

-----------------------------------------------------------------------------
(* relayLines.                                                             *)

RestOfRelay == InProcess /\ UNCHANGED <<setup, src, joiner, shipper, main, admin>>

RelayMoves ==
  /\ relay = "run" /\ CanTake("lines") /\ Room("toJoiner")
  /\ chan' = [chan EXCEPT !["lines"] = Tail(@), !["toJoiner"] = Append(@, Head(chan["lines"]))]
  /\ RestOfRelay /\ UNCHANGED <<relay, closed, panic>>

\* lines is closed, or the drain is cut: either way toJoiner is closed.
RelayEnds ==
  /\ relay = "run" /\ (DrainDone \/ AtEnd("lines"))
  /\ relay' = "done"
  /\ closed' = closed \cup {"toJoiner"}
  /\ RestOfRelay /\ UNCHANGED <<chan, panic>>

-----------------------------------------------------------------------------
(* Joiner.  held maps a source to the record it is assembling; outq is what *)
(* the call in progress still has to send.                                 *)

LenOf(line) == Input[line.src][line.n].len
Continues(line) == Input[line.src][line.n].cont

\* Mutant of NewHeld: the record starts where the line before it did.
NewHeldBefore(line) ==
  [src |-> line.src, start |-> line.n - 1, offset |-> line.n, len |-> LenOf(line), lines |-> 1]

NewHeld(line) ==
  [src |-> line.src, start |-> line.n, offset |-> line.n, len |-> LenOf(line), lines |-> 1]

\* absorb's two bounds.
Sep(h) == IF h.len > 0 THEN 1 ELSE 0
\* Mutant of Overflows: the separator is not counted.
OverflowsNoSep(h, line) == h.len + LenOf(line) > MaxMessageLen \/ h.lines + 1 > MaxLines

Overflows(h, line) ==
  h.len + Sep(h) + LenOf(line) > MaxMessageLen \/ h.lines + 1 > MaxLines

\* The cursor of the record: Start of its first line, Offset of its last.
Extend(h, line) ==
  [h EXCEPT !.len = @ + Sep(h) + LenOf(line), !.lines = @ + 1, !.offset = line.n]

Without(held, S) == [s \in DOMAIN held \ S |-> held[s]]
With(held, h) == [s \in DOMAIN held \cup {h.src} |-> IF s = h.src THEN h ELSE held[s]]

Absorb(line) ==
  LET s == line.src
      h == joiner.held[s]
  IN  IF s \notin DOMAIN joiner.held
        THEN [joiner EXCEPT !.held = With(@, NewHeld(line))]
      ELSE IF ~Continues(line) \/ Overflows(h, line)
        THEN [joiner EXCEPT !.held = With(Without(@, {s}), NewHeld(line)), !.outq = <<h>>]
      ELSE [joiner EXCEPT !.held[s] = Extend(h, line)]

RestOfJoiner == InProcess /\ UNCHANGED <<setup, src, closed, relay, shipper, main, admin>>
JoinerWaits == joiner.pc = "run" /\ joiner.outq = <<>>

JoinerTakes ==
  LET line == Head(chan["toJoiner"])
  IN  /\ JoinerWaits /\ CanTake("toJoiner")
      /\ Take("toJoiner")
      /\ joiner' = IF setup.joining THEN Absorb(line) ELSE [joiner EXCEPT !.outq = <<NewHeld(line)>>]
      /\ RestOfJoiner /\ UNCHANGED panic

\* The orders in which a range over a map may visit its keys.
Orders(keys) ==
  {q \in UNION {[1 .. n -> keys] : n \in 0 .. Cardinality(keys)} : IsInjective(q) /\ Range(q) = keys}

\* Every held record whose deadline has passed, in the order of the map.
FlushDue ==
  /\ JoinerWaits
  /\ \E due \in (SUBSET DOMAIN joiner.held) \ {{}} :
       \E order \in Orders(due) :
         joiner' = [joiner EXCEPT !.held = Without(@, due),
                                  !.outq = [i \in DOMAIN order |-> joiner.held[order[i]]]]
  /\ RestOfJoiner /\ UNCHANGED <<chan, panic>>

JoinerSends ==
  /\ joiner.outq # <<>>
  /\ Put("joined", Head(joiner.outq))
  /\ joiner' = [joiner EXCEPT !.outq = Tail(@)]
  /\ RestOfJoiner

\* Mutant of JoinerDrains: what is held when the input closes is dropped.
JoinerDropsHeld ==
  /\ JoinerWaits /\ AtEnd("toJoiner")
  /\ joiner' = [joiner EXCEPT !.pc = "last", !.held = <<>>]
  /\ RestOfJoiner /\ UNCHANGED <<chan, panic>>

\* The input is closed: flushAll, then return.
JoinerDrains ==
  /\ JoinerWaits /\ AtEnd("toJoiner")
  /\ \E order \in Orders(DOMAIN joiner.held) :
       joiner' = [joiner EXCEPT !.pc = "last", !.held = <<>>,
                                !.outq = [i \in DOMAIN order |-> joiner.held[order[i]]]]
  /\ RestOfJoiner /\ UNCHANGED <<chan, panic>>

JoinerReturns ==
  /\ joiner.pc = "last" /\ joiner.outq = <<>>
  /\ joiner' = [joiner EXCEPT !.pc = "done"]
  /\ RestOfJoiner /\ UNCHANGED <<chan, panic>>

\* <-ctx.Done(): back without flushing.
JoinerCancelled ==
  /\ joiner.pc \in {"run", "last"} /\ DrainDone
  /\ joiner' = [pc |-> "done", held |-> <<>>, outq |-> <<>>]
  /\ RestOfJoiner /\ UNCHANGED <<chan, panic>>

-----------------------------------------------------------------------------
(* Shipper.Run, as the pipeline sees it.                                   *)

RestOfShipper == InProcess /\ UNCHANGED <<setup, src, closed, relay, joiner, main, admin, panic>>

ShipperTakes ==
  /\ shipper.pc = "run" /\ CanTake("joined")
  /\ Take("joined")
  /\ LET r == Head(chan["joined"])
     IN  shipper' = [shipper EXCEPT !.got[r.src] = Append(@, r)]
  /\ RestOfShipper

\* The input is closed or the drain is cut; shutdown's commit may fail.
ShipperEnds(err) ==
  /\ shipper.pc = "run" /\ (AtEnd("joined") \/ DrainDone)
  /\ shipper' = [shipper EXCEPT !.pc = "done", !.err = err]
  /\ RestOfShipper /\ UNCHANGED chan

\* Run never gets past dialing: the one return before any shutdown.
ShipperFails ==
  /\ shipper.pc = "run" /\ \A s \in Sources : shipper.got[s] = <<>>
  /\ main.pc = "serve" /\ Faults < MaxFaults
  /\ shipper' = [shipper EXCEPT !.pc = "done", !.err = TRUE]
  /\ RestOfShipper /\ UNCHANGED chan

-----------------------------------------------------------------------------
(* run and runPipeline.                                                    *)

\* appendStageErr, for an error that is not a cancellation.
Failed(what, when) == IF when THEN {what} ELSE {}

RestOfMain == UNCHANGED <<setup, src, chan, relay, joiner, shipper, panic>>

Signal ==
  /\ ~main.signal /\ main.pc = "serve"
  /\ main' = [main EXCEPT !.signal = TRUE]
  /\ RestOfMain /\ UNCHANGED <<closed, admin>>

\* The admin server cannot serve, which cancels the group's context.
AdminFails ==
  /\ admin = "up" /\ main.pc = "serve" /\ Faults < MaxFaults
  /\ admin' = "failed"
  /\ RestOfMain /\ UNCHANGED <<closed, main>>

\* The select of runPipeline.  The joiner's case of it needs a joiner that
\* returns with its input open and the drain alive, which Run never does.
StopOnCtx ==
  /\ main.pc = "serve" /\ CtxDone
  /\ main' = [main EXCEPT !.pc = "sources"]
  /\ RestOfMain /\ UNCHANGED <<closed, admin>>

StopOnShipper ==
  /\ main.pc = "serve" /\ shipper.pc = "done"
  /\ main' = [main EXCEPT !.pc = "sources", !.fatal = TRUE, !.errs = @ \cup {"fatal"}]
  /\ RestOfMain /\ UNCHANGED <<closed, admin>>

DeadlinePasses ==
  /\ main.pc \in {"sources", "joiner", "shipper"} /\ ~main.deadline
  /\ main' = [main EXCEPT !.deadline = TRUE]
  /\ RestOfMain /\ UNCHANGED <<closed, admin>>

\* Step 2 and step 3: lines is closed once no source can send on it.
\* Mutant of SourcesStopped: it is closed as soon as the sources are told.
SourcesToldToStop ==
  /\ main.pc = "sources"
  /\ closed' = closed \cup {"lines"}
  /\ main' = [main EXCEPT !.pc = "joiner"]
  /\ RestOfMain /\ UNCHANGED admin

\* Mutant of SourcesStopped: the sources' errors are not collected.
SourcesForgotten ==
  /\ main.pc = "sources" /\ \A s \in Sources : src[s].pc = "done"
  /\ closed' = closed \cup {"lines"}
  /\ main' = [main EXCEPT !.pc = "joiner"]
  /\ RestOfMain /\ UNCHANGED admin

SourcesStopped ==
  /\ main.pc = "sources" /\ \A s \in Sources : src[s].pc = "done"
  /\ closed' = closed \cup {"lines"}
  /\ main' = [main EXCEPT !.pc = "joiner",
                          !.errs = @ \cup Failed("source", \E s \in Sources : src[s].err)]
  /\ RestOfMain /\ UNCHANGED admin

\* Mutant of SourcesTimedOut: keep waiting.
SourcesNeverTimeOut == FALSE /\ UNCHANGED vars

\* The early return: nothing below it runs, the admin server's stop included.
SourcesTimedOut ==
  /\ main.pc = "sources" /\ main.deadline
  /\ main' = [main EXCEPT !.pc = "returned", !.errs = @ \cup {"timeout"}]
  /\ RestOfMain /\ UNCHANGED <<closed, admin>>

\* Step 4: the joiner's result; joined is closed behind it.
JoinerCollected ==
  /\ main.pc = "joiner" /\ joiner.pc = "done"
  /\ closed' = closed \cup {"joined"}
  /\ main' = [main EXCEPT !.pc = "shipper"]
  /\ RestOfMain /\ UNCHANGED admin

\* Steps 5 and 6: the shipper's result unless it is the one that died, the
\* spool, the checkpoint (one of which may fail), the admin server.
ShipperCollected(failed) ==
  /\ main.pc = "shipper" /\ shipper.pc = "done"
  /\ main' = [main EXCEPT !.pc = "returned",
                          !.errs = @ \cup Failed("shipper", shipper.err /\ ~main.fatal) \cup failed]
  /\ admin' = IF admin = "up" THEN "down" ELSE admin
  /\ RestOfMain /\ UNCHANGED closed

\* run: the group is waited for, then main exits with its first error.
Exit ==
  /\ main.pc = "returned" /\ admin # "up"
  /\ main' = [main EXCEPT !.pc = "exited",
                          !.errs = @ \cup Failed("admin", admin = "failed")]
  /\ RestOfMain /\ UNCHANGED <<closed, admin>>

-----------------------------------------------------------------------------

Init ==
  /\ setup \in Setups
  /\ src = [s \in Sources |->
       [pc |-> "run", read |-> 0, handoff |-> <<>>, sent |-> 0, err |-> FALSE]]
  /\ chan = [c \in {"lines", "toJoiner", "joined"} |-> <<>>]
  /\ closed = {}
  /\ relay = "run"
  /\ joiner = [pc |-> "run", held |-> <<>>, outq |-> <<>>]
  /\ shipper = [pc |-> "run", got |-> [s \in Sources |-> <<>>], err |-> FALSE]
  /\ main = [pc |-> "serve", signal |-> FALSE, deadline |-> FALSE, fatal |-> FALSE, errs |-> {}]
  /\ admin = "up"
  /\ panic = FALSE

SourceStep(s) ==
  \/ EmitLine(s) \/ ReaderReads(s) \/ Forward(s) \/ InputEnds(s)
  \/ SourceCancelled(s)
RelayStep == RelayMoves \/ RelayEnds
JoinerStep ==
  JoinerTakes \/ FlushDue \/ JoinerSends \/ JoinerDrains \/ JoinerReturns \/ JoinerCancelled
ShipperStep ==
  ShipperTakes \/ \E err \in (IF Faults < MaxFaults THEN BOOLEAN ELSE {shipper.err}) : ShipperEnds(err)
MainStep ==
  \/ StopOnCtx \/ StopOnShipper \/ SourcesStopped \/ SourcesTimedOut \/ JoinerCollected
  \/ \E failed \in {{}, {"final"}} : ShipperCollected(failed)
  \/ Exit

Next ==
  \/ \E s \in Sources : SourceStep(s) \/ SourceFails(s) \/ Wedges(s)
  \/ RelayStep \/ JoinerStep \/ ShipperStep \/ ShipperFails
  \/ Signal \/ AdminFails \/ DeadlinePasses \/ MainStep

Spec == Init /\ [][Next]_vars

\* The Go scheduler runs every goroutine that can run, and timers fire.
LiveSpec ==
  /\ Spec
  /\ \A s \in Sources : WF_vars(SourceStep(s))
  /\ WF_vars(RelayStep) /\ WF_vars(JoinerStep) /\ WF_vars(ShipperStep)
  /\ WF_vars(MainStep) /\ WF_vars(DeadlinePasses)

-----------------------------------------------------------------------------
(* Properties.                                                             *)

Line == [src : Sources, n : Nat \ {0}]
Record == [src : Sources, start : Nat \ {0}, offset : Nat \ {0}, len : Nat, lines : Nat \ {0}]
IsSeqOf(q, S) == \A i \in DOMAIN q : q[i] \in S

\* Every channel carries what its reader expects and holds at most its
\* capacity; a held record is filed under the source of its lines.
TypeOK ==
  /\ \A c \in DOMAIN chan : Len(chan[c]) <= QueueCapacity
  /\ \A c \in {"lines", "toJoiner"} : IsSeqOf(chan[c], Line)
  /\ IsSeqOf(chan["joined"], Record) /\ IsSeqOf(joiner.outq, Record)
  /\ \A s \in DOMAIN joiner.held : joiner.held[s] \in Record /\ joiner.held[s].src = s
  /\ closed \subseteq DOMAIN chan
  /\ admin \in {"up", "failed", "down"}
  /\ main.pc \in {"serve", "sources", "joiner", "shipper", "returned", "exited"}

\* runPipeline's channel discipline: no goroutine ever sends on a channel that
\* was closed under it, in a clean drain, after a stage died or past the
\* deadline, when sources, relay and joiner may all still be running.
NoPanic == ~panic

\* The last line of s that reached the shipper.
Delivered(s) == IF shipper.got[s] = <<>> THEN 0 ELSE shipper.got[s][Len(shipper.got[s])].offset

\* total is the length of lines a .. b of s joined with newlines: the running
\* length grows by a line, and by a separator once the record is not empty.
IsJoinedLen(total, s, a, b) ==
  \E len \in [a .. b -> 0 .. total] :
    /\ len[a] = Input[s][a].len /\ len[b] = total
    /\ \A n \in (a + 1) .. b :
         len[n] = len[n - 1] + (IF len[n - 1] > 0 THEN 1 ELSE 0) + Input[s][n].len

\* absorb and the flushes: for every source, whatever the other sources did
\* meanwhile and whenever the timer fired, the records the shipper gets are the
\* source's lines in order with none missing, repeated or mixed with another's;
\* a record's Start and Offset are those of its first and last line, all but the
\* first continue it, and both bounds hold.
RecordsCover ==
  \A s \in Sources : \A i \in DOMAIN shipper.got[s] :
    LET r == shipper.got[s][i]
    IN  /\ r.start = (IF i = 1 THEN 1 ELSE shipper.got[s][i - 1].offset + 1)
        /\ r.lines = r.offset - r.start + 1
        /\ \A n \in (r.start + 1) .. r.offset : setup.joining /\ Input[s][n].cont
        /\ IsJoinedLen(r.len, s, r.start, r.offset)
        /\ r.len <= MaxMessageLen /\ r.lines <= MaxLines

\* What the joiner hands on is whole records of one source, in order, within
\* both limits, through channels that never exceed their capacity.
RecordsAreWhole == TypeOK /\ RecordsCover

Returned == main.pc \in {"returned", "exited"}

\* The drain: a stop that finished within the deadline and reports no error has
\* taken every line a source put on the channel to the shipper, the ones the
\* joiner was still holding included.
CleanStopDelivers ==
  Returned /\ ~main.deadline /\ main.errs = {} =>
    \A s \in Sources : Delivered(s) = src[s].sent

\* A process that exits with status 0 had no source fail, no stage die and no
\* admin server down, and left no stage of the pipeline running behind it.
ZeroExitIsHonest ==
  main.pc = "exited" /\ main.errs = {} =>
    /\ \A s \in Sources : src[s].pc = "done" /\ ~src[s].err
    /\ admin = "down" /\ ~shipper.err /\ ~main.fatal
    /\ joiner.pc = "done" /\ shipper.pc = "done"

\* How runPipeline ends: a stop within the deadline that reports no error has
\* delivered everything, and status 0 means that nothing failed or was left
\* running.
StopsHonestly == CleanStopDelivers /\ ZeroExitIsHonest

\* runPipeline's doc comment: "That error includes a stage that did not finish
\* inside cfg.Node.ShutdownTimeout".  A return without an error means that
\* nothing was cut short.
TimeoutIsReported ==
  Returned /\ main.errs = {} => \A s \in Sources : Delivered(s) = src[s].sent

\* A stop, by signal or by the death of a stage or of the admin server, always
\* gets runPipeline to return, whatever is blocked where; and the process to
\* exit, unless the sources outlast the deadline.
StopDone ==
  CtxDone \/ shipper.pc = "done" => Returned /\ (main.pc = "exited" \/ "timeout" \in main.errs)
StopCompletes == <>[]StopDone

\* runPipeline's comment on the shutdown deadline: "a wedged stage still lets
\* the process exit within ShutdownTimeout of the signal".
ProcessExits == main.signal ~> main.pc = "exited"

\* Joiner's flush timer and StdinSource.Run: once a source has no more to read,
\* everything it read arrives at the shipper, its last held record and what was
\* still in the handoff included, unless the agent is stopped or the source
\* breaks.
QuietShipped ==
  \A s \in Sources : src[s].read = Len(Input[s])
    => \/ Delivered(s) = Len(Input[s])
       \/ SrcCtxDone \/ shipper.err \/ src[s].err \/ src[s].pc = "wedged"
QuietSourceShips == <>[]QuietShipped

=============================================================================
