-------------------------------- MODULE Tail --------------------------------
(***************************************************************************)
(* The file tailer, src/internal/agent/tailfile.go, with the line          *)
(* assembler (lines.go), the head fingerprint (fingerprint.go) and the     *)
(* cursor it resumes from (source.go, checkpoint.go).                      *)
(*                                                                         *)
(* The tailer is one goroutine, but every system call it makes sees the    *)
(* file as the writer and the rotation left it at that instant.  So each   *)
(* stat, each fingerprint and each read is an action of its own and the    *)
(* environment may append, truncate, rename, recreate or kill the agent    *)
(* between any two of them.                                                *)
(*                                                                         *)
(* A file's content is a sequence of units, each of them the part-th piece *)
(* of a line; the last piece carries the terminator.  Units stand for      *)
(* bytes: offsets count them, and no two are alike, so two fingerprints    *)
(* are equal only when the heads are (hash collisions are left out).       *)
(* gen, base and blind are history: the incarnation of an inode's content, *)
(* the incarnation an offset was taken in, and whether a check passed over *)
(* a change of incarnation.                                                *)
(***************************************************************************)
EXTENDS Integers, Sequences, FiniteSets, SequencesExt, FiniteSetsExt

CONSTANTS
  Inodes,            \* inode numbers, reused once nothing holds them
  HeadLen,           \* headFingerprintLen, in units
  MaxMessageLen,     \* model.MaxMessageLen, in units
  ReadMax,           \* units one read of bufio may return
  OneRotationAtATime,\* a file is renamed only once the running tailer has it open
  \* Bounds.
  MaxParts, MaxUnits,\* pieces of a line, pieces written
  MaxEvents          \* truncations, rotations and crashes, together

ASSUME TailAssumption ==
  /\ Inodes \subseteq Nat \ {0}
  /\ {HeadLen, MaxMessageLen, ReadMax, MaxParts} \subseteq Nat \ {0}
  /\ {MaxUnits, MaxEvents} \subseteq Nat
  /\ OneRotationAtATime \in BOOLEAN

VARIABLES
  files,     \* inode -> its content and the incarnation of that content
  path,      \* the inode at the configured path, 0 when nothing is there
  world,     \* the writer's inode, what it wrote, what the rotation did
  src,       \* the TailSource and its Run
  sent,      \* lines this process emitted, oldest first
  acked,     \* units of the lines acknowledged to earlier processes
  rows,      \* every line ever emitted, as storage would key it
  committed  \* the cursor in the checkpoint file

vars == <<files, path, world, src, sent, acked, rows, committed>>

NoHead == <<>>                      \* the zero Fingerprint
NoCursor == [start |-> 0, offset |-> 0, file |-> 0, head |-> NoHead, base |-> 0]
Data(ino) == files[ino].data
Gen(ino) == files[ino].gen

-----------------------------------------------------------------------------
(* Fingerprints, cursors and lines.                                        *)

FingerprintHead(data) == IF Len(data) < HeadLen THEN NoHead ELSE SubSeq(data, 1, HeadLen)

\* Mutant of Differs: a fingerprint never taken counts as a different one.
DiffersOrZero(f, g) == f # g

Differs(f, g) == f # NoHead /\ Len(f) = Len(g) /\ f # g

ValidCursor(c) == c.start >= 0 /\ c.offset >= 0 /\ c.start <= c.offset

\* How many units of buf the first terminated line takes, 0 when there is none.
Terminated(buf) == SelectInSeq(buf, LAMBDA u : u.end)

\* The part of a line that is kept; what is past MaxMessageLen is discarded.
Kept(units) == SubSeq(units, 1, Min({MaxMessageLen, Len(units)}))

\* Mutant of StartOf: the start is derived from the length of what was kept.
StartFromLength(offset, consumed) ==
  offset + consumed - Min({MaxMessageLen, consumed})

\* The cursor's Start, for a line of consumed units read at offset.
StartOf(offset, consumed) == offset

\* Mutant of LineOf: the cursor's offset is counted from the line's start.
LineRelative(s, consumed) ==
  [units  |-> SubSeq(s.buf, 1, consumed),
   cursor |-> [start |-> s.offset, offset |-> consumed,
               file |-> s.fd, head |-> s.head, base |-> s.base]]

LineOf(s, consumed) ==
  [units  |-> SubSeq(s.buf, 1, consumed),
   cursor |-> [start |-> StartOf(s.offset, consumed), offset |-> s.offset + consumed,
               file |-> s.fd, head |-> s.head, base |-> s.base]]

\* What storage's dedup index sees of an emitted line: seq and time.  The
\* clock is read to the process: a line read again by a later process is read
\* at a later time.
RowOf(line) ==
  [text |-> Kept(line.units), seq |-> line.cursor.start, time |-> world.restarts]

-----------------------------------------------------------------------------
(* The writer and whoever rotates its file.  While the source has failed    *)
(* nothing observes the file, so what would happen to it then happens       *)
(* before the next process starts, when the source is down.                 *)

Watched == src.pc # "failed"

\* Append one piece of a line, the last one or not.
Write(end) ==
  LET data == Data(world.ino)
      open == data # <<>> /\ ~Last(data).end
      part == IF open THEN Last(data).part + 1 ELSE 1
      line == IF open THEN Last(data).line ELSE world.lines + 1
  IN  /\ Watched /\ world.ino # 0 /\ world.units < MaxUnits
      /\ end \/ part < MaxParts
      /\ files' = [files EXCEPT ![world.ino].data =
                     Append(@, [line |-> line, part |-> part, end |-> end])]
      /\ world' = [world EXCEPT !.units = @ + 1, !.lines = line]
      /\ UNCHANGED <<path, src, sent, acked, rows, committed>>

\* copytruncate: the content is gone, the inode stays.
Truncate ==
  /\ Watched /\ world.ino # 0 /\ path = world.ino /\ world.events < MaxEvents
  /\ files' = [files EXCEPT ![path] = [gen |-> @.gen + 1, data |-> <<>>]]
  /\ world' = [world EXCEPT !.events = @ + 1]
  /\ UNCHANGED <<path, src, sent, acked, rows, committed>>

\* The file is renamed away; the writer keeps its descriptor until it reopens.
Rename ==
  /\ Watched /\ path # 0 /\ world.events < MaxEvents
  /\ OneRotationAtATime => src.fd = path \/ src.pc = "down"
  /\ path' = 0
  /\ world' = [world EXCEPT !.events = @ + 1]
  /\ UNCHANGED <<files, src, sent, acked, rows, committed>>

\* The writer reopens: a new file at the path, in an inode nothing holds.
Recreate ==
  /\ Watched /\ path = 0
  /\ \E ino \in Inodes \ {src.fd, world.ino} :
       /\ files' = [files EXCEPT ![ino] = [gen |-> @.gen + 1, data |-> <<>>]]
       /\ path' = ino
       /\ world' = [world EXCEPT !.ino = ino]
  /\ UNCHANGED <<src, sent, acked, rows, committed>>

-----------------------------------------------------------------------------
(* The tailer.                                                             *)

Idle == [pc |-> "down", fd |-> 0, offset |-> 0, head |-> NoHead, base |-> 0,
         buf |-> <<>>, size |-> 0, resume |-> NoCursor, headGen |-> 0,
         missed |-> 0, truncations |-> 0, blind |-> FALSE]

Goto(pc) == src' = [src EXCEPT !.pc = pc]
SourceOnly == UNCHANGED <<files, path, world, sent, acked, rows, committed>>

\* run(): the checkpoint is loaded, and refused when a cursor is invalid.
Start ==
  /\ src.pc = "down" /\ ValidCursor(committed)
  /\ src' = [src EXCEPT !.pc = "await", !.resume = committed]
  /\ SourceOnly

\* awaitFile and setFile, for the first file.
Open ==
  /\ src.pc = "await" /\ path # 0
  /\ src' = [src EXCEPT !.pc = "resume", !.fd = path]
  /\ SourceOnly

\* resolveResumedCursor takes the fingerprint first...
ResumeHead ==
  /\ src.pc = "resume"
  /\ src' = [src EXCEPT !.pc = "resumestat", !.head = FingerprintHead(Data(src.fd)),
                        !.headGen = Gen(src.fd)]
  /\ SourceOnly

\* A check keeps an offset that is right for the incarnation base, having
\* fingerprinted the incarnation gen: blind when the two are not the same.
Keep(s, offset, base, gen) ==
  [s EXCEPT !.offset = offset, !.base = gen,
            !.blind = @ \/ (offset # 0 /\ base # gen)]
Reset(s) == [s EXCEPT !.offset = 0, !.base = Gen(s.fd), !.truncations = @ + 1]

\* ...and decides after the stat: another file, a truncated one, or resume.
\* Mutant of ResumeStat: starting over in another file is not counted.
ResumeUncounted ==
  LET otherFile == src.resume.file # 0 /\ src.resume.file # src.fd
      truncated == \/ Len(Data(src.fd)) < src.resume.offset
                   \/ Differs(src.resume.head, src.head)
  IN  /\ src.pc = "resumestat"
      /\ src' = [(IF otherFile THEN [src EXCEPT !.offset = 0]
                  ELSE IF truncated THEN Reset(src)
                  ELSE Keep(src, src.resume.offset, src.resume.base, src.headGen))
                 EXCEPT !.pc = "stat", !.headGen = 0]
      /\ SourceOnly

ResumeStat ==
  LET otherFile == src.resume.file # 0 /\ src.resume.file # src.fd
      truncated == \/ Len(Data(src.fd)) < src.resume.offset
                   \/ Differs(src.resume.head, src.head)
  IN  /\ src.pc = "resumestat"
      /\ src' = [(IF otherFile THEN [src EXCEPT !.offset = 0, !.missed = @ + 1]
                  ELSE IF truncated THEN Reset(src)
                  ELSE Keep(src, src.resume.offset, src.resume.base, src.headGen))
                 EXCEPT !.pc = "stat", !.headGen = 0]
      /\ SourceOnly

\* Mutant of StatPath: the path keeps its name, so nothing changed.
StatPathByName ==
  /\ src.pc = "stat"
  /\ Goto(IF path = 0 \/ path # src.fd THEN "read" ELSE "fdstat")
  /\ SourceOnly

\* resolveState, the stat of the path: gone, another inode, or the same one.
StatPath ==
  /\ src.pc = "stat"
  /\ Goto(IF path = 0 THEN "read" ELSE IF path # src.fd THEN "drain" ELSE "fdstat")
  /\ SourceOnly

StatFile ==
  /\ src.pc = "fdstat"
  /\ src' = [src EXCEPT !.pc = "check", !.size = Len(Data(src.fd))]
  /\ SourceOnly

\* resolveState, the fingerprint and the decision.
\* Mutant of Check: only a shrink counts as a truncation.
CheckSizeOnly ==
  /\ src.pc = "check"
  /\ src' = [(IF src.size < src.offset THEN Reset(src) ELSE Keep(src, src.offset, src.base, Gen(src.fd)))
             EXCEPT !.pc = "read", !.size = 0, !.head = FingerprintHead(Data(src.fd))]
  /\ SourceOnly

Check ==
  LET newHead == FingerprintHead(Data(src.fd))
      truncated == src.size < src.offset \/ Differs(src.head, newHead)
  IN  /\ src.pc = "check"
      /\ src' = [(IF truncated THEN Reset(src) ELSE Keep(src, src.offset, src.base, Gen(src.fd)))
                 EXCEPT !.pc = "read", !.size = 0, !.head = newHead]
      /\ SourceOnly

\* readToEOF, one read: bufio asks for more only when no line is complete.
Unread == SubSeq(Data(src.fd), src.offset + Len(src.buf) + 1, Len(Data(src.fd)))

Fill ==
  /\ src.pc \in {"read", "drain"} /\ Terminated(src.buf) = 0 /\ Unread # <<>>
  /\ src' = [src EXCEPT !.buf = @ \o SubSeq(Unread, 1, Min({ReadMax, Len(Unread)})),
                        !.base = IF src.offset = 0 /\ src.buf = <<>> THEN Gen(src.fd) ELSE @]
  /\ SourceOnly

Emitted(consumed) ==
  LET line == LineOf(src, consumed)
  IN  /\ sent' = Append(sent, line)
      /\ rows' = rows \cup {RowOf(line)}
      /\ UNCHANGED <<files, path, world, acked, committed>>

\* readToEOF, one complete line.
EmitLine ==
  LET consumed == Terminated(src.buf)
  IN  /\ src.pc \in {"read", "drain"} /\ consumed # 0
      /\ src' = [src EXCEPT !.offset = @ + consumed,
                            !.buf = SubSeq(@, consumed + 1, Len(@))]
      /\ Emitted(consumed)

\* Whether a line without its terminator is emitted at the end of the file.
\* Mutant of EmitFragment: a final drain holds it back too.
FragmentIfLong(fragment, final) == Len(fragment) >= MaxMessageLen

EmitFragment(fragment, final) ==
  Len(fragment) >= MaxMessageLen \/ (final /\ fragment # <<>>)

\* readToEOF at the end of the file.  A rotation goes on to await the new one;
\* otherwise the poll interval passes before the next stat.
EndOfFile ==
  LET emits == EmitFragment(src.buf, src.pc = "drain")
  IN  /\ src.pc \in {"read", "drain"} /\ Terminated(src.buf) = 0 /\ Unread = <<>>
      /\ src' = [src EXCEPT !.pc = IF @ = "drain" THEN "swap" ELSE "stat",
                            !.offset = IF emits THEN @ + Len(src.buf) ELSE @,
                            !.buf = <<>>]
      /\ IF emits THEN Emitted(Len(src.buf)) ELSE SourceOnly

\* rotate, once the old file is drained: awaitFile, setFile, the fingerprint.
Swap ==
  /\ src.pc = "swap" /\ path # 0
  /\ src' = [src EXCEPT !.pc = "read", !.fd = path, !.offset = 0, !.base = Gen(path),
                        !.head = FingerprintHead(Data(path)),
                        !.blind = @ \/ src.base # Gen(src.fd)]
  /\ SourceOnly

\* A stat, an open, a seek or a read fails: Run returns, the agent goes on.
Fail ==
  /\ src.pc \notin {"down", "failed"}
  /\ src' = [Idle EXCEPT !.pc = "failed", !.fd = src.fd, !.missed = src.missed,
                         !.truncations = src.truncations, !.blind = src.blind]
  /\ SourceOnly

-----------------------------------------------------------------------------
(* Downstream.  The tailer never sees an ack: acks matter to it only        *)
(* through the cursor the next process resumes from, so the model has them *)
(* arrive, in order, when the process ends.                                *)

\* Mutant of AdvanceCheckpoint: the cursor of a line that was only read.
AdvanceOnRead(current, c) == IF sent = <<>> THEN c ELSE Last(sent).cursor

AdvanceCheckpoint(current, c) ==
  IF current # NoCursor /\ c.file = current.file /\ c.offset < current.offset
    THEN current ELSE c

\* The agent dies or stops; the first n of the lines it sent were acked and
\* their cursors committed, the others are forgotten.
Crash(n) ==
  LET done == SubSeq(sent, 1, n)
  IN  /\ src.pc # "down" /\ world.events < MaxEvents
      /\ acked' = acked \cup UNION {ToSet(line.units) : line \in ToSet(done)}
      /\ committed' = FoldLeft(LAMBDA c, line : AdvanceCheckpoint(c, line.cursor), committed, done)
      /\ sent' = <<>>
      /\ src' = [Idle EXCEPT !.missed = src.missed, !.truncations = src.truncations,
                             !.blind = src.blind]
      /\ world' = [world EXCEPT !.restarts = @ + 1, !.events = @ + 1]
      /\ UNCHANGED <<files, path, rows>>

-----------------------------------------------------------------------------

Init ==
  /\ files = [ino \in Inodes |-> [gen |-> 0, data |-> <<>>]]
  /\ path = 0
  /\ world = [ino |-> 0, units |-> 0, lines |-> 0, events |-> 0, restarts |-> 0]
  /\ src = [Idle EXCEPT !.pc = "await"] /\ sent = <<>> /\ acked = {} /\ rows = {}
  /\ committed = NoCursor

TailerStep ==
  \/ Start \/ Open \/ ResumeHead \/ ResumeStat \/ StatPath \/ StatFile \/ Check
  \/ Fill \/ EmitLine \/ EndOfFile \/ Swap

Next ==
  \/ \E end \in BOOLEAN : Write(end)
  \/ Truncate \/ Rename \/ Recreate
  \/ TailerStep \/ Fail
  \/ \E n \in 0 .. Len(sent) : Crash(n)

Spec == Init /\ [][Next]_vars

\* The tailer polls for as long as the agent runs, and a writer whose file was
\* renamed away reopens it.
LiveSpec == Spec /\ WF_vars(TailerStep) /\ WF_vars(Recreate)

-----------------------------------------------------------------------------
(* Properties.                                                             *)

Units == [line : 1 .. MaxUnits, part : 1 .. MaxParts, end : BOOLEAN]
Covered == acked \cup UNION {ToSet(line.units) : line \in ToSet(sent)}
Reading == src.pc \in {"stat", "fdstat", "check", "read", "drain", "swap"}
Intact(text) == \A i, j \in DOMAIN text : text[i].line = text[j].line

\* Types, and the bounds of the source's position: the buffer never runs past
\* the offset it was read at, a cursor always loads again.
TypeOK ==
  /\ \A ino \in Inodes : ToSet(Data(ino)) \subseteq Units /\ Gen(ino) \in Nat
  /\ path \in Inodes \cup {0} /\ world.ino \in Inodes \cup {0}
  /\ src.fd \in Inodes \cup {0} /\ src.offset \in Nat
  /\ ToSet(src.buf) \cup acked \subseteq Units
  /\ Reading => src.fd # 0
  /\ ValidCursor(committed)

\* Resume, rotation and truncation never skip: whatever lies before the offset
\* in the file being read was acked, or was emitted by this process and can
\* still be acked (the checkpoint's no-gaps guarantee, checkpoint.go 31-42).
\* The exceptions are BlindOnlyWhenUnknown's.
NoSilentLoss ==
  Reading /\ ~src.blind /\ src.base = Gen(src.fd) =>
    \A k \in 1 .. src.offset : k \in DOMAIN Data(src.fd) /\ Data(src.fd)[k] \in Covered

\* A rotation leaves nothing behind in the file it switches away from, a line
\* without its terminator included (rotate, tailfile.go 290-298).
RotationDrains ==
  src.pc = "swap" /\ ~src.blind /\ src.base = Gen(src.fd) =>
    ToSet(Data(src.fd)) \subseteq Covered

\* A generation that was lost shows in a metric: when something in a file that
\* is no longer read was never emitted, a missed generation or a truncation
\* was counted (resolveResumedCursor), provided a checkpoint existed.
LossIsCounted ==
  Reading /\ ~src.blind /\ (world.restarts = 0 \/ src.resume # NoCursor) =>
    \/ src.missed + src.truncations > 0
    \/ \A ino \in Inodes \ {path, src.fd} : ToSet(Data(ino)) \subseteq Covered

\* A line that is read again gets the seq it had, and the same text: Start
\* regenerates an identical seq on replay (source.go 76-81), whatever mix of
\* long lines, fragments and restarts happened in between.
ReplaySameSeq ==
  \A r, t \in rows : Head(r.text) = Head(t.text) =>
    r.seq = t.seq /\ (Intact(r.text) /\ Intact(t.text) => r.text = t.text)

\* An ordinary append is never taken for a truncation: as long as no content was
\* ever replaced, none is reported and nothing is read twice by one process
\* (the fixed fingerprint length, fingerprint.go 13-16).
NoFalseAlarm ==
  (\A ino \in Inodes : Gen(ino) <= 1) =>
    /\ src.truncations = 0
    /\ \A i, j \in DOMAIN sent :
         i # j => ToSet(sent[i].units) \cap ToSet(sent[j].units) = {}

\* A rewrite of the file is overlooked only when there was nothing to compare:
\* one of the two fingerprints was never taken (a file shorter than
\* headFingerprintLen), or a rotation overtook the check.
BlindOnlyWhenUnknown ==
  ~src.blind /\ src'.blind =>
    \/ src.pc = "check" /\ NoHead \in {src.head, src'.head}
    \/ src.pc = "resumestat" /\ NoHead \in {src.resume.head, src.head}
    \/ src.pc = "swap"

CaughtUp ==
  \/ src.blind \/ src.pc = "failed"
  \/ /\ path # 0
     /\ \A k \in DOMAIN Data(path) :
          (\E m \in k .. Len(Data(path)) : Data(path)[m].end) => Data(path)[k] \in Covered

\* Once the writer, the rotation and the crashes are over, every complete line
\* of the file at the path has been emitted: no resumed offset, fingerprint or
\* held fragment leaves the tailer waiting for ever (tailfile.go 181-187).
CatchesUp == <>[]CaughtUp

\* A line that is read again after a crash meets its own row in the dedup
\* index, which is on stream, seq and time.
ReplayDeduplicated ==
  \A r, t \in rows : Head(r.text) = Head(t.text) => r.time = t.time

=============================================================================
