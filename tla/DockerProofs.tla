---------------------------- MODULE DockerProofs ----------------------------
(***************************************************************************)
(* The container source never skips a line without counting it, for any    *)
(* log, any number of lines that share an instant, any number of cuts and  *)
(* restarts and any granularity of the daemon's clock.                     *)
(***************************************************************************)
EXTENDS Docker, WellFoundedInduction, TLAPS

USE SMTT(30)

Emission == [line : Nat, whole : BOOLEAN, at : Nat]

DockerTypes ==
  /\ log \in Seq(Nat) /\ now \in Nat /\ conn \in Nat /\ since \in Nat /\ resume \in Nat
  /\ emitted \in Seq(Emission)
  /\ counts \in [failures : Nat, cuts : Nat, restarts : Nat]

\* The daemon's clock: stamps do not decrease and none lies ahead of it.
Stamped ==
  /\ \A i, j \in DOMAIN log : i <= j => log[i] <= log[j]
  /\ \A i \in DOMAIN log : log[i] <= now
  /\ conn <= Len(log) + 1
  /\ since <= now /\ resume <= now
  /\ \A k \in DOMAIN emitted : emitted[k].at <= now

\* What is settled or was sent whole among the first k emissions.
SeenBy(k) == settled \cup Whole(1 .. k)

\* Every line older than an emission's instant went before it, whole.
InOrder ==
  \A k \in DOMAIN emitted : \A i \in DOMAIN log : log[i] < emitted[k].at => i \in SeenBy(k)

\* The connection passes no line that was not sent whole.
ReadInOrder == \A i \in DOMAIN log : i < conn => i \in Seen

Kept == counts.failures = 0 => InOrder /\ ReadInOrder

DockerInv == DockerTypes /\ Stamped /\ Kept /\ SkipIsCounted /\ ResumeIsSafe

-----------------------------------------------------------------------------
(* Lemmas about the operators.                                             *)

\* A set of numbers that is not empty has a smallest one.
LEMMA Smallest ==
  ASSUME NEW S, S \subseteq Nat, S # {}
  PROVE  \E x \in S : \A y \in S : x <= y
<1>1. IsWellFoundedOn({ss \in Nat \X Nat : ss[1] < ss[2]}, Nat)
  BY NatLessThanWellFounded, Zenon DEF OpToRel
<1>2. PICK x \in S : \A y \in S : ~(<<y, x>> \in {ss \in Nat \X Nat : ss[1] < ss[2]})
  BY <1>1, WFMin, Zenon
<1>3. ASSUME NEW y \in S, y < x PROVE FALSE
  <2>1. <<y, x>> \in Nat \X Nat /\ <<y, x>>[1] < <<y, x>>[2]
    BY <1>3
  <2> QED
    BY <1>2, <2>1, Zenon
<1>4. \A y \in S : x <= y
  BY <1>3
<1> QED
  BY <1>4

\* Max is the greatest of a set of numbers with an upper bound (Checkpoint.Set
\* keeps the latest cursor).
LEMMA MaxIs ==
  ASSUME NEW S, S \subseteq Nat, S # {}, NEW b \in Nat, \A x \in S : x <= b
  PROVE  Max(S) \in S /\ \A y \in S : Max(S) >= y
<1> DEFINE U == {u \in Nat : \A x \in S : x <= u}
<1>1. PICK u \in U : \A v \in U : u <= v
  <2>1. U \subseteq Nat /\ U # {}
    OBVIOUS
  <2> QED
    BY <2>1, Smallest, Zenon
<1>2. u \in Nat /\ \A x \in S : x <= u
  BY <1>1
<1>3. u \in S
  <2> SUFFICES ASSUME u \notin S PROVE FALSE
    OBVIOUS
  <2>1. \A x \in S : x <= u - 1 /\ u - 1 \in Nat
    BY <1>2
  <2>2. PICK m : m = u - 1
    OBVIOUS
  <2>3. m \in U
    BY <2>1, <2>2, Zenon
  <2> QED
    BY <2>2, <2>3, <1>1, <1>2
<1>4. \E x \in S : \A y \in S : x >= y
  BY <1>2, <1>3
<1> QED
  BY <1>4, Zenon DEF Max

\* A daemon's Since selects the lines from it on (readOnce, docker.go).
LEMMA FirstFromIs ==
  ASSUME log \in Seq(Nat), NEW s \in Nat
  PROVE  /\ FirstFrom(s) \in 1 .. Len(log) + 1
         /\ \A j \in DOMAIN log : j < FirstFrom(s) => log[j] < s
<1>1. CASE \E i \in DOMAIN log : log[i] >= s
  <2> DEFINE S == {i \in DOMAIN log : log[i] >= s}
  <2>1. PICK i \in S : \A j \in S : i <= j
    <3>1. S \subseteq Nat /\ S # {}
      BY <1>1
    <3> QED
      BY <3>1, Smallest, Zenon
  <2>2. i \in DOMAIN log /\ log[i] >= s /\ \A j \in 1 .. (i - 1) : log[j] < s
    BY <2>1
  <2> DEFINE f == CHOOSE k \in DOMAIN log : log[k] >= s /\ \A j \in 1 .. (k - 1) : log[j] < s
  <2>3. f \in DOMAIN log /\ log[f] >= s /\ \A j \in 1 .. (f - 1) : log[j] < s
    BY <2>2, Zenon
  <2>4. FirstFrom(s) = f
    BY <1>1, Zenon DEF FirstFrom
  <2> HIDE DEF f
  <2> QED
    BY <2>3, <2>4
<1>2. CASE ~\E i \in DOMAIN log : log[i] >= s
  <2>1. FirstFrom(s) = Len(log) + 1
    BY <1>2, Zenon DEF FirstFrom
  <2> QED
    BY <1>2, <2>1
<1> QED
  BY <1>1, <1>2

\* What is sent is a line of the log, or a fragment.
LEMMA EmissionIs ==
  ASSUME emitted \in Seq(Emission)
  PROVE  \A k \in DOMAIN emitted : /\ emitted[k] \in Emission
                                   /\ emitted[k].at \in Nat /\ emitted[k].line \in Nat
<1>1. \A k \in DOMAIN emitted : emitted[k] \in Emission
  OBVIOUS
<1>2. \A e \in Emission : e.at \in Nat /\ e.line \in Nat
  BY DEF Emission
<1> QED
  BY <1>1, <1>2, Zenon

\* What is sent later changes nothing about what was sent before.
LEMMA WholeGrows ==
  ASSUME emitted \in Seq(Emission), NEW e \in Emission, emitted' = Append(emitted, e)
  PROVE  /\ emitted' \in Seq(Emission) /\ Len(emitted') = Len(emitted) + 1
         /\ DOMAIN emitted = 1 .. Len(emitted) /\ DOMAIN emitted' = 1 .. Len(emitted')
         /\ \A k \in DOMAIN emitted : emitted'[k] = emitted[k]
         /\ emitted'[Len(emitted')] = e
         /\ \A k \in 0 .. Len(emitted) : Whole(1 .. k)' = Whole(1 .. k)
         /\ Whole(DOMAIN emitted) \subseteq Whole(DOMAIN emitted)'
         /\ e.whole => e.line \in Whole(DOMAIN emitted)'
<1>1. /\ emitted' \in Seq(Emission) /\ Len(emitted') = Len(emitted) + 1
      /\ DOMAIN emitted = 1 .. Len(emitted) /\ DOMAIN emitted' = 1 .. Len(emitted')
      /\ \A k \in DOMAIN emitted : emitted'[k] = emitted[k]
      /\ emitted'[Len(emitted')] = e
      /\ Len(emitted) \in Nat
  OBVIOUS
<1>2. \A k \in 0 .. Len(emitted) : \A j \in 1 .. k : j \in DOMAIN emitted
  BY <1>1
<1>3. \A k \in 0 .. Len(emitted) : Whole(1 .. k)' = Whole(1 .. k)
  BY <1>1, <1>2, Zenon DEF Whole
<1>4. Whole(DOMAIN emitted) \subseteq Whole(DOMAIN emitted)'
  <2>1. DOMAIN emitted \subseteq DOMAIN emitted'
    BY <1>1
  <2> QED
    BY <1>1, <2>1, Zenon DEF Whole
<1>5. e.whole => e.line \in Whole(DOMAIN emitted)'
  <2>1. Len(emitted') \in DOMAIN emitted'
    BY <1>1
  <2> QED
    BY <1>1, <2>1, Zenon DEF Whole
<1> QED
  BY <1>1, <1>3, <1>4, <1>5, Zenon

-----------------------------------------------------------------------------
(* Every step keeps the invariant.                                         *)

LEMMA InitDocker == DockerInit => DockerInv
<1> SUFFICES ASSUME DockerInit PROVE DockerInv
  OBVIOUS
<1>1. DockerTypes
  BY DEF DockerInit, DockerTypes, Emission
<1>2. DOMAIN log = {} /\ DOMAIN emitted = {}
  BY DEF DockerInit
<1>3. Stamped
  BY <1>2 DEF DockerInit, Stamped
<1> QED
  BY <1>1, <1>2, <1>3, Zenon DEF DockerInv, Kept, InOrder, ReadInOrder, SkipIsCounted, ResumeIsSafe

\* The container writes a line: it is stamped no earlier than any cursor.
LEMMA WriteKeeps ==
  ASSUME DockerInv, NEW tick \in 0 .. 1, WriteLine(tick)
  PROVE  DockerInv'
<1> USE DEF DockerInv
<1>1. now' \in Nat /\ now <= now' /\ log' = Append(log, now')
  BY DEF WriteLine, DockerTypes
<1>2. UNCHANGED <<conn, since, emitted, settled, resume, counts>>
  BY DEF WriteLine
<1>3. /\ log' \in Seq(Nat) /\ Len(log') = Len(log) + 1 /\ Len(log) \in Nat
      /\ DOMAIN log = 1 .. Len(log) /\ DOMAIN log' = 1 .. Len(log')
      /\ \A i \in DOMAIN log : log'[i] = log[i] /\ log[i] \in Nat
      /\ log'[Len(log')] = now'
  BY <1>1 DEF DockerTypes
<1>4. DockerTypes'
  BY <1>1, <1>2, <1>3 DEF DockerTypes
<1>5. \A i \in DOMAIN log' : i \in DOMAIN log \/ i = Len(log')
  BY <1>3
<1>6. Stamped'
  <2>1. \A i \in DOMAIN log' : log'[i] <= now'
    BY <1>1, <1>3, <1>5 DEF DockerTypes, Stamped
  <2>2. \A i, j \in DOMAIN log' : i <= j => log'[i] <= log'[j]
    BY <1>1, <1>3, <2>1 DEF DockerTypes, Stamped
  <2>3. conn' <= Len(log') + 1 /\ since' <= now' /\ resume' <= now'
    BY <1>1, <1>2, <1>3 DEF DockerTypes, Stamped
  <2>4. \A k \in DOMAIN emitted' : emitted'[k].at <= now'
    <3>1. \A k \in DOMAIN emitted : emitted[k].at \in Nat
      BY EmissionIs DEF DockerTypes
    <3> QED
      BY <1>1, <1>2, <3>1 DEF DockerTypes, Stamped
  <2> QED
    BY <2>1, <2>2, <2>3, <2>4 DEF Stamped
\* The new line is older than nothing.
<1>7. \A t \in Nat : t <= now => \A i \in DOMAIN log' : log'[i] < t => i \in DOMAIN log /\ log[i] < t
  BY <1>1, <1>3, <1>5 DEF DockerTypes
<1>8. \A i \in DOMAIN log' : i < conn => i \in DOMAIN log
  BY <1>3, <1>5 DEF DockerTypes, Stamped
<1>9. \A k \in DOMAIN emitted : emitted[k].at \in Nat /\ emitted[k].at <= now
  BY EmissionIs DEF DockerTypes, Stamped
<1>10. since \in Nat /\ since <= now /\ resume \in Nat /\ resume <= now
  BY DEF DockerTypes, Stamped
<1>11. \A k : Whole(1 .. k)' = Whole(1 .. k) /\ SeenBy(k)' = SeenBy(k)
  BY <1>2, Zenon DEF Whole, SeenBy
<1>12. Seen' = Seen
  BY <1>2, Zenon DEF Whole, Seen
<1>13. counts'.failures = counts.failures /\ conn' = conn /\ since' = since /\ resume' = resume /\ emitted' = emitted /\ settled' = settled
  BY <1>2, Zenon
<1>14. Kept'
  <2>1. InOrder => InOrder'
    BY <1>7, <1>9, <1>11, <1>13, Zenon DEF InOrder
  <2>2. ReadInOrder => ReadInOrder'
    BY <1>8, <1>12, <1>13, Zenon DEF ReadInOrder
  <2> QED
    BY <2>1, <2>2, <1>13, Zenon DEF Kept
<1>15. SkipIsCounted'
  BY <1>7, <1>10, <1>12, <1>13, Zenon DEF SkipIsCounted
<1>16. ResumeIsSafe'
  BY <1>7, <1>10, <1>13, Zenon DEF ResumeIsSafe
<1> QED
  BY <1>4, <1>6, <1>14, <1>15, <1>16

\* A connection starts at a line no later than the first that is missing.
LEMMA ConnectKeeps ==
  ASSUME DockerInv, Connect
  PROVE  DockerInv'
<1> USE DEF DockerInv
<1>1. PICK s \in (IF since > 0 THEN Granted(since) ELSE {0}) : conn' = FirstFrom(s)
  BY Zenon DEF Connect
<1>2. s \in Nat /\ s <= since
  <2>1. since % Second \in Nat /\ since % Second <= since
    BY DockerAssumption DEF DockerTypes
  <2> QED
    BY <1>1, <2>1 DEF Granted, DockerTypes
<1>3. log' = log /\ now' = now /\ since' = since /\ emitted' = emitted /\ settled' = settled
      /\ resume' = resume /\ counts' = counts
  BY Zenon DEF Connect
<1>4. conn' \in 1 .. Len(log) + 1 /\ \A j \in DOMAIN log : j < conn' => log[j] < s
  BY <1>1, <1>2, FirstFromIs, Zenon DEF DockerTypes
<1>5. \A j \in DOMAIN log : j < conn' => log[j] < since
  <2>1. \A j \in DOMAIN log : log[j] \in Nat
    BY DEF DockerTypes
  <2> QED
    BY <1>2, <1>4, <2>1 DEF DockerTypes
<1>6. DockerTypes'
  BY <1>3, <1>4 DEF DockerTypes
<1>7. Stamped'
  BY <1>3, <1>4 DEF Stamped
<1>8. Seen' = Seen /\ \A k : SeenBy(k)' = SeenBy(k)
  BY <1>3, Zenon DEF Seen, SeenBy, Whole
<1>9. SkipIsCounted' /\ ResumeIsSafe'
  BY <1>3, <1>8, Zenon DEF SkipIsCounted, ResumeIsSafe
<1>10. Kept'
  <2>1. InOrder => InOrder'
    BY <1>3, <1>8, Zenon DEF InOrder
  <2>2. counts.failures = 0 => ReadInOrder'
    BY <1>3, <1>5, <1>8, Zenon DEF ReadInOrder, SkipIsCounted
  <2> QED
    BY <1>3, <2>1, <2>2, Zenon DEF Kept
<1> QED
  BY <1>6, <1>7, <1>9, <1>10

\* A line is sent, whole or cut off: all that is older was sent whole before.
LEMMA SendKeeps ==
  ASSUME DockerInv, conn \in DOMAIN log, NEW e \in Emission,
         e.at = log[conn], e.line = conn,
         emitted' = Append(emitted, e), since' = log[conn],
         conn' = 0 \/ (e.whole /\ conn' = conn + 1),
         UNCHANGED <<log, now, settled, resume>>,
         counts' \in [failures : Nat, cuts : Nat, restarts : Nat],
         counts'.failures = counts.failures
  PROVE  DockerInv'
<1> USE DEF DockerInv
<1>1. log' = log /\ now' = now /\ settled' = settled /\ resume' = resume
  OBVIOUS
<1>2. emitted \in Seq(Emission)
  BY DEF DockerTypes
<1>3. /\ emitted' \in Seq(Emission) /\ Len(emitted') = Len(emitted) + 1
      /\ DOMAIN emitted = 1 .. Len(emitted) /\ DOMAIN emitted' = 1 .. Len(emitted')
      /\ \A k \in DOMAIN emitted : emitted'[k] = emitted[k]
      /\ emitted'[Len(emitted')] = e
      /\ \A k \in 0 .. Len(emitted) : Whole(1 .. k)' = Whole(1 .. k)
      /\ Whole(DOMAIN emitted) \subseteq Whole(DOMAIN emitted)'
      /\ e.whole => e.line \in Whole(DOMAIN emitted)'
  BY <1>2, WholeGrows, Zenon
<1>4. Seen \subseteq Seen' /\ (e.whole => conn \in Seen')
  BY <1>1, <1>3, Zenon DEF Seen
<1>5. conn' \in Nat /\ conn' <= Len(log) + 1 /\ log[conn] \in Nat /\ log[conn] <= now
  BY DEF DockerTypes, Stamped
<1>6. DockerTypes'
  BY <1>1, <1>3, <1>5 DEF DockerTypes
<1>7. \A k \in DOMAIN emitted' : k \in DOMAIN emitted \/ k = Len(emitted')
  BY <1>2, <1>3
<1>8. Stamped'
  <2>1. \A k \in DOMAIN emitted' : emitted'[k].at <= now
    BY <1>3, <1>5, <1>7, Zenon DEF Stamped
  <2>2. conn' <= Len(log') + 1 /\ since' <= now' /\ resume' <= now'
    BY <1>1, <1>5 DEF Stamped
  <2> QED
    BY <1>1, <2>1, <2>2, Zenon DEF Stamped
<1>9. \A i \in DOMAIN log : log[i] < log[conn] => i < conn
  BY DEF DockerTypes, Stamped
<1>10. ASSUME counts.failures = 0 PROVE InOrder' /\ ReadInOrder'
  <2>1. InOrder /\ ReadInOrder
    BY <1>10 DEF Kept
  <2>2. \A k \in DOMAIN emitted : SeenBy(k)' = SeenBy(k)
    <3>1. \A k \in DOMAIN emitted : k \in 0 .. Len(emitted)
      BY <1>2, <1>3
    <3> QED
      BY <1>1, <1>3, <3>1, Zenon DEF SeenBy
  <2>3. PICK l : l = Len(emitted')
    BY Zenon
  <2>7. SeenBy(l)' = Seen'
    BY <1>3, <2>3, Zenon DEF SeenBy, Seen
  <2>4. \A i \in DOMAIN log : log[i] < log[conn] => i \in Seen'
    BY <1>4, <1>9, <2>1, Zenon DEF ReadInOrder
  <2>5. InOrder'
    <3> SUFFICES ASSUME NEW k \in DOMAIN emitted', NEW i \in DOMAIN log, log[i] < emitted'[k].at
                 PROVE  i \in SeenBy(k)'
      BY <1>1, Zenon DEF InOrder
    <3>1. CASE k \in DOMAIN emitted
      BY <1>3, <2>1, <2>2, <3>1, Zenon DEF InOrder
    <3>2. CASE k = Len(emitted')
      BY <1>3, <2>3, <2>7, <2>4, <3>2, Zenon
    <3> QED
      BY <1>7, <3>1, <3>2
  <2>6. ReadInOrder'
    <3> SUFFICES ASSUME NEW i \in DOMAIN log, i < conn' PROVE i \in Seen'
      BY <1>1, Zenon DEF ReadInOrder
    <3>1. i \in Nat /\ ~(i < 0)
      BY DEF DockerTypes
    <3>2. e.whole /\ conn' = conn + 1
      BY <3>1, Zenon
    <3>3. i < conn \/ i = conn
      BY <3>1, <3>2 DEF DockerTypes
    <3> QED
      BY <1>4, <2>1, <3>2, <3>3, Zenon DEF ReadInOrder
  <2> QED
    BY <2>5, <2>6
<1>11. SkipIsCounted'
  BY <1>1, <1>4, <1>9, Zenon DEF SkipIsCounted, Kept, ReadInOrder
<1>12. ResumeIsSafe'
  BY <1>1, Zenon DEF ResumeIsSafe
<1>13. Kept'
  BY <1>10, Zenon DEF Kept
<1> QED
  BY <1>6, <1>8, <1>11, <1>12, <1>13

LEMMA ReceiveKeeps ==
  ASSUME DockerInv, Receive
  PROVE  DockerInv'
<1>1. PICK e : e = [line |-> conn, whole |-> TRUE, at |-> log[conn]]
  BY Zenon
<1>2. e \in Emission /\ e.at = log[conn] /\ e.line = conn /\ e.whole
  BY <1>1 DEF Receive, DockerInv, DockerTypes, Emission
<1>3. /\ conn \in DOMAIN log /\ emitted' = Append(emitted, e) /\ since' = log[conn]
      /\ conn' = conn + 1 /\ UNCHANGED <<log, now, settled, resume>> /\ counts' = counts
  BY <1>1, Zenon DEF Receive
<1> QED
  BY <1>2, <1>3, SendKeeps, Zenon DEF DockerInv, DockerTypes

\* The bookkeeping of a cut.
LEMMA CutCounts ==
  ASSUME DockerInv
  PROVE  LET c == [counts EXCEPT !.cuts = @ + 1]
         IN  c \in [failures : Nat, cuts : Nat, restarts : Nat] /\ c.failures = counts.failures
  BY DEF DockerInv, DockerTypes

LEMMA CutInMessageKeeps ==
  ASSUME DockerInv, CutInMessage
  PROVE  DockerInv'
<1>1. PICK e : e = [line |-> conn, whole |-> FALSE, at |-> log[conn]]
  BY Zenon
<1>2. e \in Emission /\ e.at = log[conn] /\ e.line = conn
  BY <1>1 DEF CutInMessage, DockerInv, DockerTypes, Emission
<1>3. /\ conn \in DOMAIN log /\ emitted' = Append(emitted, e) /\ since' = log[conn]
      /\ conn' = 0 /\ UNCHANGED <<log, now, settled, resume>>
      /\ counts' = [counts EXCEPT !.cuts = @ + 1]
  BY <1>1, Zenon DEF CutInMessage, Hangup
<1>4. counts' \in [failures : Nat, cuts : Nat, restarts : Nat] /\ counts'.failures = counts.failures
  BY <1>3, CutCounts, Zenon
<1> QED
  BY <1>2, <1>3, <1>4, SendKeeps, Zenon

LEMMA CutCleanKeeps ==
  ASSUME DockerInv, CutClean
  PROVE  DockerInv'
<1> USE DEF DockerInv
<1>1. /\ conn' = 0 /\ log' = log /\ now' = now /\ since' = since /\ emitted' = emitted
      /\ settled' = settled /\ resume' = resume /\ counts' = [counts EXCEPT !.cuts = @ + 1]
  BY Zenon DEF CutClean, Hangup
<1>2. counts' \in [failures : Nat, cuts : Nat, restarts : Nat] /\ counts'.failures = counts.failures
  BY <1>1, CutCounts, Zenon
<1>3. DockerTypes' /\ Stamped'
  BY <1>1, <1>2 DEF DockerTypes, Stamped
<1>4. Seen' = Seen /\ \A k : SeenBy(k)' = SeenBy(k)
  BY <1>1, Zenon DEF Seen, SeenBy, Whole
<1>5. SkipIsCounted' /\ ResumeIsSafe'
  BY <1>1, <1>2, <1>4, Zenon DEF SkipIsCounted, ResumeIsSafe
<1>6. \A i \in DOMAIN log : ~(i < 0)
  BY DEF DockerTypes
<1>7. Kept'
  BY <1>1, <1>2, <1>4, <1>6, Zenon DEF Kept, InOrder, ReadInOrder
<1> QED
  BY <1>3, <1>5, <1>7

\* A timestamp that does not parse is counted.
LEMMA CutInTimestampKeeps ==
  ASSUME DockerInv, CutInTimestamp
  PROVE  DockerInv'
<1> USE DEF DockerInv
<1>1. PICK e : e = [line |-> Unparsed, whole |-> FALSE, at |-> now]
  BY Zenon
<1>2. e \in Emission /\ e.at = now
  BY <1>1 DEF DockerTypes, Emission, Unparsed
<1>3. /\ conn' = 0 /\ log' = log /\ now' = now /\ since' = now /\ emitted' = Append(emitted, e)
      /\ settled' = settled /\ resume' = resume
      /\ counts' = [counts EXCEPT !.cuts = @ + 1, !.failures = @ + 1]
  BY <1>1, Zenon DEF CutInTimestamp, Hangup
<1>4. counts' \in [failures : Nat, cuts : Nat, restarts : Nat] /\ counts'.failures # 0
  <2>1. PICK c : c = [counts EXCEPT !.cuts = @ + 1]
    BY Zenon
  <2>2. c \in [failures : Nat, cuts : Nat, restarts : Nat] /\ c.failures = counts.failures
    BY <2>1, CutCounts, Zenon
  <2>3. counts' = [c EXCEPT !.failures = @ + 1]
    BY <1>3, <2>1, <2>2 DEF DockerTypes
  <2> QED
    BY <2>2, <2>3
<1>5. emitted \in Seq(Emission)
  BY DEF DockerTypes
<1>6. /\ emitted' \in Seq(Emission) /\ \A k \in DOMAIN emitted : emitted'[k] = emitted[k]
      /\ DOMAIN emitted = 1 .. Len(emitted) /\ DOMAIN emitted' = 1 .. Len(emitted')
      /\ Len(emitted') = Len(emitted) + 1 /\ emitted'[Len(emitted')] = e
  BY <1>2, <1>3, <1>5, WholeGrows, Zenon
<1>7. DockerTypes'
  BY <1>3, <1>4, <1>6 DEF DockerTypes
<1>8. Stamped'
  <2>1. \A k \in DOMAIN emitted' : k \in DOMAIN emitted \/ k = Len(emitted')
    BY <1>5, <1>6
  <2>2. now \in Nat /\ now <= now
    BY DEF DockerTypes
  <2>3. \A k \in DOMAIN emitted' : emitted'[k].at <= now
    BY <1>2, <1>6, <2>1, <2>2, Zenon DEF Stamped
  <2> QED
    BY <1>3, <2>3, <2>2 DEF Stamped, DockerTypes
<1> QED
  BY <1>4, <1>7, <1>8, Zenon DEF Kept, SkipIsCounted, ResumeIsSafe

\* The cursor a restart resumes from is that of an emission that was acked, or
\* the one before it.
LEMMA RestartKeeps ==
  ASSUME DockerInv, NEW n \in 0 .. Len(emitted), Restart(n)
  PROVE  DockerInv'
<1> USE DEF DockerInv
<1>1. emitted \in Seq(Emission) /\ Len(emitted) \in Nat /\ DOMAIN emitted = 1 .. Len(emitted)
  BY DEF DockerTypes
<1> DEFINE S == {resume} \cup {emitted[i].at : i \in 1 .. n}
<1>2. PICK r : r = Max(S)
  BY Zenon
<1>3. r \in S
  <2>1. \A i \in 1 .. n : i \in DOMAIN emitted
    BY <1>1
  <2>2. \A x \in S : x \in Nat /\ x <= now
    BY <1>1, <2>1, EmissionIs, Zenon DEF DockerTypes, Stamped
  <2>3. S \subseteq Nat /\ S # {} /\ now \in Nat
    BY <2>2, Zenon DEF DockerTypes
  <2> HIDE DEF S
  <2> QED
    BY <1>2, <2>2, <2>3, MaxIs, Zenon
<1>4. r \in Nat /\ r <= now /\ (r = resume \/ \E i \in DOMAIN emitted : i <= n /\ r = emitted[i].at)
  <2>1. \A i \in 1 .. n : i \in DOMAIN emitted /\ i <= n
    BY <1>1
  <2> QED
    BY <1>1, <1>3, <2>1, EmissionIs, Zenon DEF DockerTypes, Stamped
<1>5. /\ settled' = settled \cup Whole(1 .. n) /\ resume' = r /\ since' = r
      /\ conn' = 0 /\ emitted' = <<>> /\ log' = log /\ now' = now
      /\ counts' = [counts EXCEPT !.restarts = @ + 1]
  BY <1>2, Zenon DEF Restart, ResumeAt
<1>6. counts' \in [failures : Nat, cuts : Nat, restarts : Nat] /\ counts'.failures = counts.failures
  BY <1>5 DEF DockerTypes
<1>7. emitted' \in Seq(Emission) /\ DOMAIN emitted' = {}
  BY <1>5
<1>8. DockerTypes' /\ Stamped'
  BY <1>4, <1>5, <1>6, <1>7 DEF DockerTypes, Stamped
<1>9. \A i \in DOMAIN log : ~(i < 0)
  BY DEF DockerTypes
<1>10. Kept'
  BY <1>5, <1>7, <1>9, Zenon DEF Kept, InOrder, ReadInOrder
<1>11. ASSUME counts.failures = 0 PROVE \A i \in DOMAIN log : log[i] < r => i \in settled'
  <2>1. CASE r = resume
    BY <1>5, <1>11, <2>1, Zenon DEF ResumeIsSafe
  <2>2. ASSUME NEW k \in DOMAIN emitted, k <= n, r = emitted[k].at
        PROVE  \A i \in DOMAIN log : log[i] < r => i \in settled'
    <3>1. 1 .. k \subseteq 1 .. n
      BY <1>1, <2>2
    <3>2. Whole(1 .. k) \subseteq Whole(1 .. n)
      BY <3>1, Zenon DEF Whole
    <3>3. SeenBy(k) \subseteq settled'
      BY <1>5, <3>2, Zenon DEF SeenBy
    <3> QED
      BY <1>11, <2>2, <3>3, Zenon DEF Kept, InOrder
  <2> QED
    BY <1>4, <2>1, <2>2, Zenon
<1>12. ResumeIsSafe' /\ SkipIsCounted'
  BY <1>5, <1>6, <1>11, Zenon DEF ResumeIsSafe, SkipIsCounted, Seen
<1> QED
  BY <1>8, <1>10, <1>12

-----------------------------------------------------------------------------

\* Run, readOnce and toLine (docker.go 189-290 and 435-466): over reconnections
\* and restarts no line is passed over by its timestamp, neither by the running
\* source nor by the checkpoint, unless a timestamp that did not parse was
\* counted.
THEOREM ContainerSafe == DockerSpec => []ContainerLosesNothing
<1>1. DockerInv /\ [DockerNext]_dockerVars => DockerInv'
  <2> SUFFICES ASSUME DockerInv, [DockerNext]_dockerVars PROVE DockerInv'
    OBVIOUS
  <2>1. ASSUME NEW tick \in 0 .. 1, WriteLine(tick) PROVE DockerInv'
    BY <2>1, WriteKeeps, Zenon
  <2>2. CASE Connect
    BY <2>2, ConnectKeeps, Zenon
  <2>3. CASE Receive
    BY <2>3, ReceiveKeeps, Zenon
  <2>4. CASE CutClean
    BY <2>4, CutCleanKeeps, Zenon
  <2>5. CASE CutInMessage
    BY <2>5, CutInMessageKeeps, Zenon
  <2>6. CASE CutInTimestamp
    BY <2>6, CutInTimestampKeeps, Zenon
  <2>7. ASSUME NEW n \in 0 .. Len(emitted), Restart(n) PROVE DockerInv'
    BY <2>7, RestartKeeps, Zenon
  <2>8. CASE UNCHANGED dockerVars
    <3>1. /\ log' = log /\ now' = now /\ conn' = conn /\ since' = since /\ emitted' = emitted
          /\ settled' = settled /\ resume' = resume /\ counts' = counts
      BY <2>8, Zenon DEF dockerVars
    <3>2. Seen' = Seen /\ \A k : SeenBy(k)' = SeenBy(k)
      BY <3>1, Zenon DEF Seen, SeenBy, Whole
    <3>3. DockerTypes' /\ Stamped'
      BY <3>1, Zenon DEF DockerInv, DockerTypes, Stamped
    <3>4. Kept' /\ SkipIsCounted' /\ ResumeIsSafe'
      BY <3>1, <3>2, Zenon DEF DockerInv, Kept, InOrder, ReadInOrder, SkipIsCounted, ResumeIsSafe
    <3> QED
      BY <3>3, <3>4, Zenon DEF DockerInv
  <2> QED
    BY <2>1, <2>2, <2>3, <2>4, <2>5, <2>6, <2>7, <2>8, Zenon DEF DockerNext
<1>2. DockerInv => ContainerLosesNothing
  BY Zenon DEF DockerInv, ContainerLosesNothing
<1> QED
  BY <1>1, <1>2, InitDocker, PTL DEF DockerSpec

=============================================================================
