-------------------------- MODULE CollectorProofs --------------------------
(***************************************************************************)
(* Proofs about module Collector: ProcessHonest, whichever stage of the    *)
(* start, listener or step of the shutdown fails and whenever the signal   *)
(* comes.                                                                  *)
(***************************************************************************)
EXTENDS Collector, TLAPS

USE SMTT(30)

-----------------------------------------------------------------------------
(* The collector process.                                                  *)

\* How far the startup and the shutdown have come, and what that means for the
\* goroutines of the group, the checks and the ring.
Progression ==
  /\ signal \in BOOLEAN /\ advertised \in BOOLEAN
  /\ groupErr \in {"none", "join", "listener", "step"}
  /\ broken \subseteq {"step", "listener"}
  /\ stage <= 9 => group = {} /\ groupErr = "none" /\ broken = {} /\ step = 0 /\ ~advertised
  /\ step = 0 /\ stage >= 3 => "database" \in checks
  /\ step = 0 /\ stage >= 6 => "queue" \in checks
  /\ advertised => step < 2
  /\ step > 0 => GroupCanceled

\* Who has returned with which error, and what the process ends with.
Accounts ==
  /\ groupErr \in {"listener", "step"} => broken # {}
  /\ "listener" \in broken => groupErr # "none"
  /\ stage = 10 /\ "shutdown" \notin group =>
       step = 9 /\ GroupCanceled /\ ("step" \in broken => groupErr # "none")
  /\ exit # "running" /\ stage = 10 =>
       group = {} /\ (exit = "zero" <=> groupErr = "none")

CollectorInv == CollectorTypeOK /\ Progression /\ Accounts

LEMMA Lengths == Len(Stages) = 9 /\ Len(Steps) = 9
  BY DEF Stages, Steps

\* The order of the startup and of the shutdown.
LEMMA Sequence ==
  /\ \A i \in 1 .. 9 : /\ Stages[i] = "pool" <=> i = 3
                       /\ Stages[i] = "payload" <=> i = 6
                       /\ Stages[i] = "consumer" <=> i = 9
  /\ \A i \in 1 .. 9 : /\ Steps[i] = "deregister" <=> i = 1
                       /\ Steps[i] = "leave" <=> i = 2
                       /\ Steps[i] \in {"peer", "ingest", "consumer", "api"} => i >= 3
  BY DEF Stages, Steps

LEMMA InitCollector == CollectorInit => CollectorInv
<1> SUFFICES ASSUME CollectorInit PROVE CollectorInv
  OBVIOUS
<1>1. CollectorTypeOK
  BY Lengths DEF CollectorInit, CollectorTypeOK
<1>2. Progression
  <2>1. signal \in BOOLEAN /\ advertised \in BOOLEAN /\ ~advertised
    BY Zenon DEF CollectorInit
  <2> QED
    BY <2>1 DEF CollectorInit, Progression
<1>3. Accounts
  BY DEF CollectorInit, Accounts
<1> QED
  BY <1>1, <1>2, <1>3 DEF CollectorInv

\* What the invariant says of readiness, of the ring and of the exit status.
LEMMA InvHonest == CollectorInv => ProcessHonest
<1> SUFFICES ASSUME CollectorInv PROVE ProcessHonest
  OBVIOUS
<1>1. ReadyIsInformed
  <2> SUFFICES ASSUME "http" \in group, step = 0, NEW down \in SUBSET {"database", "queue"}
               PROVE  Ready(down) <=> down = {}
    BY Zenon DEF ReadyIsInformed
  <2>1. stage = 10
    BY Lengths DEF CollectorInv, CollectorTypeOK, Progression
  <2>2. "database" \in checks /\ "queue" \in checks
    BY <2>1 DEF CollectorInv, Progression
  <2> QED
    BY <2>2, Zenon DEF Ready
<1>2. AdvertisedAnswers
  <2> SUFFICES ASSUME advertised
               PROVE  Reached("consumer") /\ ~\E s \in {"peer", "ingest", "consumer", "api"} : Done(s)
    BY Zenon DEF AdvertisedAnswers
  <2>1. stage = 10 /\ step \in 0 .. 1
    BY Lengths DEF CollectorInv, CollectorTypeOK, Progression
  <2>2. Reached("consumer")
    BY <2>1, Lengths, Sequence DEF Reached
  <2>3. ASSUME NEW s \in {"peer", "ingest", "consumer", "api"}, Done(s) PROVE FALSE
    BY <2>1, <2>3, Lengths, Sequence DEF Done
  <2> QED
    BY <2>2, <2>3
<1>3. StatusIsHonest
  BY Lengths DEF StatusIsHonest, CollectorInv, CollectorTypeOK, Progression, Accounts, GroupCanceled
<1> QED
  BY <1>1, <1>2, <1>3 DEF ProcessHonest, CollectorInv

\* A goroutine of the group that returns, with what it may return.
Account(g, err) ==
  /\ err \in {"none", "join", "listener", "step"}
  /\ broken' = IF err = "listener" THEN broken \cup {"listener"} ELSE broken
  /\ err = "step" => "step" \in broken
  /\ g = "shutdown" => step = 9 /\ ("step" \in broken => err = "step")
  /\ advertised' \in BOOLEAN /\ (advertised' => advertised \/ step < 2)
  /\ stage' = stage /\ signal' = signal /\ checks' = checks /\ step' = step /\ exit' = exit

LEMMA ReturnsKeeps ==
  ASSUME CollectorInv, NEW g, NEW err, Returns(g, err), Account(g, err)
  PROVE  CollectorInv'
<1> USE DEF CollectorInv
<1>1. g \in group /\ group' = group \ {g} /\ groupErr' = IF groupErr = "none" THEN err ELSE groupErr
  BY DEF Returns
<1>2. stage = 10 /\ exit = "running"
  BY <1>1, Lengths DEF CollectorTypeOK, Progression, Accounts
<1>3. CollectorTypeOK'
  BY <1>1 DEF CollectorTypeOK, Account
<1>4. Progression'
  BY <1>1, <1>2 DEF Progression, GroupCanceled, Account
<1>5. Accounts'
  BY <1>1, <1>2 DEF Progression, Accounts, GroupCanceled, Account
<1> QED
  BY <1>3, <1>4, <1>5

LEMMA CollectorStep == CollectorInv /\ [CollectorNext]_collectorVars => CollectorInv'
<1> SUFFICES ASSUME CollectorInv, [CollectorNext]_collectorVars PROVE CollectorInv'
  OBVIOUS
<1>1. CASE Start
  <2>1. stage' \in 1 .. 9 /\ stage' = stage + 1
    BY <1>1, Lengths DEF Start, CollectorInv, CollectorTypeOK
  <2>2. checks \subseteq checks' /\ checks' \subseteq {"database", "queue"}
    BY <1>1 DEF Start, CheckNames, CollectorInv, CollectorTypeOK
  <2>3. (stage' = 3 => "database" \in checks') /\ (stage' = 6 => "queue" \in checks')
    BY <1>1, <2>1, Sequence DEF Start, CheckNames
  <2> QED
    BY <1>1, <2>1, <2>2, <2>3, Lengths
    DEF Start, Starting, StillRuns, CollectorInv, CollectorTypeOK, Progression, Accounts, GroupCanceled
<1>2. CASE StartFails
  BY <1>2, Lengths
  DEF StartFails, CollectorInv, CollectorTypeOK, Progression, Accounts, GroupCanceled
<1>3. CASE Go
  BY <1>3, Lengths
  DEF Go, Starting, StillRuns, CollectorInv, CollectorTypeOK, Progression, Accounts, GroupCanceled, Listeners
<1>4. CASE Signal
  BY <1>4 DEF Signal, StillRuns, CollectorInv, CollectorTypeOK, Progression, Accounts, GroupCanceled
<1>5. CASE JoinReturns
  <2>1. advertised' \in BOOLEAN /\ (advertised' => step < 2)
    <3>1. step >= 2 /\ step \in 0 .. 9 => Done("leave")
      BY Lengths, Sequence DEF Done
    <3>2. step \in 0 .. 9
      BY Lengths DEF CollectorInv, CollectorTypeOK
    <3>3. advertised' = ~Done("leave")
      BY <1>5 DEF JoinReturns
    <3>4. step < 2 \/ Done("leave")
      BY <3>1, <3>2
    <3> QED
      BY <3>3, <3>4, Zenon DEF Done
  <2>2. Account("join", "none")
    BY <1>5, <2>1, Zenon DEF JoinReturns, Account
  <2> QED
    BY <1>5, <2>2, ReturnsKeeps, Zenon DEF JoinReturns
<1>6. CASE JoinInterrupted
  <2>1. Account("join", "join")
    BY <1>6, Zenon DEF JoinInterrupted, Account, CollectorInv, Progression
  <2> QED
    BY <1>6, <2>1, ReturnsKeeps, Zenon DEF JoinInterrupted
<1>7. ASSUME NEW l \in Listeners, ListenerFails(l) PROVE CollectorInv'
  <2>1. Account(l, "listener")
    BY <1>7, Zenon DEF ListenerFails, Listeners, Account, CollectorInv, Progression
  <2> QED
    BY <1>7, <2>1, ReturnsKeeps, Zenon DEF ListenerFails
<1>8. ASSUME NEW l \in Listeners, ListenerStops(l) PROVE CollectorInv'
  <2>1. Account(l, "none")
    BY <1>8, Zenon DEF ListenerStops, Listeners, Account, CollectorInv, Progression
  <2> QED
    BY <1>8, <2>1, ReturnsKeeps, Zenon DEF ListenerStops
<1>9. CASE ShutdownReturns
  <2>1. PICK err : err = IF "step" \in broken THEN "step" ELSE "none"
    BY Zenon
  <2>2. Returns("shutdown", err)
    BY <1>9, <2>1, Zenon DEF ShutdownReturns
  <2>3. Account("shutdown", err)
    BY <1>9, <2>1, Lengths, Zenon DEF ShutdownReturns, Account, CollectorInv, Progression
  <2> QED
    BY <2>2, <2>3, ReturnsKeeps, Zenon
<1>10. ASSUME NEW ok \in BOOLEAN, Step(ok) PROVE CollectorInv'
  <2>1. PICK s : s = Steps[step + 1]
    BY Zenon
  <2>2. /\ "shutdown" \in group /\ GroupCanceled /\ step < 9 /\ step' = step + 1
        /\ checks' = (IF s = "deregister" THEN checks \ {"database", "queue"} ELSE checks)
        /\ advertised' = (advertised /\ s # "leave")
        /\ broken' = (IF ok THEN broken ELSE broken \cup {"step"})
        /\ stage' = stage /\ signal' = signal /\ group' = group /\ groupErr' = groupErr /\ exit' = exit
    BY <1>10, <2>1, Lengths, Zenon DEF Step
  <2>3. step \in 0 .. 8 /\ stage = 10 /\ exit = "running"
    BY <2>2, Lengths DEF CollectorInv, CollectorTypeOK, Progression, Accounts
  <2>4. advertised' \in BOOLEAN /\ (advertised' => step' < 2)
    <3>1. step + 1 \in 1 .. 9 /\ (step = 1 => s = "leave")
      BY <2>1, <2>3, Sequence
    <3>2. advertised => step = 0 \/ s = "leave"
      BY <2>3, <3>1 DEF CollectorInv, Progression
    <3>3. step = 0 => step' < 2
      BY <2>2
    <3> QED
      BY <2>2, <3>2, <3>3, Zenon
  <2>5. CollectorTypeOK'
    BY <2>2, <2>3, Lengths DEF CollectorInv, CollectorTypeOK
  <2>6. step' # 0 /\ step' \in Nat
    BY <2>2, <2>3
  <2>7. GroupCanceled'
    BY <2>2, Zenon DEF GroupCanceled
  <2>8. broken' \subseteq {"step", "listener"} /\ broken \subseteq broken' /\ ("listener" \in broken' => "listener" \in broken)
    BY <2>2, Zenon DEF CollectorInv, Progression
  <2>9. ~(stage' <= 9)
    BY <2>2, <2>3
  <2>10. Progression'
    BY <2>2, <2>4, <2>6, <2>7, <2>8, <2>9, Zenon DEF CollectorInv, Progression
  <2>11. Accounts'
    <3>1. broken # {} => broken' # {}
      BY <2>8, Zenon
    <3> QED
      BY <2>2, <2>3, <2>8, <3>1, Zenon DEF CollectorInv, Accounts
  <2> QED
    BY <2>5, <2>10, <2>11 DEF CollectorInv
<1>11. CASE Exit
  BY <1>11, Lengths DEF Exit, Status, CollectorInv, CollectorTypeOK, Progression, Accounts, GroupCanceled
<1>12. CASE UNCHANGED collectorVars
  BY <1>12 DEF collectorVars, CollectorInv, CollectorTypeOK, Progression, Accounts, GroupCanceled
<1> QED
  BY <1>1, <1>2, <1>3, <1>4, <1>5, <1>6, <1>7, <1>8, <1>9, <1>10, <1>11, <1>12, Zenon
  DEF CollectorNext, Proceeds

\* run and the shutdown (cmd/collector/main.go 134-419): readiness is informed
\* from the first request to the beginning of the shutdown, peers believe this
\* node ready only while it answers them, and the exit status is the truth about
\* what failed, whichever stage, listener or step fails and whenever the signal
\* comes.
THEOREM CollectorHonest == CollectorSpec => []ProcessHonest
<1> QED
  BY InitCollector, CollectorStep, InvHonest, PTL DEF CollectorSpec

=============================================================================
