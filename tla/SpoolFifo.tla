----------------------------- MODULE SpoolFifo -----------------------------
(***************************************************************************)
(* What the spool promises the shipper, without files: a FIFO of entries   *)
(* numbered in the order Append accepted them.  The entries waiting are    *)
(* always the interval head+1 .. last: Append extends it at the back and   *)
(* may evict from the front, Release takes the oldest, and a restart may   *)
(* bring back entries that had left, but none whose leaving is on record.  *)
(***************************************************************************)
EXTENDS Integers

VARIABLES
  head,   \* entries that have left: released or evicted
  last,   \* entries ever accepted
  safe    \* entries whose leaving is on record

Init == head = 0 /\ last = 0 /\ safe = 0

\* The new entry is never among the evicted ones.
Append == /\ last' = last + 1
          /\ head' \in head .. last
          /\ UNCHANGED safe

Release == /\ head < last
           /\ head' = head + 1
           /\ UNCHANGED <<last, safe>>

\* The cursor is persisted, at the end of Release or by Close.
Record == /\ safe' \in safe .. head
          /\ UNCHANGED <<head, last>>

\* A restart may also evict, but never the newest entry.
Restart == /\ head' \in safe .. last
           /\ head' <= head \/ head' < last
           /\ UNCHANGED <<last, safe>>

Next == Append \/ Release \/ Record \/ Restart

Spec == Init /\ [][Next]_<<head, last, safe>>
=============================================================================
