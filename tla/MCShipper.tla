----------------------------- MODULE MCShipper -----------------------------
(* Instances of Shipper: one source; two sources with label sets of their   *)
(* own; one with a source beside it that has no labels; two sources that    *)
(* share a label set and one without.                                       *)
EXTENDS Shipper

OneSource == [src \in {"s1"} |-> 1]
TwoStreams == "s1" :> 1 @@ "s2" :> 2
Unlabelled == "s1" :> 1 @@ "s2" :> 0
SharedStream == "s1" :> 1 @@ "s2" :> 1 @@ "s3" :> 0
=============================================================================
