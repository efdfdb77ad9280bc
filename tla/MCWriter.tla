------------------------------ MODULE MCWriter ------------------------------
(* Instances of Writer: messages m1, with two records, and m2 belong to two *)
(* streams; m3 does not decode.                                             *)
EXTENDS Writer, TLC

CONSTANTS w1, w2

TwoStreams == {"m1", "m2"}
WithPoison == {"m1", "m3"}
TheStreams == "m1" :> "s1" @@ "m2" :> "s2" @@ "m3" :> "s2"
TheRecords == "m1" :> {"r1", "r2"} @@ "m2" :> {"r3"} @@ "m3" :> {}
WorkerSymmetry == Permutations(Workers)
=============================================================================
