---------------------------- MODULE MCLowExport ----------------------------
(* Instances of Transfer, and so of LowExport, for TLC.                     *)
EXTENDS Transfer, TLC

CONSTANTS go, npm, tape   \* two new streams, one with a bundle of an old release

OneStream == {go}
ThreeStreams == {go, npm, tape}

(* Nothing tells the new streams apart.                                     *)
NewStreams == Permutations({go, npm})

(* No retention has ever run.                                               *)
EmptyLedger == [s \in Streams |-> 0]

(* Retention pruned bundle 1; bundle 2 is retained, 3 comes next.           *)
PrunedOne == [s \in Streams |-> 1]
NextThree == [s \in Streams |-> 3]
============================================================================
