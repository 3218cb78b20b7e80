--------------------------- MODULE OrderedDelivery ---------------------------
(* What ArtiGate promises the readers of the high side: each stream's        *)
(* repository is the result of applying the low side's bundles 1, 2, 3, ...  *)
(* in order, one at a time, skipping none and never going back.             *)
EXTENDS Integers

CONSTANTS Streams, MaxSeq

VARIABLE applied   \* per stream the last bundle the repository reflects

Init == applied = [s \in Streams |-> 0]

Apply(s) ==
  /\ applied[s] < MaxSeq
  /\ applied' = [applied EXCEPT ![s] = @ + 1]

Next == \E s \in Streams : Apply(s)

Spec == Init /\ [][Next]_applied
==============================================================================
