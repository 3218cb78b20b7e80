---------------------------- MODULE MCHighImport ----------------------------
(* Instances of HighImport for TLC.                                         *)
EXTENDS HighImport

(* Every bundle of every stream is transmitted.                             *)
SentAll == [s \in Streams |-> Seqs]

(* Stream "go" has a gap that nothing fills; the others are up to bundle 1. *)
SentGap == [s \in Streams |-> IF s = "go" THEN {2} ELSE {1}]

(* All but the last bundle of "go" arrive.                                   *)
SentFirst == [s \in Streams |-> IF s = "go" THEN Seqs \ {MaxSeq} ELSE {}]

(* Bundle 2 of "go" waits in quarantine for a bundle 1 that never comes.     *)
Waiting == {<<"go", 2>>}
SentOthers == [s \in Streams |-> IF s = "go" THEN {} ELSE Seqs]

(* A carrier left an unsupported and a far-ahead bundle in quarantine.      *)
OutOfReach == {<<"go", MaxSeq>>, <<"tape", 1>>}
=============================================================================
