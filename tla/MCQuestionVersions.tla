------------------------ MODULE MCQuestionVersions ------------------------
(* Instances of QuestionVersions for TLC. *)
EXTENDS QuestionVersions, TLC

CONSTANTS r1, r2, r3, r4, r5

Symmetric == Permutations(Requests)
=============================================================================
