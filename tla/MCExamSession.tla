--------------------------- MODULE MCExamSession ---------------------------
(* Instances of ExamSession for TLC. *)
EXTENDS ExamSession

CONSTANTS r1, r2
=============================================================================
