-------------------------- MODULE QuestionHistory --------------------------
(***************************************************************************)
(* What the versions of a question promise: an append-only list of sealed  *)
(* versions, and at most one working copy in front of it that may change   *)
(* until it is sealed in its turn.                                         *)
(***************************************************************************)
EXTENDS Sequences

CONSTANTS Contents,      \* what a version may hold
          NoDraft

VARIABLES sealed,        \* the published versions, oldest first
          draft          \* the working copy or NoDraft

Init == sealed = <<>> /\ draft \in Contents

ChangeDraft == draft' \in Contents /\ UNCHANGED sealed

Seal == /\ draft # NoDraft
        /\ sealed' = Append(sealed, draft)
        /\ draft'  = NoDraft

Next == ChangeDraft \/ Seal

Spec == Init /\ [][Next]_<<sealed, draft>>
=============================================================================
