----------------------------- MODULE MCFollowup -----------------------------
(***************************************************************************)
(* An instance of Followup for TLC.  Who is on the stage is chosen once,   *)
(* so that the state space is the sum and not the product of the scenes.   *)
(***************************************************************************)
EXTENDS Followup, TLC

CONSTANTS p1, p2, j1, a1

VARIABLE scene  \* who takes part, and whether something may fail

Scenes == {{p1, p2}, {p1, a1}, {p1, "failures"}, {p1, j1}, {j1, a1, "failures"}}

Within ==
  /\ \A p \in Pushes \ scene : push'[p] = NotPushed
  /\ \A j \in AsyncJobs \ scene : run'[j] = Waits
  /\ (AuthorPublishes \/ edited' # edited) => a1 \in scene
  /\ {p1, p2} \subseteq scene => \A p \in Pushes : inputs'[p] \in {None, {1}}
  /\ faults' > 0 => "failures" \in scene

SceneInit == Init /\ scene \in Scenes

SceneSpec ==
  /\ SceneInit
  /\ [][Next /\ Within /\ UNCHANGED scene]_<<vars, scene>>
  /\ Fairness
=============================================================================
