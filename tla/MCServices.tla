----------------------------- MODULE MCServices -----------------------------
(***************************************************************************)
(* Instances of the components that share nothing with each other.  The    *)
(* part that runs is chosen once, so that the state space is the sum of    *)
(* theirs and not the product.                                             *)
(***************************************************************************)
EXTENDS SessionStream, ExaminerAuth, Topics, Gateway, Blueprints, Difficulty,
  Judging, Drafting, ExamRoom, Scoring, SignUp, QuestionEditor, BlueprintPage

VARIABLE part

consoleVars == <<signUpVars, editorVars, mixVars>>
otherVars == <<streamVars, authVars, topicVars, gatewayVars, blueprintVars, difficultyVars,
               judgingVars, draftVars, roomVars, scoringVars>>

SceneInit ==
  /\ part \in {"stream", "auth", "topics", "gateway", "blueprints", "difficulty", "judging",
              "drafting", "room", "scoring", "signup", "editor", "mix"}
  /\ StreamInit /\ AuthInit /\ TopicsInit /\ GatewayInit
  /\ BlueprintsInit /\ DifficultyInit /\ JudgingInit /\ DraftingInit /\ RoomInit /\ ScoringInit
  /\ SignUpInit /\ EditorInit /\ PageInit

SceneNext ==
  /\ UNCHANGED part
  /\ \/ /\ part = "stream" /\ StreamNext
        /\ UNCHANGED <<authVars, topicVars, gatewayVars, blueprintVars,
                      difficultyVars, judgingVars, draftVars, roomVars, scoringVars,
                      consoleVars>>
     \/ /\ part = "auth" /\ AuthNext
        /\ UNCHANGED <<streamVars, topicVars, gatewayVars, blueprintVars,
                      difficultyVars, judgingVars, draftVars, roomVars, scoringVars,
                      consoleVars>>
     \/ /\ part = "topics" /\ TopicsNext
        /\ UNCHANGED <<streamVars, authVars, gatewayVars, blueprintVars,
                      difficultyVars, judgingVars, draftVars, roomVars, scoringVars,
                      consoleVars>>
     \/ /\ part = "gateway" /\ GatewayNext
        /\ UNCHANGED <<streamVars, authVars, topicVars, blueprintVars,
                      difficultyVars, judgingVars, draftVars, roomVars, scoringVars,
                      consoleVars>>
     \/ /\ part = "blueprints" /\ BlueprintsNext
        /\ UNCHANGED <<streamVars, authVars, topicVars, gatewayVars,
                      difficultyVars, judgingVars, draftVars, roomVars, scoringVars,
                      consoleVars>>
     \/ /\ part = "difficulty" /\ DifficultyNext
        /\ UNCHANGED <<streamVars, authVars, topicVars, gatewayVars,
                      blueprintVars, judgingVars, draftVars, roomVars, scoringVars,
                      consoleVars>>
     \/ /\ part = "judging" /\ JudgingNext
        /\ UNCHANGED <<streamVars, authVars, topicVars, gatewayVars,
                      blueprintVars, difficultyVars, draftVars, roomVars, scoringVars,
                      consoleVars>>
     \/ /\ part = "drafting" /\ DraftingNext
        /\ UNCHANGED <<streamVars, authVars, topicVars, gatewayVars,
                      blueprintVars, difficultyVars, judgingVars, roomVars, scoringVars,
                      consoleVars>>
     \/ /\ part = "room" /\ RoomNext
        /\ UNCHANGED <<streamVars, authVars, topicVars, gatewayVars,
                      blueprintVars, difficultyVars, judgingVars, draftVars, scoringVars,
                      consoleVars>>
     \/ /\ part = "scoring" /\ ScoringNext
        /\ UNCHANGED <<streamVars, authVars, topicVars, gatewayVars, blueprintVars,
                      difficultyVars, judgingVars, draftVars, roomVars, consoleVars>>
     \/ /\ part = "signup" /\ SignUpNext /\ UNCHANGED <<otherVars, editorVars, mixVars>>
     \/ /\ part = "editor" /\ EditorNext /\ UNCHANGED <<otherVars, signUpVars, mixVars>>
     \/ /\ part = "mix" /\ PageNext /\ UNCHANGED <<otherVars, signUpVars, editorVars>>

SceneSpec == SceneInit /\ [][SceneNext]_<<part, otherVars, consoleVars>>

MCPaths == {<<"internal", "sessions">>, <<"candidate", "auth">>, <<"candidate", "session">>,
            <<"questions", "list">>, <<"questions", "generate">>}
MCTopicsOf == 1 :> {"graphs"} @@ 2 :> {"graphs", "trees"} @@ 3 :> {"trees"}
MCEntries == {[topic |-> "graphs", weight |-> 50, count |-> 1],
              [topic |-> "trees", weight |-> 50, count |-> 1],
              [topic |-> "graphs", weight |-> 100, count |-> 2]}
MCValues == {-1, 1}
MCExamples == {<<<<>>>>, <<<<1>>>>, <<<<-1>>>>, <<<<9, 9>>>>, <<<<1, 1>>>>, <<<<1>>, <<1>>>>}
MCWeights == {0, 50, 100}
MCOutputs == {<<>>, <<"a">>, <<"a", "_">>, <<"a", "_", "a">>, <<"b", "a", "b", "a">>}

TypeOK ==
  /\ StreamTypeOK /\ AuthTypeOK /\ TopicsTypeOK /\ GatewayTypeOK
  /\ BlueprintsTypeOK /\ DifficultyTypeOK /\ JudgingTypeOK /\ DraftingTypeOK /\ RoomTypeOK
  /\ ScoringTypeOK /\ SignUpTypeOK /\ EditorTypeOK /\ PageTypeOK

(***************************************************************************)
(* What is counted by calls that may overlap stays exact: the requests an  *)
(* identity gets through the edge, the versions of a blueprint, and the    *)
(* difficulty that two services keep of one session.                       *)
(***************************************************************************)
CountersAreExact == EdgeHolds /\ VersionsAreExact /\ BandsAgree

(***************************************************************************)
(* What the test-case factory keeps: its inputs are made from a draft that *)
(* fits the generator, and a submission of the agreed output is accepted.  *)
(***************************************************************************)
FactoryCasesAreSound == InputsFitTheSpec /\ KeptCasesAccept

(***************************************************************************)
(* The examiner's pages tell the truth: sign-up asks for a code that can   *)
(* be accepted, the question form keeps what was typed and shows what is   *)
(* saved, and the blueprint form's rules for a mix are the server's.       *)
(***************************************************************************)
ConsoleTellsTheTruth == SignUpHolds /\ EditorHolds /\ PageAgreesWithServer
=============================================================================
