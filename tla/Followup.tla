------------------------------ MODULE Followup ------------------------------
(***************************************************************************)
(* Mid-exam follow-ups: a proctor pushes a new constraint to one question  *)
(* of a running session.  The exam service drafts a version with the       *)
(* constraint, has the factory attach test cases to it, publishes it,      *)
(* re-points the session and announces the change: five calls, to two      *)
(* services and its own database, without a common transaction.  Other     *)
(* proctors and the authors of the question work on the same draft, and    *)
(* the factory works on when the exam service has stopped to wait for it.  *)
(***************************************************************************)
EXTENDS Factory

CONSTANTS Authors   \* examiners who edit the question, each once

\* a push runs at most one factory job, which carries its name
Pushes == SyncJobs

ASSUME FollowupAssumption ==
  /\ None \notin Pushes \cup Authors
  /\ Authors \cap Pushes = {}

VARIABLES
  push,      \* progress of each push
  edited,    \* the authors that have made their edit
  pin,       \* session_questions.question_version_id of the question
  announced  \* the followup_pushed events of the session, in their order

followupVars == <<push, edited, pin, announced>>
vars == <<factoryVars, followupVars>>

-----------------------------------------------------------------------------
\* version: what the question service published for it; late: it gave up
\* waiting for the factory; alone: so far nothing else wrote the question's
\* text, published it or moved the session
NotPushed == [pc |-> "idle", version |-> 0, late |-> FALSE, alone |-> TRUE]

InProgress(p) == push[p].pc \notin {"idle", "done", "failed"}

\* push p goes on at pc with a version, having touched what others work with
Steps(p, pc, version, touches) ==
  push' = [q \in Pushes |->
    IF q = p THEN [push[p] EXCEPT !.pc = pc, !.version = version]
    ELSE IF touches /\ InProgress(q) THEN [push[q] EXCEPT !.alone = FALSE] ELSE push[q]]

Touched == push' = [p \in Pushes |-> IF InProgress(p) THEN [push[p] EXCEPT !.alone = FALSE]
                                     ELSE push[p]]

Init == /\ FactoryInit
        /\ push = [p \in Pushes |-> NotPushed]
        /\ edited = {} /\ pin = 1 /\ announced = <<>>

-----------------------------------------------------------------------------
(* push_followup *)

\* the assigned question is read; other pushes may be under way
BeginPush(p) ==
  /\ push[p].pc = "idle"
  /\ push' = [push EXCEPT ![p].pc = "draft",
                          ![p].alone = \A q \in Pushes : ~InProgress(q)]
  /\ UNCHANGED <<factoryVars, edited, pin, announced>>

\* create_followup_draft
DraftFollowup(p) ==
  /\ push[p].pc = "draft"
  /\ question' = WithText(question, p)
  /\ Steps(p, "factory", 0, TRUE)
  /\ UNCHANGED <<filled, jobVars, faults, edited, pin, announced>>

\* run_followup_factory: the ai service starts the job of a push that waits
CallFactory(p) ==
  /\ push[p].pc = "factory"
  /\ StartFactory(p)
  /\ UNCHANGED followupVars

\* faulty variant: the job is started, not waited for
FactoryAnswersAtOnce(p) ==
  /\ push[p].pc = "factory" /\ ~At(p, "idle")
  /\ Steps(p, "publish", 0, FALSE)
  /\ UNCHANGED <<factoryVars, edited, pin, announced>>

\* an answer, whatever it says: success, failure or no lineage
FactoryAnswers(p) ==
  /\ push[p].pc = "factory"
  /\ At(p, "over") \/ ~Lineage
  /\ Steps(p, "publish", 0, FALSE)
  /\ UNCHANGED <<factoryVars, edited, pin, announced>>

\* faulty variant: the client waits without a timeout
FactoryCallNeverEnds(p) ==
  /\ FALSE /\ UNCHANGED vars

\* the call is refused before a job starts; push_followup swallows that too
FactoryUnreachable(p) ==
  /\ push[p].pc = "factory" /\ At(p, "idle") /\ Fault
  /\ Steps(p, "publish", 0, FALSE)
  /\ UNCHANGED <<question, filled, jobVars, edited, pin, announced>>

\* the timeout of the client; the factory is not told
FactoryCallTimesOut(p) ==
  /\ push[p].pc = "factory" /\ ~At(p, "idle")
  /\ push' = [push EXCEPT ![p].pc = "publish", ![p].late = TRUE]
  /\ UNCHANGED <<factoryVars, edited, pin, announced>>

\* publish_version publishes what is current, if it is not published already
PublishFollowup(p) ==
  /\ push[p].pc = "publish"
  /\ IF Publishable(question)
     THEN question' = Published(question) /\ Steps(p, "repoint", Current(question), TRUE)
     ELSE UNCHANGED question /\ Steps(p, "failed", 0, FALSE)
  /\ UNCHANGED <<filled, jobVars, faults, edited, pin, announced>>

\* faulty variant: the session stays where it was
RepointForgotten(p) ==
  /\ push[p].pc = "repoint"
  /\ Steps(p, "announce", push[p].version, TRUE)
  /\ UNCHANGED <<factoryVars, edited, pin, announced>>

\* update_question_version, committed before the announcement
RepointSession(p) ==
  /\ push[p].pc = "repoint"
  /\ pin' = push[p].version
  /\ Steps(p, "announce", push[p].version, TRUE)
  /\ UNCHANGED <<factoryVars, edited, announced>>

\* session_events.emit
AnnounceFollowup(p) ==
  /\ push[p].pc = "announce"
  /\ announced' = Append(announced, p)
  /\ Steps(p, "done", push[p].version, TRUE)
  /\ UNCHANGED <<factoryVars, edited, pin>>

\* an error response, a timeout, a seq taken by another event, or a restart:
\* the steps before it stay, a call that raised may have been carried out
PushFails(p) ==
  /\ InProgress(p)
  /\ Fault
  /\ \/ UNCHANGED question
     \/ push[p].pc = "draft" /\ question' = WithText(question, p)
     \/ push[p].pc = "publish" /\ Publishable(question) /\ question' = Published(question)
  /\ Steps(p, "failed", push[p].version, question' # question)
  /\ UNCHANGED <<filled, jobVars, edited, pin, announced>>

-----------------------------------------------------------------------------
(* The authors of the question, through the examiner console. *)

AuthorEdits(a) ==
  /\ a \notin edited
  /\ edited' = edited \cup {a}
  /\ question' = WithText(question, a)
  /\ Touched
  /\ UNCHANGED <<filled, jobVars, faults, pin, announced>>

AuthorPublishes ==
  /\ Authors # {} /\ Publishable(question)
  /\ question' = Published(question)
  /\ Touched
  /\ UNCHANGED <<filled, jobVars, faults, edited, pin, announced>>

PushStep(p) ==
  \/ DraftFollowup(p) \/ CallFactory(p) \/ FactoryAnswers(p) \/ FactoryCallTimesOut(p)
  \/ PublishFollowup(p) \/ RepointSession(p) \/ AnnounceFollowup(p)

JobStep(j) == FactoryStep(j) /\ UNCHANGED followupVars

Next ==
  \/ \E p \in Pushes : BeginPush(p) \/ PushStep(p) \/ FactoryUnreachable(p) \/ PushFails(p)
  \/ \E j \in AsyncJobs : StartFactory(j) /\ UNCHANGED followupVars
  \/ \E j \in Jobs : JobStep(j) \/ (FactoryFails(j) /\ UNCHANGED followupVars)
  \/ AiStops /\ UNCHANGED followupVars
  \/ \E a \in Authors : AuthorEdits(a)
  \/ AuthorPublishes

Spec == Init /\ [][Next]_vars

(***************************************************************************)
(* The exam service runs what it can run and its timeouts pass; so do the  *)
(* tasks, the judge and the consumer behind an asynchronous job.  Nothing  *)
(* is assumed of a synchronous job: its request may hang at the model.     *)
(***************************************************************************)
Fairness == /\ \A p \in Pushes    : WF_vars(PushStep(p))
            /\ \A j \in AsyncJobs : WF_vars(JobStep(j))

FairSpec == Spec /\ Fairness

-----------------------------------------------------------------------------
(* Properties *)

TypeOK ==
  /\ question.versions \in Seq([text : Pushes \cup Authors \cup {None},
                                cases : SUBSET (Jobs \X Numbers \X Nat)])
  /\ question.published \in 1..Current(question)
  /\ status \in [Jobs -> {"none", "queued", "generating", "validating", "succeeded", "failed"}]
  /\ kept   \in [Jobs -> 0..NumCases]
  /\ result \in [Jobs -> [Tries -> Message]]
  /\ faults \in 0..MaxFaults
  /\ pin    \in 1..Current(question)
  /\ announced \in Seq(Pushes)

\* What a push announces is complete: the cases made for it are on the version
\* it announces, unless it gave up waiting (attaching one after the publication
\* would open another version, which no session uses), and so is its
\* constraint, unless somebody else worked on the question meanwhile.
AnnouncedVersionIsComplete ==
  \A p \in Pushes : push[p].pc \in {"repoint", "announce", "done"} =>
    LET announcedVersion == question.versions[push[p].version]
    IN  /\ ~push[p].late =>
             {row \in question.versions[Current(question)].cases : row[1] = p}
               \subseteq announcedVersion.cases
        /\ push[p].alone => announcedVersion.text = p

\* "grading binds to the new version": the session is on a version that can
\* never change again, and it is the one the candidate was told of last, if
\* that push overlapped with nobody and none is under way or has failed
\* between its last two steps.
AnnouncedIsGraded ==
  /\ pin <= question.published
  /\ \/ \E p \in Pushes : InProgress(p) \/ (push[p].pc = "failed" /\ push[p].version # 0)
     \/ IF announced = <<>> THEN pin = 1
        ELSE LET last == announced[Len(announced)]
             IN  push[last].alone => pin = push[last].version

\* A push ends, whatever the factory does: the client's timeout and the
\* swallowed exception keep the proctor from waiting for ever.
PushesEnd == \A p \in Pushes : push[p].pc = "draft" ~> push[p].pc \in {"done", "failed"}

\* Whoever waits for a push or polls a job sees it end.
NobodyWaitsForEver == PushesEnd /\ JobsReachAnEnd
=============================================================================
