----------------------------- MODULE Evaluation -----------------------------
(***************************************************************************)
(* What follows the end of a session: the evaluation of each assigned      *)
(* question and the hiring report.  Two consumer loops of the ai service,  *)
(* each on a queue of its own, and three rows: the evaluations and the     *)
(* report in the ai database, and the copy of the report in the session    *)
(* row of the exam service, which examiners read.  The judge may still be  *)
(* busy with the last submissions when the session ends.  The queues have  *)
(* no redrive policy: MaxReceives bounds the deliveries that are explored. *)
(***************************************************************************)
EXTENDS Sqs, FiniteSets

CONSTANTS
  Ordinals,       \* the assigned questions
  Notices,        \* session-complete messages the exam service sent (one or more)
  Announcements,  \* bound: evaluation-complete messages
  Assessments,    \* what the model may say: [correct, severity]
  Narratives,     \* and what it may write into a report
  None,           \* absent value
  MaxFaults,      \* bound: failures
  MaxLate         \* bound: attach requests the ai service times out on

ASSUME EvaluationAssumption ==
  /\ IsFiniteSet(Ordinals) /\ Ordinals # {}
  /\ Announcements \subseteq Nat
  /\ MaxFaults \in Nat /\ MaxLate \in Nat /\ None \notin Nat

VARIABLES
  verdict,    \* last submit of each question: "unsubmitted", "pending", "AC" or "WA"
  notice,     \* the session-complete queue
  done,       \* the evaluation-complete queue
  evaluator,  \* progress of run_session_evaluation_consumer
  reporter,   \* progress of run_hiring_report_consumer
  rows,       \* partial_score in session_evaluations of the ai service, None before
  report,     \* its hiring_reports row
  posts,      \* attach requests the exam service has not finished
  cached,     \* the report columns of the exam_sessions row
  told,       \* the report the reviewers were mailed about last
  faults,
  late        \* attach requests the ai service no longer waits for

aiVars   == <<evaluator, reporter, rows, report>>
examVars == <<posts, cached, told>>
vars     == <<verdict, notice, done, aiVars, examVars, faults, late>>

-----------------------------------------------------------------------------
\* faulty variant: in percent
ScoreInPercent(v, a) == IF v = "AC" THEN 100 ELSE 10

\* partial_credit.score, in tenths
ScoreOf(v, a) ==
  IF v = "unsubmitted" THEN 0
  ELSE IF v = "AC" THEN 10
  ELSE IF a.correct /\ a.severity = "minor" THEN 7
  ELSE IF a.correct /\ a.severity = "major" THEN 4
  ELSE 1

Evidence   == [verdict : {"unsubmitted", "pending", "AC", "WA"}, score : 0..10]
Report     == [narrative : Narratives, evidence : [Ordinals -> Evidence]]

Polls == [pc |-> "poll", msg |-> None, receipt |-> 0, data |-> None]

Init ==
  /\ verdict \in [Ordinals -> {"unsubmitted", "pending", "AC"}]
  /\ notice \in {n \in [Notices -> {Unsent, Sent}] : \E m \in Notices : n[m] = Sent}
  /\ done = [k \in Announcements |-> Unsent]
  /\ evaluator = Polls /\ reporter = Polls
  /\ rows = [o \in Ordinals |-> None] /\ report = None
  /\ posts = {} /\ cached = None /\ told = None
  /\ faults = 0 /\ late = 0

Fault == faults < MaxFaults /\ faults' = faults + 1

\* the judge's verdict on a pending submission arrives
Graded(o) ==
  /\ verdict[o] = "pending"
  /\ \E v \in {"AC", "WA"} : verdict' = [verdict EXCEPT ![o] = v]
  /\ UNCHANGED <<notice, done, aiVars, examVars, faults, late>>

-----------------------------------------------------------------------------
(* process_session_complete. *)

ReceiveNotice(m) ==
  /\ evaluator.pc = "poll" /\ CanReceive(notice[m])
  /\ notice' = [notice EXCEPT ![m] = Received(@)]
  /\ evaluator' = [pc |-> "list", msg |-> m, receipt |-> notice[m].receives + 1, data |-> None]
  /\ UNCHANGED <<verdict, done, reporter, rows, report, examVars, faults, late>>

\* list_session_questions of the exam service: every assigned question, with
\* the summary its last submit has now
SessionQuestions == verdict

ListSubmissions ==
  /\ evaluator.pc = "list"
  /\ evaluator' = [evaluator EXCEPT !.pc = "assess", !.data = SessionQuestions]
  /\ UNCHANGED <<verdict, notice, done, reporter, rows, report, examVars, faults, late>>

\* ON CONFLICT DO NOTHING on (session, ordinal)
Upsert(o, e) == IF rows[o] = None THEN e ELSE rows[o]

\* one assessment by the model per question
Assessed == [Ordinals -> Assessments]

\* faulty variant: a question nobody submitted to gets no row
EvaluateSubmitted ==
  /\ evaluator.pc = "assess"
  /\ \E a \in Assessed :
        LET seen == evaluator.data
        IN  rows' = [o \in Ordinals |-> IF seen[o] = "unsubmitted" THEN rows[o] ELSE
              Upsert(o, ScoreOf(seen[o], a[o]))]
  /\ evaluator' = [evaluator EXCEPT !.pc = "count", !.data = None]
  /\ UNCHANGED <<verdict, notice, done, reporter, report, examVars, faults, late>>

\* the model assesses what was submitted, whatever its verdict is by now; all
\* questions are written in one transaction
EvaluateQuestions ==
  /\ evaluator.pc = "assess"
  /\ \E a \in Assessed :
        LET seen == evaluator.data
        IN  rows' = [o \in Ordinals |->
              Upsert(o, ScoreOf(seen[o], a[o]))]
  /\ evaluator' = [evaluator EXCEPT !.pc = "count", !.data = None]
  /\ UNCHANGED <<verdict, notice, done, reporter, report, examVars, faults, late>>

\* the next evaluation-complete message
Announced == LET free == {k \in Announcements : done[k] = Unsent}
             IN  [done EXCEPT ![CHOOSE k \in free : \A i \in free : k <= i] = Sent]

AnnounceEvaluation ==
  /\ evaluator.pc = "count"
  /\ done' = IF \A o \in Ordinals : rows[o] # None THEN Announced ELSE done
  /\ evaluator' = [evaluator EXCEPT !.pc = "ack"]
  /\ UNCHANGED <<verdict, notice, reporter, rows, report, examVars, faults, late>>

DeleteNotice ==
  LET m == evaluator.msg
  IN  /\ evaluator.pc = "ack"
      /\ \E n \in AfterDelete(notice[m], evaluator.receipt) : notice' = [notice EXCEPT ![m] = n]
      /\ evaluator' = Polls
      /\ UNCHANGED <<verdict, done, reporter, rows, report, examVars, faults, late>>

-----------------------------------------------------------------------------
(* process_evaluation_complete. *)

ReceiveDone(k) ==
  /\ reporter.pc = "poll" /\ CanReceive(done[k])
  /\ done' = [done EXCEPT ![k] = Received(@)]
  /\ reporter' = [pc |-> "gather", msg |-> k, receipt |-> done[k].receives + 1, data |-> None]
  /\ UNCHANGED <<verdict, notice, evaluator, rows, report, examVars, faults, late>>

\* scores come from the evaluation, verdicts from the exam service of now
GatherEvidence ==
  /\ reporter.pc = "gather"
  /\ reporter' = [reporter EXCEPT !.pc = "write",
       !.data = [o \in Ordinals |-> [verdict |-> SessionQuestions[o],
                                     score   |-> IF rows[o] = None THEN 0 ELSE rows[o]]]]
  /\ UNCHANGED <<verdict, notice, done, evaluator, rows, report, examVars, faults, late>>

\* faulty variant: ON CONFLICT DO NOTHING for the report as well
UpsertReportOnce(r) == IF report = None THEN r ELSE report

\* ON CONFLICT DO UPDATE on the session
UpsertReport(r) == r

\* what the model may make of the evidence: a new narrative each time
Synthesized(data) == [narrative : Narratives, evidence : {data}]

WriteReport ==
  /\ reporter.pc = "write"
  /\ \E r \in Synthesized(reporter.data) :
        /\ report' = UpsertReport(r)
        /\ reporter' = [reporter EXCEPT !.pc = "attach", !.data = r]
  /\ UNCHANGED <<verdict, notice, done, evaluator, rows, examVars, faults, late>>

\* the request carries its place in the order of all attach requests
PostReport ==
  /\ reporter.pc = "attach"
  /\ posts' = posts \cup {[report |-> reporter.data, step |-> "store", waited |-> TRUE]}
  /\ reporter' = [reporter EXCEPT !.pc = "wait"]
  /\ UNCHANGED <<verdict, notice, done, evaluator, rows, report, cached, told, faults, late>>

\* attach_hiring_report stores and commits, then mails every reviewer
StoreReport(p) ==
  /\ p.step = "store"
  /\ cached' = p.report
  /\ posts' = (posts \ {p}) \cup {[p EXCEPT !.step = "mail"]}
  /\ UNCHANGED <<verdict, notice, done, aiVars, told, faults, late>>

MailReviewers(p) ==
  /\ p.step = "mail"
  /\ told' = p.report
  /\ posts' = posts \ {p}
  /\ reporter' = IF p.waited THEN [reporter EXCEPT !.pc = "ack", !.data = None] ELSE reporter
  /\ UNCHANGED <<verdict, notice, done, evaluator, rows, report, cached, faults, late>>

\* the request fails in the exam service, before or after its commit
AttachFails(p) ==
  /\ Fault
  /\ posts' = posts \ {p}
  /\ reporter' = IF p.waited THEN Polls ELSE reporter
  /\ UNCHANGED <<verdict, notice, done, evaluator, rows, report, cached, told, late>>

\* the ai service stops waiting; the exam service does not know
AttachTimesOut(p) ==
  /\ late < MaxLate /\ late' = late + 1
  /\ p.waited
  /\ posts' = (posts \ {p}) \cup {[p EXCEPT !.waited = FALSE]}
  /\ reporter' = Polls
  /\ UNCHANGED <<verdict, notice, done, evaluator, rows, report, cached, told, faults>>

DeleteDone ==
  LET k == reporter.msg
  IN  /\ reporter.pc = "ack"
      /\ \E n \in AfterDelete(done[k], reporter.receipt) : done' = [done EXCEPT ![k] = n]
      /\ reporter' = Polls
      /\ UNCHANGED <<verdict, notice, evaluator, rows, report, examVars, faults, late>>

-----------------------------------------------------------------------------
(* Failures of the ai service. *)

\* an exception inside the try: the message stays
EvaluatorFails ==
  /\ evaluator.pc \in {"list", "assess", "count"} /\ Fault
  /\ evaluator' = Polls
  /\ UNCHANGED <<verdict, notice, done, reporter, rows, report, examVars, late>>

ReporterFails ==
  /\ reporter.pc \in {"gather", "write", "attach"} /\ Fault
  /\ reporter' = Polls
  /\ UNCHANGED <<verdict, notice, done, evaluator, rows, report, examVars, late>>

\* receive or delete raise outside the try: the loop is over
LoopEnds ==
  /\ Fault
  /\ \/ evaluator.pc \in {"poll", "ack"} /\ evaluator' = [Polls EXCEPT !.pc = "ended"]
                                         /\ UNCHANGED reporter
     \/ reporter.pc \in {"poll", "ack"}  /\ reporter' = [Polls EXCEPT !.pc = "ended"]
                                         /\ UNCHANGED evaluator
  /\ UNCHANGED <<verdict, notice, done, rows, report, examVars, late>>

\* a restart of the ai service starts both loops afresh
AiRestarts ==
  /\ Fault
  /\ evaluator' = Polls /\ reporter' = Polls
  /\ posts' = {[p EXCEPT !.waited = FALSE] : p \in posts}
  /\ late' = late + Cardinality({p \in posts : p.waited})
  /\ UNCHANGED <<verdict, notice, done, rows, report, cached, told>>

\* the visibility timeout, also while the loop is busy with the message
Returns ==
  /\ \/ \E m \in Notices : /\ notice[m].state = "inflight"
                           /\ notice' = [notice EXCEPT ![m] = TimedOut(@)]
                           /\ UNCHANGED done
     \/ \E k \in Announcements : /\ done[k].state = "inflight"
                                 /\ done' = [done EXCEPT ![k] = TimedOut(@)]
                                 /\ UNCHANGED notice
  /\ UNCHANGED <<verdict, aiVars, examVars, faults, late>>

EvaluatorStep == \/ \E m \in Notices : ReceiveNotice(m)
                 \/ ListSubmissions \/ EvaluateQuestions \/ AnnounceEvaluation \/ DeleteNotice
ReporterStep  == \/ \E k \in Announcements : ReceiveDone(k)
                 \/ GatherEvidence \/ WriteReport \/ PostReport \/ DeleteDone
ExamStep      == \E p \in posts : StoreReport(p) \/ MailReviewers(p)

Next ==
  \/ \E o \in Ordinals : Graded(o)
  \/ EvaluatorStep \/ ReporterStep \/ ExamStep \/ Returns
  \/ \E p \in posts : AttachFails(p) \/ AttachTimesOut(p)
  \/ EvaluatorFails \/ ReporterFails \/ LoopEnds \/ AiRestarts

Spec == Init /\ [][Next]_vars

\* the loops run, the exam service answers, a message nobody deletes returns
Fairness == /\ WF_vars(EvaluatorStep) /\ WF_vars(ReporterStep)
            /\ WF_vars(ExamStep) /\ WF_vars(Returns)

FairSpec == Spec /\ Fairness

-----------------------------------------------------------------------------
(* Properties *)

TypeOK ==
  /\ notice \in [Notices -> Message] /\ done \in [Announcements -> Message]
  /\ rows \in [Ordinals -> 0..10 \cup {None}]
  /\ report \in Report \cup {None} /\ cached \in Report \cup {None} /\ told \in Report \cup {None}
  /\ \A p \in posts : p.report \in Report

AllSettled ==
  /\ reporter.pc = "poll" /\ posts = {}
  /\ \A k \in Announcements : done[k].state \in {"unsent", "deleted"}

\* A report is about every assigned question, submitted to or not, and "a
\* redelivered event must keep this row and exam's cached columns in agreement"
\* (repositories/hiring_reports.py), and the reviewers know of that report.  The
\* latter, whatever failed on the way, when every announcement has been worked
\* off, unless the ai service stopped waiting for an attach request, which a
\* later one may then overtake.
CopiesAgree ==
  /\ report # None => \A o \in Ordinals : rows[o] # None
  /\ AllSettled /\ late = 0 => cached = report /\ told = report

\* "the factual evidence table 100% reliable regardless of what the model
\* does" (docs/design-hiring-report.md): an accepted submission has full marks.
EvidenceIsReliable ==
  report # None => \A o \in Ordinals :
    report.evidence[o].verdict = "AC" => report.evidence[o].score = 10

\* get_hiring_report: what an examiner of the organisation sees
Shown == cached

\* The announcement of a session's end leads to a report examiners can read,
\* failures or not, unless a loop has died or the bound on deliveries is hit.
ReportArrives ==
  <>(\/ Shown # None
     \/ evaluator.pc = "ended" \/ reporter.pc = "ended"
     \/ \E m \in Notices : Exhausted(notice[m])
     \/ \E k \in Announcements : Exhausted(done[k]))
=============================================================================
