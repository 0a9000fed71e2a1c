-------------------------- MODULE Evaluation_proofs --------------------------
(***************************************************************************)
(* Proofs about Evaluation, for any number of questions, notices,          *)
(* announcements, failures and attach requests that time out.              *)
(***************************************************************************)
EXTENDS Evaluation, FiniteSetTheorems, TLAPS

-----------------------------------------------------------------------------
(* Types. *)

Verdicts   == {"unsubmitted", "pending", "AC", "WA"}
Table      == [Ordinals -> Evidence]
Attach     == [report : Report, step : {"store", "mail"}, waited : BOOLEAN]
Evaluators == [pc : {"poll", "list", "assess", "count", "ack", "ended"},
               msg : Notices \cup {None}, receipt : Nat, data : [Ordinals -> Verdicts] \cup {None}]
Reporters  == [pc : {"poll", "gather", "write", "attach", "wait", "ack", "ended"},
               msg : Announcements \cup {None}, receipt : Nat, data : Table \cup Report \cup {None}]

Types ==
  /\ verdict \in [Ordinals -> Verdicts]
  /\ notice \in [Notices -> Message] /\ done \in [Announcements -> Message]
  /\ evaluator \in Evaluators /\ reporter \in Reporters
  /\ reporter.pc = "write" => reporter.data \in Table
  /\ reporter.pc = "attach" => reporter.data \in Report
  /\ rows \in [Ordinals -> 0..10 \cup {None}]
  /\ report \in Report \cup {None} /\ cached \in Report \cup {None} /\ told \in Report \cup {None}
  /\ posts \subseteq Attach /\ IsFiniteSet(posts) /\ late \in Nat

-----------------------------------------------------------------------------
(***************************************************************************)
(* Nothing is announced, and nothing reported, before every question has   *)
(* its row, and a row is never taken back.                                 *)
(***************************************************************************)
Reporting == reporter.pc \in {"gather", "write", "attach", "wait"}

RowsFirst ==
  \/ \E k \in Announcements : done[k] # Unsent
  \/ reporter.pc \notin {"poll", "ended"} \/ posts # {} \/ report # None
  => \A o \in Ordinals : rows[o] # None

(***************************************************************************)
(* Whoever works on an announcement has not deleted it.  As long as no     *)
(* attach request has outlived its caller, the copies agree or there is an *)
(* announcement left that will make them agree; the one request under way  *)
(* carries the report that was written last.                               *)
(***************************************************************************)
Left(k) == done[k].state \in {"visible", "inflight"}
InSync  == cached = report /\ told = report

OneRequest ==
  IF reporter.pc = "wait"
  THEN \E s \in {"store", "mail"} :
         /\ posts = {[report |-> report, step |-> s, waited |-> TRUE]}
         /\ s = "mail" => cached = report
  ELSE posts = {}

Catching ==
  /\ Reporting => reporter.msg \in Announcements /\ Left(reporter.msg)
  /\ late = 0 =>
       /\ InSync \/ \E k \in Announcements : Left(k)
       /\ reporter.pc = "ack" => InSync
       /\ reporter.pc = "attach" => reporter.data = report
       /\ OneRequest

Inv == Types /\ RowsFirst /\ Catching

-----------------------------------------------------------------------------
LEMMA Messages ==
  ASSUME NEW m \in Message
  PROVE  /\ CanReceive(m) => Received(m) \in Message /\ Received(m).state = "inflight"
         /\ TimedOut(m) \in Message /\ TimedOut(m).state = "visible"
         /\ \A receipt : \A n \in AfterDelete(m, receipt) : n \in Message
         /\ Sent \in Message /\ Sent.state = "visible" /\ Unsent \in Message /\ Unsent.state = "unsent"
         /\ m.receives + 1 \in Nat
BY MaxReceivesAssumption
   DEF Message, CanReceive, Received, TimedOut, AfterDelete, Sent, Unsent

LEMMA InitInv == Init => Inv
<1> SUFFICES ASSUME Init PROVE Inv
  OBVIOUS
<1> USE DEF Init
<1>1. Polls \in Evaluators /\ Polls \in Reporters /\ Polls.pc = "poll"
  BY DEF Polls, Evaluators, Reporters
<1>2. Sent \in Message /\ Unsent \in Message
  BY MaxReceivesAssumption DEF Sent, Unsent, Message
<1>3. notice \in [Notices -> Message] /\ done \in [Announcements -> Message]
  BY <1>2
<1>4. verdict \in [Ordinals -> Verdicts]
  BY DEF Verdicts
<1>5. posts \subseteq Attach /\ IsFiniteSet(posts)
  BY FS_EmptySet
<1>6. Types
  BY <1>1, <1>3, <1>4, <1>5 DEF Types
<1>7. RowsFirst
  BY <1>1 DEF RowsFirst, Reporting
<1>8. Catching
  BY <1>1 DEF Catching, Reporting, InSync, OneRequest
<1> QED
  BY <1>6, <1>7, <1>8 DEF Inv

\* steps of the judge and of the evaluation loop before its announcement: no
\* row is taken back and nothing is touched that the report depends on
LEMMA EvaluatorKeeps ==
  ASSUME Inv, UNCHANGED <<done, reporter, report, posts, cached, told, late>>,
         verdict' \in [Ordinals -> Verdicts], notice' \in [Notices -> Message],
         evaluator' \in Evaluators, rows' \in [Ordinals -> 0..10 \cup {None}],
         \A o \in Ordinals : rows[o] # None => rows'[o] # None
  PROVE  Inv'
<1>1. Types'
  BY DEF Inv, Types
<1>2. RowsFirst'
  BY DEF Inv, RowsFirst, Reporting
<1>3. Catching'
  BY DEF Inv, Catching, Reporting, Left, InSync, OneRequest
<1> QED
  BY <1>1, <1>2, <1>3 DEF Inv

\* the reporter gives up or ends: what it had not finished is still announced
LEMMA ReporterStops ==
  ASSUME Inv, UNCHANGED <<verdict, notice, done, evaluator, rows, report, posts, cached, told, late>>,
         reporter' \in Reporters, reporter'.pc \in {"poll", "ended"}, reporter.pc # "wait"
  PROVE  Inv'
<1>1. Types'
  BY DEF Inv, Types
<1>2. RowsFirst'
  BY DEF Inv, RowsFirst, Reporting
<1>3. Catching'
  BY DEF Inv, Catching, Reporting, Left, InSync, OneRequest
<1> QED
  BY <1>1, <1>2, <1>3 DEF Inv

LEMMA ScoreInRange ==
  ASSUME NEW v, NEW a PROVE ScoreOf(v, a) \in 0..10 /\ ScoreOf(v, a) # None
<1>1. ScoreOf(v, a) \in {0, 1, 4, 7, 10}
  BY DEF ScoreOf
<1> QED
  BY <1>1, EvaluationAssumption

LEMMA EvaluatorStepKeeps ==
  ASSUME Inv, EvaluatorStep \/ EvaluatorFails \/ \E o \in Ordinals : Graded(o)
  PROVE  Inv'
<1> USE DEF Inv
<1>0. /\ verdict \in [Ordinals -> Verdicts] /\ notice \in [Notices -> Message]
      /\ evaluator \in Evaluators /\ rows \in [Ordinals -> 0..10 \cup {None}]
      /\ Polls \in Evaluators
  BY DEF Types, Polls, Evaluators
<1>1. CASE \E o \in Ordinals : Graded(o)
  <2>1. verdict' \in [Ordinals -> Verdicts]
    BY <1>0, <1>1 DEF Graded, Verdicts
  <2> QED
    BY <1>0, <1>1, <2>1, EvaluatorKeeps DEF Graded, aiVars, examVars
<1>2. ASSUME NEW m \in Notices, ReceiveNotice(m) PROVE Inv'
  <2>1. notice' \in [Notices -> Message] /\ notice[m].receives + 1 \in Nat
    BY <1>0, <1>2, Messages DEF ReceiveNotice
  <2>2. evaluator' \in Evaluators
    BY <1>2, <2>1 DEF ReceiveNotice, Evaluators
  <2> QED
    BY <1>0, <1>2, <2>1, <2>2, EvaluatorKeeps DEF ReceiveNotice, examVars
<1>3. CASE ListSubmissions
  <2>1. evaluator' \in Evaluators
    BY <1>0, <1>3 DEF ListSubmissions, SessionQuestions, Evaluators
  <2> QED
    BY <1>0, <1>3, <2>1, EvaluatorKeeps DEF ListSubmissions, examVars
<1>4. CASE EvaluateQuestions
  <2>1. evaluator' \in Evaluators
    BY <1>0, <1>4 DEF EvaluateQuestions, Evaluators
  <2>2. PICK a \in Assessed : rows' = [o \in Ordinals |-> Upsert(o, ScoreOf(evaluator.data[o], a[o]))]
    BY <1>4 DEF EvaluateQuestions
  <2>3. \A o \in Ordinals : Upsert(o, ScoreOf(evaluator.data[o], a[o])) \in 0..10
    <3> SUFFICES ASSUME NEW o \in Ordinals
                 PROVE  Upsert(o, ScoreOf(evaluator.data[o], a[o])) \in 0..10
      OBVIOUS
    <3>1. ScoreOf(evaluator.data[o], a[o]) \in 0..10
      BY ScoreInRange
    <3> QED
      BY <1>0, <3>1 DEF Upsert
  <2>4. rows' \in [Ordinals -> 0..10 \cup {None}] /\ \A o \in Ordinals : rows'[o] # None
    BY <2>2, <2>3, EvaluationAssumption
  <2> QED
    BY <1>0, <1>4, <2>1, <2>4, EvaluatorKeeps DEF EvaluateQuestions, examVars
<1>5. CASE AnnounceEvaluation
  <2>1. evaluator' \in Evaluators /\ UNCHANGED <<verdict, notice, reporter, rows, report, posts, cached, told, late>>
    BY <1>0, <1>5 DEF AnnounceEvaluation, Evaluators, examVars
  <2>2. CASE done' = done
    BY <1>0, <2>1, <2>2, EvaluatorKeeps
  <2>3. CASE done' = Announced /\ \A o \in Ordinals : rows[o] # None
    <3>1. PICK k : done' = [done EXCEPT ![k] = Sent]
      BY <2>3 DEF Announced
    <3>2. Sent \in Message /\ Sent.state = "visible"
      BY MaxReceivesAssumption DEF Sent, Message
    <3>3. /\ done' \in [Announcements -> Message]
          /\ \A i \in Announcements : Left(i) => done'[i].state \in {"visible", "inflight"}
      BY <3>1, <3>2 DEF Types, Left
    <3>4. Types'
      BY <2>1, <3>3 DEF Types
    <3>5. RowsFirst'
      BY <2>1, <2>3 DEF RowsFirst
    <3>6. Catching'
      BY <2>1, <3>3 DEF Catching, Reporting, Left, InSync, OneRequest
    <3> QED
      BY <3>4, <3>5, <3>6
  <2> QED
    BY <1>5, <2>2, <2>3 DEF AnnounceEvaluation
<1>6. CASE DeleteNotice
  <2>1. notice' \in [Notices -> Message]
    <3>1. PICK m, n : /\ m = evaluator.msg /\ n \in AfterDelete(notice[m], evaluator.receipt)
                     /\ notice' = [notice EXCEPT ![m] = n]
      BY <1>6 DEF DeleteNotice
    <3>2. m \in Notices => n \in Message
      BY <1>0, <3>1, Messages
    <3> QED
      BY <1>0, <3>1, <3>2
  <2> QED
    BY <1>0, <1>6, <2>1, EvaluatorKeeps DEF DeleteNotice, examVars
<1>7. CASE EvaluatorFails
  BY <1>0, <1>7, EvaluatorKeeps DEF EvaluatorFails, examVars
<1> QED
  BY <1>1, <1>2, <1>3, <1>4, <1>5, <1>6, <1>7 DEF EvaluatorStep

LEMMA ReceiveKeeps ==
  ASSUME Inv, NEW k \in Announcements, ReceiveDone(k) PROVE Inv'
<1> USE DEF Inv
<1>1. /\ reporter.pc = "poll" /\ CanReceive(done[k]) /\ done' = [done EXCEPT ![k] = Received(done[k])]
      /\ reporter' = [pc |-> "gather", msg |-> k, receipt |-> done[k].receives + 1, data |-> None]
      /\ UNCHANGED <<verdict, notice, evaluator, rows, report, posts, cached, told, late>>
  BY DEF ReceiveDone, examVars
<1>2. /\ done \in [Announcements -> Message] /\ done[k].receives + 1 \in Nat
      /\ Received(done[k]) \in Message /\ Received(done[k]).state = "inflight"
  BY <1>1, Messages DEF Types
<1>3. reporter' \in Reporters /\ reporter'.pc = "gather" /\ reporter'.msg = k
  BY <1>1, <1>2 DEF Reporters
<1>4. /\ done' \in [Announcements -> Message] /\ done'[k].state = "inflight"
      /\ \A i \in Announcements : i # k => done'[i] = done[i]
  BY <1>1, <1>2
<1>5. Types'
  BY <1>1, <1>3, <1>4 DEF Types
<1>6. RowsFirst'
  <2>1. done[k] # Unsent
    BY <1>1 DEF CanReceive, Unsent
  <2> QED
    BY <1>1, <2>1 DEF RowsFirst
<1>7. Catching'
  BY <1>1, <1>3, <1>4 DEF Catching, Reporting, Left, InSync, OneRequest
<1> QED
  BY <1>5, <1>6, <1>7

LEMMA GatherKeeps ==
  ASSUME Inv, GatherEvidence PROVE Inv'
<1> USE DEF Inv
<1> DEFINE table == [o \in Ordinals |-> [verdict |-> SessionQuestions[o],
                                        score   |-> IF rows[o] = None THEN 0 ELSE rows[o]]]
<1>1. /\ reporter.pc = "gather" /\ reporter' = [reporter EXCEPT !.pc = "write", !.data = table]
      /\ UNCHANGED <<verdict, notice, done, evaluator, rows, report, posts, cached, told, late>>
  BY DEF GatherEvidence, examVars
<1>2. table \in Table
  BY DEF Types, Table, Evidence, Verdicts, SessionQuestions
<1> HIDE DEF table
<1>3. /\ reporter' \in Reporters /\ reporter'.pc = "write" /\ reporter'.msg = reporter.msg
      /\ reporter'.data = table
  BY <1>1, <1>2 DEF Types, Reporters
<1>4. Types'
  BY <1>1, <1>2, <1>3 DEF Types
<1>5. RowsFirst' /\ Catching'
  BY <1>1, <1>3 DEF RowsFirst, Catching, Reporting, Left, InSync, OneRequest
<1> QED
  BY <1>4, <1>5

LEMMA WriteKeeps ==
  ASSUME Inv, WriteReport PROVE Inv'
<1> USE DEF Inv
<1>1. PICK r \in Synthesized(reporter.data) :
        report' = r /\ reporter' = [reporter EXCEPT !.pc = "attach", !.data = r]
  BY DEF WriteReport, UpsertReport
<1>2. reporter.pc = "write" /\ UNCHANGED <<verdict, notice, done, evaluator, rows, posts, cached, told, late>>
  BY DEF WriteReport, examVars
<1>3. r \in Report
  BY <1>1, <1>2 DEF Types, Synthesized, Report, Table
<1>4. /\ reporter' \in Reporters /\ reporter'.pc = "attach" /\ reporter'.msg = reporter.msg
      /\ reporter'.data = r
  BY <1>1, <1>3 DEF Types, Reporters
<1>5. Types'
  BY <1>1, <1>2, <1>3, <1>4 DEF Types
<1>6. RowsFirst'
  BY <1>2 DEF RowsFirst, Reporting
<1>7. Catching'
  BY <1>1, <1>2, <1>4 DEF Catching, Reporting, Left, InSync, OneRequest
<1> QED
  BY <1>5, <1>6, <1>7

LEMMA PostKeeps ==
  ASSUME Inv, PostReport PROVE Inv'
<1> USE DEF Inv
<1> DEFINE p == [report |-> reporter.data, step |-> "store", waited |-> TRUE]
<1>1. /\ reporter.pc = "attach" /\ posts' = posts \cup {p} /\ reporter' = [reporter EXCEPT !.pc = "wait"]
      /\ UNCHANGED <<verdict, notice, done, evaluator, rows, report, cached, told, late>>
  BY DEF PostReport
<1>2. reporter.data \in Report /\ p \in Attach
  BY <1>1 DEF Types, Attach
<1>3. /\ reporter' \in Reporters /\ reporter'.pc = "wait" /\ reporter'.msg = reporter.msg
  BY <1>1 DEF Types, Reporters
<1>4. posts' \subseteq Attach /\ IsFiniteSet(posts')
  BY <1>1, <1>2, FS_AddElement DEF Types
<1>5. Types'
  BY <1>1, <1>3, <1>4 DEF Types
<1>6. RowsFirst'
  BY <1>1 DEF RowsFirst, Reporting
<1>7. late = 0 => posts' = {[report |-> report, step |-> "store", waited |-> TRUE]}
  BY <1>1 DEF Catching, OneRequest
<1>8. Catching'
  BY <1>1, <1>3, <1>7 DEF Catching, Reporting, Left, InSync, OneRequest
<1> QED
  BY <1>5, <1>6, <1>8

LEMMA StoreKeeps ==
  ASSUME Inv, NEW p \in posts, StoreReport(p) PROVE Inv'
<1> USE DEF Inv
<1>1. /\ p.step = "store" /\ cached' = p.report
      /\ posts' = (posts \ {p}) \cup {[p EXCEPT !.step = "mail"]}
      /\ UNCHANGED <<verdict, notice, done, evaluator, reporter, rows, report, told, late>>
  BY DEF StoreReport, aiVars
<1>2. p \in Attach /\ p.report \in Report /\ [p EXCEPT !.step = "mail"] \in Attach
  BY DEF Types, Attach
<1>3. posts' \subseteq Attach /\ IsFiniteSet(posts')
  <2>1. IsFiniteSet(posts \ {p})
    BY FS_Subset DEF Types
  <2> QED
    BY <1>1, <1>2, <2>1, FS_AddElement DEF Types
<1>4. Types'
  BY <1>1, <1>2, <1>3 DEF Types
<1>5. RowsFirst'
  BY <1>1 DEF RowsFirst, Reporting
<1>6. ASSUME late = 0
      PROVE  /\ reporter.pc = "wait" /\ cached' = report
             /\ posts' = {[report |-> report, step |-> "mail", waited |-> TRUE]}
  <2>1. /\ reporter.pc = "wait"
        /\ \E s \in {"store", "mail"} : posts = {[report |-> report, step |-> s, waited |-> TRUE]}
    BY <1>6 DEF Catching, OneRequest
  <2>2. PICK s \in {"store", "mail"} : posts = {[report |-> report, step |-> s, waited |-> TRUE]}
    BY <2>1
  <2>3. p = [report |-> report, step |-> s, waited |-> TRUE]
    BY <2>2
  <2>4. p.step = s /\ p.report = report
    BY <2>3
  <2>5. posts = {p}
    BY <2>2, <2>3
  <2>6. posts' = {[p EXCEPT !.step = "mail"]}
    BY <1>1, <2>5
  <2>7. [p EXCEPT !.step = "mail"] = [report |-> report, step |-> "mail", waited |-> TRUE]
    <3>1. PICK q \in Attach : /\ q = [p EXCEPT !.step = "mail"]
                             /\ q.report = report /\ q.step = "mail" /\ q.waited = TRUE
      <4>1. p.waited = TRUE
        BY <2>3
      <4>2. /\ [p EXCEPT !.step = "mail"].report = p.report /\ [p EXCEPT !.step = "mail"].step = "mail"
            /\ [p EXCEPT !.step = "mail"].waited = p.waited
        BY <1>2 DEF Attach
      <4> QED
        BY <1>2, <2>4, <4>1, <4>2
    <3>2. q = [report |-> report, step |-> "mail", waited |-> TRUE]
      BY <3>1 DEF Attach
    <3> QED
      BY <3>1, <3>2
  <2> QED
    BY <1>1, <2>1, <2>4, <2>6, <2>7
<1>7. Catching'
  <2>1. Reporting' = Reporting /\ \A k \in Announcements : Left(k)' = Left(k)
    BY <1>1 DEF Reporting, Left
  <2>2. late = 0 => OneRequest'
    BY <1>1, <1>6 DEF OneRequest
  <2>3. late = 0 => \E k \in Announcements : Left(k)
    BY <1>6 DEF Catching, Reporting
  <2> QED
    BY <1>1, <1>6, <2>1, <2>2, <2>3 DEF Catching
<1> QED
  BY <1>4, <1>5, <1>7

LEMMA MailKeeps ==
  ASSUME Inv, NEW p \in posts, MailReviewers(p) PROVE Inv'
<1> USE DEF Inv
<1>1. /\ p.step = "mail" /\ told' = p.report /\ posts' = posts \ {p}
      /\ reporter' = IF p.waited THEN [reporter EXCEPT !.pc = "ack", !.data = None] ELSE reporter
      /\ UNCHANGED <<verdict, notice, done, evaluator, rows, report, cached, late>>
  BY DEF MailReviewers
<1>2. p \in Attach /\ p.report \in Report /\ posts' \subseteq Attach /\ IsFiniteSet(posts')
  BY <1>1, FS_Subset DEF Types, Attach
<1>3. /\ reporter' \in Reporters
      /\ \/ p.waited /\ reporter'.pc = "ack"
         \/ ~p.waited /\ reporter' = reporter
  BY <1>1, <1>2 DEF Types, Reporters, Attach
<1>4. Types'
  BY <1>1, <1>2, <1>3 DEF Types
<1>5. RowsFirst'
  BY <1>1, <1>3 DEF RowsFirst, Reporting
<1>6. ASSUME late = 0
      PROVE  reporter'.pc = "ack" /\ posts' = {} /\ InSync'
  <2>1. PICK s \in {"store", "mail"} : /\ posts = {[report |-> report, step |-> s, waited |-> TRUE]}
                                       /\ s = "mail" => cached = report
    BY <1>6 DEF Catching, OneRequest
  <2>2. PICK r : r = [report |-> report, step |-> s, waited |-> TRUE]
    OBVIOUS
  <2>3. r.step = s /\ r.report = report /\ r.waited
    BY <2>2
  <2>4. posts = {r}
    BY <2>1, <2>2
  <2>5. p = r /\ posts' = {}
    BY <1>1, <2>4
  <2>6. cached = report
    BY <1>1, <2>1, <2>3, <2>5
  <2> QED
    BY <1>1, <1>3, <2>3, <2>5, <2>6 DEF InSync
<1>7. Catching'
  <2>1. Reporting' => Reporting /\ reporter' = reporter
    BY <1>3 DEF Reporting
  <2>2. \A k \in Announcements : Left(k)' = Left(k)
    BY <1>1 DEF Left
  <2> QED
    BY <1>1, <1>6, <2>1, <2>2 DEF Catching, OneRequest
<1> QED
  BY <1>4, <1>5, <1>7

LEMMA DeleteKeeps ==
  ASSUME Inv, DeleteDone PROVE Inv'
<1> USE DEF Inv
<1>1. PICK k, n : /\ k = reporter.msg /\ n \in AfterDelete(done[k], reporter.receipt)
                 /\ done' = [done EXCEPT ![k] = n]
  BY DEF DeleteDone
<1>2. /\ reporter.pc = "ack" /\ reporter' = Polls
      /\ UNCHANGED <<verdict, notice, evaluator, rows, report, posts, cached, told, late>>
  BY DEF DeleteDone, examVars
<1>3. Polls \in Reporters /\ Polls.pc = "poll"
  BY DEF Polls, Reporters
<1>4. done' \in [Announcements -> Message]
  <2>1. k \in Announcements => n \in Message
    BY <1>1, Messages DEF Types
  <2> QED
    BY <1>1, <2>1 DEF Types
<1>5. Types'
  BY <1>2, <1>3, <1>4 DEF Types
<1>6. RowsFirst'
  BY <1>2 DEF RowsFirst
<1>7. Catching'
  BY <1>2, <1>3 DEF Catching, Reporting, InSync, OneRequest
<1> QED
  BY <1>5, <1>6, <1>7

LEMMA AttachStopsKeep ==
  ASSUME Inv, NEW p \in posts, AttachFails(p) \/ AttachTimesOut(p) PROVE Inv'
<1> USE DEF Inv
<1>1. /\ UNCHANGED <<verdict, notice, done, evaluator, rows, report, cached, told>>
      /\ reporter' = IF p.waited THEN Polls ELSE reporter
      /\ \/ posts' = posts \ {p} /\ late' = late
         \/ posts' = (posts \ {p}) \cup {[p EXCEPT !.waited = FALSE]} /\ late' = late + 1
  BY DEF AttachFails, AttachTimesOut
<1>2. p \in Attach /\ [p EXCEPT !.waited = FALSE] \in Attach
  BY DEF Types, Attach
<1>3. posts' \subseteq Attach /\ IsFiniteSet(posts') /\ late' \in Nat /\ (late' = 0 => late = 0 /\ late' = late)
  <2>1. posts \ {p} \subseteq Attach /\ IsFiniteSet(posts \ {p}) /\ late \in Nat
    BY FS_Subset DEF Types
  <2>2. IsFiniteSet((posts \ {p}) \cup {[p EXCEPT !.waited = FALSE]})
    BY <2>1, FS_AddElement
  <2>3. (posts \ {p}) \cup {[p EXCEPT !.waited = FALSE]} \subseteq Attach
    BY <1>2, <2>1
  <2> QED
    BY <1>1, <2>1, <2>2, <2>3
<1>4. Polls \in Reporters /\ Polls.pc = "poll"
  BY DEF Polls, Reporters
<1>5. Types'
  BY <1>1, <1>3, <1>4 DEF Types
<1>6. RowsFirst'
  <2>1. \A o \in Ordinals : rows[o] # None
    BY DEF RowsFirst
  <2> QED
    BY <1>1, <2>1 DEF RowsFirst
<1>7. Catching'
  <2>1. ASSUME late' = 0
        PROVE  /\ reporter'.pc = "poll" /\ posts' = {} /\ \E k \in Announcements : Left(k)
    <3>1. PICK s \in {"store", "mail"} : posts = {[report |-> report, step |-> s, waited |-> TRUE]}
      BY <1>3, <2>1 DEF Catching, OneRequest
    <3>2. reporter.pc = "wait"
      BY <1>3, <2>1 DEF Catching, OneRequest
    <3>3. p = [report |-> report, step |-> s, waited |-> TRUE]
      BY <3>1
    <3>4. p.waited /\ posts = {p}
      BY <3>1, <3>3
    <3>5. late' # late + 1
      BY <1>3, <2>1 DEF Types
    <3> QED
      BY <1>1, <1>4, <3>2, <3>4, <3>5 DEF Catching, Reporting
  <2>2. \A k \in Announcements : Left(k)' = Left(k)
    BY <1>1 DEF Left
  <2>3. Reporting' => Reporting /\ reporter' = reporter
    BY <1>1, <1>4 DEF Reporting
  <2> QED
    BY <2>1, <2>2, <2>3 DEF Catching, OneRequest
<1> QED
  BY <1>5, <1>6, <1>7

LEMMA StopsKeep ==
  ASSUME Inv, ReporterFails \/ LoopEnds PROVE Inv'
<1> USE DEF Inv
<1>1. /\ Polls \in Reporters /\ Polls.pc = "poll" /\ Polls \in Evaluators
      /\ [Polls EXCEPT !.pc = "ended"] \in Reporters /\ [Polls EXCEPT !.pc = "ended"].pc = "ended"
      /\ [Polls EXCEPT !.pc = "ended"] \in Evaluators
  BY DEF Polls, Reporters, Evaluators
<1>2. CASE ReporterFails
  BY <1>1, <1>2, ReporterStops DEF ReporterFails, examVars
<1>3. CASE LoopEnds
  <2>1. UNCHANGED <<verdict, notice, done, rows, report, posts, cached, told, late>>
    BY <1>3 DEF LoopEnds, examVars
  <2>2. CASE reporter.pc \in {"poll", "ack"} /\ reporter' = [Polls EXCEPT !.pc = "ended"]
                                            /\ UNCHANGED evaluator
    BY <1>1, <2>1, <2>2, ReporterStops
  <2>3. CASE evaluator' = [Polls EXCEPT !.pc = "ended"] /\ UNCHANGED reporter
    BY <1>1, <2>1, <2>3, EvaluatorKeeps DEF Types
  <2> QED
    BY <1>3, <2>2, <2>3 DEF LoopEnds
<1> QED
  BY <1>2, <1>3

LEMMA RestartKeeps ==
  ASSUME Inv, AiRestarts PROVE Inv'
<1> USE DEF Inv
<1> DEFINE left == {p \in posts : p.waited}
<1>1. /\ evaluator' = Polls /\ reporter' = Polls
      /\ posts' = {[p EXCEPT !.waited = FALSE] : p \in posts}
      /\ late' = late + Cardinality(left)
      /\ UNCHANGED <<verdict, notice, done, rows, report, cached, told>>
  BY DEF AiRestarts
<1>2. Polls \in Evaluators /\ Polls \in Reporters /\ Polls.pc = "poll"
  BY DEF Polls, Evaluators, Reporters
<1>3. IsFiniteSet(left) /\ Cardinality(left) \in Nat /\ (Cardinality(left) = 0 => left = {})
  <2>1. IsFiniteSet(left)
    BY FS_Subset DEF Types
  <2> QED
    BY <2>1, FS_CardinalityType, FS_EmptySet
<1>4. posts' \subseteq Attach
  BY <1>1 DEF Types, Attach
<1>5. IsFiniteSet(posts')
  <2> DEFINE f == [p \in posts |-> [p EXCEPT !.waited = FALSE]]
  <2>1. f \in Surjection(posts, posts')
    BY <1>1 DEF Surjection
  <2> QED
    BY <2>1, FS_Surjection DEF Types
<1> HIDE DEF left
<1>6. late' \in Nat /\ (late' = 0 => late = 0 /\ left = {})
  BY <1>1, <1>3 DEF Types
<1>7. Types'
  BY <1>1, <1>2, <1>4, <1>5, <1>6 DEF Types
<1>8. RowsFirst'
  <2>1. posts' # {} => posts # {}
    BY <1>1
  <2> QED
    BY <1>1, <1>2, <2>1 DEF RowsFirst
<1>9. late' = 0 => posts = {} /\ posts' = {}
  <2> SUFFICES ASSUME late' = 0 PROVE posts = {}
    BY <1>1
  <2>1. CASE reporter.pc = "wait"
    <3>1. PICK s \in {"store", "mail"} : posts = {[report |-> report, step |-> s, waited |-> TRUE]}
      BY <1>6, <2>1 DEF Catching, OneRequest
    <3>2. [report |-> report, step |-> s, waited |-> TRUE] \in left
      BY <3>1 DEF left
    <3> QED
      BY <1>6, <3>2
  <2>2. CASE reporter.pc # "wait"
    BY <1>6, <2>2 DEF Catching, OneRequest
  <2> QED
    BY <2>1, <2>2
<1>10. Catching'
  <2>1. \A k \in Announcements : Left(k)' = Left(k)
    BY <1>1 DEF Left
  <2> QED
    BY <1>1, <1>2, <1>6, <1>9, <2>1 DEF Catching, Reporting, InSync, OneRequest
<1> QED
  BY <1>7, <1>8, <1>10

LEMMA ReturnsKeep ==
  ASSUME Inv, Returns PROVE Inv'
<1> USE DEF Inv
<1>1. CASE UNCHANGED done
  <2>1. notice' \in [Notices -> Message]
    BY <1>1, Messages DEF Returns, Types
  <2> QED
    BY <1>1, <2>1, EvaluatorKeeps DEF Returns, aiVars, examVars, Types
<1>2. CASE ~UNCHANGED done
  <2>1. PICK k \in Announcements : done[k].state = "inflight" /\ done' = [done EXCEPT ![k] = TimedOut(done[k])]
    BY <1>2 DEF Returns
  <2>2. UNCHANGED <<verdict, notice, evaluator, reporter, rows, report, posts, cached, told, late>>
    BY <1>2 DEF Returns, aiVars, examVars
  <2>3. /\ done' \in [Announcements -> Message] /\ done'[k].state = "visible" /\ done[k] # Unsent
        /\ \A i \in Announcements : i # k => done'[i] = done[i]
    BY <2>1, Messages DEF Types, Unsent
  <2>4. Types'
    BY <2>2, <2>3 DEF Types
  <2>5. RowsFirst'
    BY <2>2, <2>3 DEF RowsFirst
  <2>6. Catching'
    <3>1. \A i \in Announcements : Left(i)' <=> Left(i)
      BY <2>1, <2>3 DEF Left
    <3> QED
      BY <2>2, <3>1 DEF Catching, Reporting, InSync, OneRequest
  <2> QED
    BY <2>4, <2>5, <2>6
<1> QED
  BY <1>1, <1>2

LEMMA Step == Inv /\ [Next]_vars => Inv'
<1> SUFFICES ASSUME Inv, [Next]_vars PROVE Inv'
  OBVIOUS
<1>1. CASE UNCHANGED vars
  <2>1. UNCHANGED <<verdict, notice, done, evaluator, reporter, rows, report, posts, cached, told, late>>
    BY <1>1 DEF vars, aiVars, examVars
  <2>2. Types'
    BY <2>1 DEF Inv, Types
  <2> QED
    BY <2>1, <2>2 DEF Inv, RowsFirst, Catching, Reporting, Left, InSync, OneRequest
<1>2. CASE ReporterStep
  BY <1>2, ReceiveKeeps, GatherKeeps, WriteKeeps, PostKeeps, DeleteKeeps DEF ReporterStep
<1>3. CASE ExamStep
  BY <1>3, StoreKeeps, MailKeeps DEF ExamStep
<1> QED
  BY <1>1, <1>2, <1>3, EvaluatorStepKeeps, AttachStopsKeep, StopsKeep, RestartKeeps, ReturnsKeep DEF Next

-----------------------------------------------------------------------------
\* The rows, messages, requests and copies of a report keep their types,
\* whatever the model says and whichever calls fail.
THEOREM TypeCorrect == Spec => []TypeOK
<1>1. Inv => TypeOK
  BY DEF Inv, Types, TypeOK, Attach
<1> QED
  BY <1>1, InitInv, Step, PTL DEF Spec

\* When every announcement has been worked off, the report of the ai service,
\* the copy in the session row and what the reviewers were mailed are one, and
\* it is about every question, through redeliveries, failed attach requests and
\* restarts, unless a request outlived the caller that waited for it.
THEOREM ReportsAgree == Spec => []CopiesAgree
<1>1. Inv => CopiesAgree
  <2> SUFFICES ASSUME Inv PROVE CopiesAgree
    OBVIOUS
  <2>1. AllSettled => \A k \in Announcements : ~Left(k)
    BY DEF AllSettled, Left
  <2> QED
    BY <2>1 DEF Inv, RowsFirst, Catching, InSync, CopiesAgree
<1> QED
  BY <1>1, InitInv, Step, PTL DEF Spec
=============================================================================
