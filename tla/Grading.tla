------------------------------ MODULE Grading ------------------------------
(***************************************************************************)
(* The grading pipeline of one candidate session: the exam API stores a    *)
(* submission and queues a job, judge workers run jobs and queue verdicts, *)
(* the verdict consumer of every exam replica persists them.  Both queues  *)
(* deliver at least once and in no order; every process may fail between   *)
(* any two of its steps.  A database transaction is one step, because the  *)
(* unique keys make concurrent writers of the same rows wait for the       *)
(* commit; a read of an earlier transaction is a step of its own.          *)
(***************************************************************************)
EXTENDS Sqs, Sequences, FiniteSets

CONSTANTS
  Submissions,     \* submissions of the session, in both modes
  Judges,          \* judge worker processes
  Consumers,       \* exam replicas running a verdict consumer
  None,            \* absent value
  NumCases,        \* test cases of the question version, ordinals 1..NumCases
  Samples,         \* ordinals of the sample cases, all that a trial run uses
  Outcomes,        \* Outcomes[s]: full-suite reports the judge may reach for s
  BatchSize,       \* messages one receive of the consumer may return
  SqsErrors,       \* whether receive and delete of the consumer loop may raise
  MaxFaults        \* bound: process failures and late deletes in a behaviour

Ordinals    == 1..NumCases
CaseVerdict == {"AC", "WA", "TLE", "MLE", "RE"}
Runs        == 1..MaxReceives
VerdictIds  == Submissions \X Runs        \* <<s, n>>: from the n-th run of s

Report == [status : {"COMPLETED", "COMPILE_ERROR"},
           cases  : [Ordinals -> CaseVerdict \cup {"none"}]]

ASSUME GradingAssumption ==
  /\ NumCases \in Nat \ {0} /\ BatchSize \in Nat \ {0} /\ MaxFaults \in Nat
  /\ SqsErrors \in BOOLEAN
  /\ Samples \subseteq Ordinals
  /\ Outcomes \in [Submissions -> SUBSET Report]
  /\ None \notin Submissions /\ None \notin VerdictIds /\ None \notin Report
  /\ None \notin {"QUEUED", "COMPLETED", "COMPILE_ERROR"}

VARIABLES
  kind,       \* [Submissions -> {None, "submit", "run"}], the mode column
  status,     \* the submission row's status
  summary,    \* the submission row's summary_verdict
  rows,       \* rows[s][o]: the case_verdicts row of ordinal o
  events,     \* the session_events rows, in seq order
  signals,    \* difficulty signals the ai service received for s
  jobs,       \* submissions queue, one message per submission
  verdicts,   \* verdicts queue, one message per run of the judge
  body,       \* report carried by each verdict message
  api,        \* progress of the request that makes each submission
  judge,      \* what each judge worker is doing
  consumer,   \* what each verdict consumer is doing
  faults      \* failures so far

database == <<kind, status, summary, rows, events>>
queues   == <<jobs, verdicts, body>>
vars     == <<database, signals, queues, api, judge, consumer, faults>>

-----------------------------------------------------------------------------
(* Helpers *)

Terminal == {"COMPLETED", "COMPILE_ERROR"}
Graded(s) == status[s] \in Terminal

\* the cases a job is made of: samples for a trial run, else the whole suite
CasesOf(s) == IF kind[s] = "run" THEN Samples ELSE Ordinals

\* the report of a run over the job's own cases
ReportOf(s, outcome) ==
  [outcome EXCEPT !.cases =
      [o \in Ordinals |-> IF o \in CasesOf(s) THEN outcome.cases[o] ELSE "none"]]

\* the first verdict that is not AC decides; a compile error is CE
SummaryOf(report) ==
  LET failed == {o \in Ordinals : report.cases[o] \notin {"AC", "none"}}
  IN  IF report.status = "COMPILE_ERROR" THEN "CE"
      ELSE IF failed = {} THEN "AC"
      ELSE report.cases[CHOOSE o \in failed : \A p \in failed : o <= p]

Event(type, s, verdict) == [type |-> type, sub |-> s, summary |-> verdict]
Logged(type, s) == \E i \in DOMAIN events : events[i].type = type /\ events[i].sub = s

IdleJudge    == [pc |-> "idle", sub |-> None, receipt |-> 0]
IdleConsumer == [pc |-> "idle", held |-> {}, cur |-> None, receipt |-> 0, seq |-> 0]

EndedConsumer == [IdleConsumer EXCEPT !.pc = "ended"]

\* the consumer goes on with the rest of its batch
Released(c) == [IdleConsumer EXCEPT !.held = consumer[c].held]

JobHeld(s) == \E j \in Judges : /\ judge[j].sub = s
                                /\ judge[j].receipt = jobs[s].receives
VerdictHeld(id) ==
  \E c \in Consumers :
     \/ <<id, verdicts[id].receives>> \in consumer[c].held
     \/ consumer[c].cur = id /\ consumer[c].receipt = verdicts[id].receives

Fault == faults < MaxFaults /\ faults' = faults + 1

Init ==
  /\ kind     = [s \in Submissions |-> None]
  /\ status   = [s \in Submissions |-> None]
  /\ summary  = [s \in Submissions |-> None]
  /\ rows     = [s \in Submissions |-> [o \in Ordinals |-> "none"]]
  /\ events   = <<>>
  /\ signals  = [s \in Submissions |-> 0]
  /\ jobs     = [s \in Submissions |-> Unsent]
  /\ verdicts = [id \in VerdictIds |-> Unsent]
  /\ body     = [id \in VerdictIds |-> None]
  /\ api      = [s \in Submissions |-> [pc |-> "idle", seq |-> 0]]
  /\ judge    = [j \in Judges |-> IdleJudge]
  /\ consumer = [c \in Consumers |-> IdleConsumer]
  /\ faults   = 0

\* upsert_case_verdict for every case: ON CONFLICT DO NOTHING keeps the rows that exist
Upserted(s, cases) == [o \in Ordinals |-> IF rows[s][o] = "none" THEN cases[o] ELSE rows[s][o]]

-----------------------------------------------------------------------------
(* Faulty variants of actions below, each a slip that a property must      *)
(* catch: no check of the terminal states; no summary for compile errors;  *)
(* the job deleted although the run failed.                                *)

LoadSubmissionUnchecked(c, d) ==
  /\ consumer[c].pc = "idle"
  /\ d \in consumer[c].held
  /\ consumer' = [consumer EXCEPT ![c] =
        [pc |-> "persist", held |-> consumer[c].held \ {d}, cur |-> d[1],
         receipt |-> d[2], seq |-> 0]]
  /\ UNCHANGED <<database, signals, queues, api, judge, faults>>

PersistVerdictNoSummary(c) ==
  LET id == consumer[c].cur
      s  == id[1]
  IN  /\ consumer[c].pc = "persist"
      /\ rows'    = [rows EXCEPT ![s] = Upserted(s, body[id].cases)]
      /\ status'  = [status EXCEPT ![s] = body[id].status]
      /\ summary' = IF body[id].status = "COMPILE_ERROR" THEN summary
                    ELSE [summary EXCEPT ![s] = SummaryOf(body[id])]
      /\ consumer' = [consumer EXCEPT ![c].pc = "persisted"]
      /\ UNCHANGED <<kind, events, signals, queues, api, judge, faults>>

JudgeFailsAndDeletes(j) ==
  /\ judge[j].pc # "idle"
  /\ Fault
  /\ \E m \in AfterDelete(jobs[judge[j].sub], judge[j].receipt) :
        jobs' = [jobs EXCEPT ![judge[j].sub] = m]
  /\ judge' = [judge EXCEPT ![j] = IdleJudge]
  /\ UNCHANGED <<database, signals, verdicts, body, api, consumer>>

-----------------------------------------------------------------------------
(* The exam API: create_and_enqueue.  The row is committed, then the job   *)
(* is sent, then the session event is appended under the next seq, which   *)
(* was read in a statement of its own.                                     *)

CreateSubmission(s, mode) ==
  /\ api[s].pc = "idle"
  /\ mode = "run" => Samples # {}          \* otherwise 404, nothing stored
  /\ kind'   = [kind EXCEPT ![s] = mode]
  /\ status' = [status EXCEPT ![s] = "QUEUED"]
  /\ api'    = [api EXCEPT ![s].pc = "committed"]
  /\ UNCHANGED <<summary, rows, events, signals, queues, judge, consumer, faults>>

SendJob(s) ==
  /\ api[s].pc = "committed"
  /\ jobs' = [jobs EXCEPT ![s] = Sent]
  /\ api'  = [api EXCEPT ![s].pc = "sent"]
  /\ UNCHANGED <<database, signals, verdicts, body, judge, consumer, faults>>

ApiReadSeq(s) ==
  /\ api[s].pc = "sent"
  /\ api' = [api EXCEPT ![s] = [pc |-> "insert", seq |-> Len(events) + 1]]
  /\ UNCHANGED <<database, signals, queues, judge, consumer, faults>>

\* the unique key (session_id, seq) rejects a seq that was taken meanwhile
ApiInsertEvent(s) ==
  /\ api[s].pc = "insert"
  /\ \/ /\ api[s].seq = Len(events) + 1
        /\ events' = Append(events, Event("submission", s, None))
        /\ api' = [api EXCEPT ![s] = [pc |-> "done", seq |-> 0]]
     \/ /\ api[s].seq # Len(events) + 1
        /\ api' = [api EXCEPT ![s] = [pc |-> "failed", seq |-> 0]]
        /\ UNCHANGED events
  /\ UNCHANGED <<kind, status, summary, rows, signals, queues, judge, consumer, faults>>

ApiFails(s) ==
  /\ api[s].pc \in {"committed", "sent", "insert"}
  /\ Fault
  /\ api' = [api EXCEPT ![s] = [pc |-> "failed", seq |-> 0]]
  /\ UNCHANGED <<database, signals, queues, judge, consumer>>

-----------------------------------------------------------------------------
(* A judge worker: receive one job, run it, send the verdict, delete the   *)
(* job.  Any exception leaves the job to its visibility timeout.           *)

ReceiveJob(j, s) ==
  /\ judge[j].pc = "idle"
  /\ CanReceive(jobs[s])
  /\ jobs'  = [jobs EXCEPT ![s] = Received(jobs[s])]
  /\ judge' = [judge EXCEPT ![j] = [pc |-> "judging", sub |-> s,
                                    receipt |-> jobs[s].receives + 1]]
  /\ UNCHANGED <<database, signals, verdicts, body, api, consumer, faults>>

SendVerdict(j) ==
  LET s  == judge[j].sub
      id == <<s, judge[j].receipt>>
  IN  /\ judge[j].pc = "judging"
      /\ \E outcome \in Outcomes[s] : body' = [body EXCEPT ![id] = ReportOf(s, outcome)]
      /\ verdicts' = [verdicts EXCEPT ![id] = Sent]
      /\ judge'    = [judge EXCEPT ![j].pc = "sent"]
      /\ UNCHANGED <<database, signals, jobs, api, consumer, faults>>

DeleteJob(j) ==
  LET s == judge[j].sub
  IN  /\ judge[j].pc = "sent"
      /\ \E m \in AfterDelete(jobs[s], judge[j].receipt) : jobs' = [jobs EXCEPT ![s] = m]
      /\ judge' = [judge EXCEPT ![j] = IdleJudge]
      /\ UNCHANGED <<database, signals, verdicts, body, api, consumer, faults>>

JudgeFails(j) ==
  /\ judge[j].pc # "idle"
  /\ Fault
  /\ judge' = [judge EXCEPT ![j] = IdleJudge]
  /\ UNCHANGED <<database, signals, queues, api, consumer>>

-----------------------------------------------------------------------------
(* A verdict consumer: receive a batch, then for each message load the     *)
(* submission, persist the report, append the event, signal the difficulty *)
(* engine, delete the message.                                             *)

ReceiveVerdicts(c) ==
  /\ consumer[c].pc = "idle" /\ consumer[c].held = {}
  /\ \E batch \in SUBSET {id \in VerdictIds : CanReceive(verdicts[id])} :
        /\ batch # {} /\ Cardinality(batch) <= BatchSize
        /\ verdicts' = [id \in VerdictIds |-> IF id \in batch THEN Received(verdicts[id])
                                                              ELSE verdicts[id]]
        /\ consumer' = [consumer EXCEPT ![c].held =
                           {<<id, verdicts[id].receives + 1>> : id \in batch}]
  /\ UNCHANGED <<database, signals, jobs, body, api, judge, faults>>

\* a submission that is already terminal needs nothing but the delete
LoadSubmission(c, d) ==
  /\ consumer[c].pc = "idle"
  /\ d \in consumer[c].held
  /\ consumer' = [consumer EXCEPT ![c] =
        [pc      |-> IF Graded(d[1][1]) THEN "delete" ELSE "persist",
         held    |-> consumer[c].held \ {d},
         cur     |-> d[1],
         receipt |-> d[2],
         seq     |-> 0]]
  /\ UNCHANGED <<database, signals, queues, api, judge, faults>>

\* rows that exist stay, the summary is overwritten
PersistVerdict(c) ==
  LET id == consumer[c].cur
      s  == id[1]
  IN  /\ consumer[c].pc = "persist"
      /\ rows'    = [rows EXCEPT ![s] = Upserted(s, body[id].cases)]
      /\ status'  = [status EXCEPT ![s] = body[id].status]
      /\ summary' = [summary EXCEPT ![s] = SummaryOf(body[id])]
      /\ consumer' = [consumer EXCEPT ![c].pc = "persisted"]
      /\ UNCHANGED <<kind, events, signals, queues, api, judge, faults>>

ConsumerReadSeq(c) ==
  /\ consumer[c].pc = "persisted"
  /\ consumer' = [consumer EXCEPT ![c].pc = "insert", ![c].seq = Len(events) + 1]
  /\ UNCHANGED <<database, signals, queues, api, judge, faults>>

\* a taken seq is an exception: the message is left for redelivery
ConsumerInsertEvent(c) ==
  LET id == consumer[c].cur
      s  == id[1]
  IN  /\ consumer[c].pc = "insert"
      /\ \/ /\ consumer[c].seq = Len(events) + 1
            /\ events' = Append(events, Event("verdict", s, SummaryOf(body[id])))
            /\ consumer' = [consumer EXCEPT
                  ![c].pc = IF kind[s] = "submit" THEN "signal" ELSE "delete"]
         \/ /\ consumer[c].seq # Len(events) + 1
            /\ consumer' = [consumer EXCEPT ![c] = Released(c)]
            /\ UNCHANGED events
      /\ UNCHANGED <<kind, status, summary, rows, signals, queues, api, judge, faults>>

\* whatever goes wrong with the signal is caught and logged
SignalDifficulty(c) ==
  LET s == consumer[c].cur[1]
  IN  /\ consumer[c].pc = "signal"
      /\ signals' \in {signals, [signals EXCEPT ![s] = signals[s] + 1]}
      /\ consumer' = [consumer EXCEPT ![c].pc = "delete"]
      /\ UNCHANGED <<database, queues, api, judge, faults>>

DeleteVerdict(c) ==
  LET id == consumer[c].cur
  IN  /\ consumer[c].pc = "delete"
      /\ \E m \in AfterDelete(verdicts[id], consumer[c].receipt) :
            verdicts' = [verdicts EXCEPT ![id] = m]
      /\ consumer' = [consumer EXCEPT ![c] = Released(c)]
      /\ UNCHANGED <<database, signals, jobs, body, api, judge, faults>>

\* an exception on one message; the loop continues with the next
ConsumerFails(c) ==
  /\ consumer[c].pc \in {"persist", "persisted", "insert"}
  /\ Fault
  /\ consumer' = [consumer EXCEPT ![c] = Released(c)]
  /\ UNCHANGED <<database, signals, queues, api, judge>>

\* receive and delete are outside the try: an error there ends the loop, and
\* the replica goes on without a consumer
ConsumerEnds(c) ==
  /\ SqsErrors
  /\ \/ consumer[c] = IdleConsumer
     \/ consumer[c].pc = "delete"
  /\ Fault
  /\ consumer' = [consumer EXCEPT ![c] = EndedConsumer]
  /\ UNCHANGED <<database, signals, queues, api, judge>>

\* the replica stops, loses the whole batch and starts again
ConsumerStops(c) ==
  /\ consumer[c] # IdleConsumer
  /\ Fault
  /\ consumer' = [consumer EXCEPT ![c] = IdleConsumer]
  /\ UNCHANGED <<database, signals, queues, api, judge>>

-----------------------------------------------------------------------------
(* The queues' own steps.  A delivery whose receiver still works on it     *)
(* times out only as a fault: the timeout is meant to exceed the work.     *)

JobTimeout(s) ==
  /\ jobs[s].state = "inflight"
  /\ \/ ~JobHeld(s) /\ UNCHANGED faults
     \/ JobHeld(s) /\ Fault
  /\ jobs' = [jobs EXCEPT ![s] = TimedOut(jobs[s])]
  /\ UNCHANGED <<database, signals, verdicts, body, api, judge, consumer>>

VerdictTimeout(id) ==
  /\ verdicts[id].state = "inflight"
  /\ \/ ~VerdictHeld(id) /\ UNCHANGED faults
     \/ VerdictHeld(id) /\ Fault
  /\ verdicts' = [verdicts EXCEPT ![id] = TimedOut(verdicts[id])]
  /\ UNCHANGED <<database, signals, jobs, body, api, judge, consumer>>

DeadLetterJob(s) ==
  /\ Exhausted(jobs[s])
  /\ jobs' = [jobs EXCEPT ![s] = DeadLettered(jobs[s])]
  /\ UNCHANGED <<database, signals, verdicts, body, api, judge, consumer, faults>>

DeadLetterVerdict(id) ==
  /\ Exhausted(verdicts[id])
  /\ verdicts' = [verdicts EXCEPT ![id] = DeadLettered(verdicts[id])]
  /\ UNCHANGED <<database, signals, jobs, body, api, judge, consumer, faults>>

\* nothing is left to do: not a deadlock
Quiescent ==
  /\ \A s \in Submissions : /\ api[s].pc \in {"done", "failed"}
                            /\ jobs[s].state \in {"unsent", "deleted", "dead"}
  /\ \A id \in VerdictIds : verdicts[id].state \in {"unsent", "deleted", "dead"}
  /\ \A j \in Judges : judge[j] = IdleJudge
  /\ \A c \in Consumers : consumer[c] \in {IdleConsumer, EndedConsumer}
  /\ UNCHANGED vars

-----------------------------------------------------------------------------
ApiStep(s) == \/ \E mode \in {"submit", "run"} : CreateSubmission(s, mode)
              \/ SendJob(s) \/ ApiReadSeq(s) \/ ApiInsertEvent(s) \/ ApiFails(s)

JudgeStep(j) == \/ \E s \in Submissions : ReceiveJob(j, s)
                \/ SendVerdict(j) \/ DeleteJob(j) \/ JudgeFails(j)

ConsumerStep(c) ==
  \/ ReceiveVerdicts(c)
  \/ \E d \in consumer[c].held : LoadSubmission(c, d)
  \/ PersistVerdict(c) \/ ConsumerReadSeq(c) \/ ConsumerInsertEvent(c)
  \/ SignalDifficulty(c) \/ DeleteVerdict(c)
  \/ ConsumerFails(c) \/ ConsumerEnds(c) \/ ConsumerStops(c)

QueueStep == \/ \E s \in Submissions : JobTimeout(s) \/ DeadLetterJob(s)
             \/ \E id \in VerdictIds : VerdictTimeout(id) \/ DeadLetterVerdict(id)

Next == \/ \E s \in Submissions : ApiStep(s)
        \/ \E j \in Judges : JudgeStep(j)
        \/ \E c \in Consumers : ConsumerStep(c)
        \/ QueueStep
        \/ Quiescent

Spec == Init /\ [][Next]_vars

(***************************************************************************)
(* Fairness: the event loop resumes a request that has begun, the worker   *)
(* and consumer loops run while their process is up, and the queue service *)
(* honours its timeouts.  Nobody is obliged to submit, and nothing is      *)
(* obliged to fail.                                                        *)
(***************************************************************************)
Fairness ==
  /\ \A s \in Submissions :
        /\ WF_vars(SendJob(s) \/ ApiReadSeq(s) \/ ApiInsertEvent(s))
        /\ WF_vars(~JobHeld(s) /\ JobTimeout(s))
        /\ WF_vars(DeadLetterJob(s))
  /\ \A id \in VerdictIds : WF_vars(~VerdictHeld(id) /\ VerdictTimeout(id))
  /\ \A j \in Judges :
        WF_vars((\E s \in Submissions : ReceiveJob(j, s)) \/ SendVerdict(j) \/ DeleteJob(j))
  /\ \A c \in Consumers :
        WF_vars(\/ ReceiveVerdicts(c)
                \/ \E d \in consumer[c].held : LoadSubmission(c, d)
                \/ PersistVerdict(c) \/ ConsumerReadSeq(c) \/ ConsumerInsertEvent(c)
                \/ SignalDifficulty(c) \/ DeleteVerdict(c))

FairSpec == Spec /\ Fairness

-----------------------------------------------------------------------------
(* Properties *)

EventRow == [type : {"submission", "verdict"}, sub : Submissions,
             summary : {None, "CE"} \cup CaseVerdict]
ApiState == [pc  : {"idle", "committed", "sent", "insert", "done", "failed"},
             seq : Nat]
JudgeState == [pc  : {"idle", "judging", "sent"},
               sub : Submissions \cup {None}, receipt : 0..MaxReceives]
ConsumerState ==
  [pc   : {"idle", "persist", "persisted", "insert", "signal", "delete", "ended"},
   held : SUBSET (VerdictIds \X Runs), cur : VerdictIds \cup {None},
   receipt : 0..MaxReceives, seq : Nat]

\* Types of the rows, the queues and the control state of every process.
TypeOK ==
  /\ kind     \in [Submissions -> {None, "submit", "run"}]
  /\ status   \in [Submissions -> {None, "QUEUED"} \cup Terminal]
  /\ summary  \in [Submissions -> {None, "CE"} \cup CaseVerdict]
  /\ rows     \in [Submissions -> [Ordinals -> CaseVerdict \cup {"none"}]]
  /\ events   \in Seq(EventRow)
  /\ signals  \in [Submissions -> Nat]
  /\ jobs     \in [Submissions -> Message]
  /\ verdicts \in [VerdictIds -> Message]
  /\ body     \in [VerdictIds -> Report \cup {None}]
  /\ api      \in [Submissions -> ApiState]
  /\ judge    \in [Judges -> JudgeState]
  /\ consumer \in [Consumers -> ConsumerState]
  /\ faults   \in 0..MaxFaults

\* The queues never swallow a submission: whatever fails or is delivered
\* twice, a job is gone from the submissions queue only when its result is
\* stored or a verdict for it still sits in the verdicts queue or its DLQ
\* (delete-after-success in judge/worker.py and exam/messaging/consumer.py).
NothingLost ==
  \A s \in Submissions : jobs[s].state = "deleted" =>
     \/ Graded(s)
     \/ \E n \in Runs : verdicts[<<s, n>>].state \in {"visible", "inflight", "dead"}

\* A stored result is one report of the judge, never a mixture: status,
\* summary verdict and case rows come from the same run, although a job may
\* be judged several times and rows are kept while the summary is
\* overwritten (process_verdict_message).
ResultIsOneReport ==
  \A s \in Submissions : Graded(s) =>
     \E n \in Runs : LET r == body[<<s, n>>]
                     IN  /\ r # None /\ status[s] = r.status
                         /\ summary[s] = SummaryOf(r) /\ rows[s] = r.cases

\* A graded submission never changes again: "the submission transitions to a
\* terminal state only once" (services/verdicts.py).
ResultIsFinal ==
  [][\A s \in Submissions : Graded(s) =>
        /\ status'[s] = status[s] /\ summary'[s] = summary[s] /\ rows'[s] = rows[s]]_vars

\* The session log agrees with the submission rows: at most one verdict event
\* per submission, and it announces the stored summary; the difficulty engine
\* hears of a submission at most once.
LogAgreesWithResult ==
  /\ \A i, j \in DOMAIN events :
        /\ events[i].type = "verdict" =>
              Graded(events[i].sub) /\ events[i].summary = summary[events[i].sub]
        /\ events[i] = events[j] => i = j
  /\ \A s \in Submissions : signals[s] <= (IF Logged("verdict", s) THEN 1 ELSE 0)

\* Every job that was sent is graded (messaging/consumer.py: the loop
\* "long-polls the verdicts queue and persists each message").
JobsGetGraded == \A s \in Submissions : jobs[s].state # "unsent" ~> Graded(s)

\* While there are fewer failures than permitted receives and no consumer's
\* loop has ended, every job that was sent is graded, under the fairness above
\* (redelivery in both worker loops).
JobsGetGradedWhileUp ==
  [](faults < MaxReceives /\ \A c \in Consumers : consumer[c].pc # "ended")
     => JobsGetGraded

(***************************************************************************)
(* The abstract view: a submission row is accepted, then graded once with  *)
(* a result whose summary belongs to its case rows.                        *)
(***************************************************************************)
Result(st, su, ro) == [status |-> st, summary |-> su, rows |-> ro]
CoherentResults ==
  {r \in [status : Terminal, summary : {"CE"} \cup CaseVerdict,
          rows : [Ordinals -> CaseVerdict \cup {"none"}]] :
     r.summary = SummaryOf([status |-> r.status, cases |-> r.rows])}
NotGraded == Result(None, None, None)

phaseBar  == [s \in Submissions |->
                IF Graded(s) THEN "graded"
                ELSE IF status[s] = "QUEUED" THEN "queued" ELSE "none"]
resultBar == [s \in Submissions |->
                IF Graded(s) THEN Result(status[s], summary[s], rows[s]) ELSE NotGraded]

GO == INSTANCE GradeOnce WITH Results <- CoherentResults, NoResult <- NotGraded,
                              phase <- phaseBar, result <- resultBar

\* With a single verdict consumer the pipeline implements GradeOnce.
GradesOnce == GO!Spec
=============================================================================
