# A formal model of dsa_platform

TLA+ modules, TLC configurations and TLAPS proofs for the platform in
`src/services` and the pages in `src/frontend` that keep state of their own: an
exam service, a question service, an AI service, a judge and a gateway, all
Python, with PostgreSQL, Redis and SQS between them, and a React client. Paths
below are relative to the repository; `exam/` stands for
`src/services/exam/app/`, `question/`, `ai/`, `judge/` and `gateway/` likewise,
`frontend/` for `src/frontend/src/`.

What makes this system hard is not any single handler, each of which is a few
straight lines, but what happens between them. All services run PostgreSQL at
READ COMMITTED and never lock a row (no `SELECT ... FOR UPDATE` anywhere), so
what a request has read may be outdated when it writes. A handler mixes
database commits, HTTP calls, Redis writes and SQS sends, and may stop between
any two of them. SQS delivers at least once and in no order. The production
plan (`infra/terraform/envs/prod`) runs two replicas of a service. The pages
show what a query cache kept from earlier answers.

## Inventory

| Component | State | Operations | Interacts with | What is hard | What makes it correct | Module |
|---|---|---|---|---|---|---|
| Grading pipeline: `exam/services/submissions.py`, `judge/worker.py`, `exam/services/verdicts.py`, `exam/messaging/consumer.py` | `submissions`, `case_verdicts`, two queues | submit, judge, persist a verdict | SQS, Redis pub/sub, AI service (difficulty signal) | redelivery, a job judged twice, two consumers, failures between commit, event, signal and delete | a job is never lost; a result is one report of the judge and final; the log agrees with it | `Grading` |
| Message queues: the services' `sqs.py`, `infra/terraform/modules/sqs` | messages, receive counts | send, receive, delete, time out, redrive | all consumers | at-least-once, unordered | nothing vanishes silently | `Sqs` |
| Session event log: `exam/services/session_events.py`, `exam/ws/`, `gateway/ws_proxy.py`, `frontend/api/candidateSocket.ts` | `session_events`, unique (session, seq); subscriptions | append, publish, subscribe, forward, snapshot | every writer of a session, proctors | seq read before the insert, published after the commit, subscribed after the accept | a live view is the log | `SessionStream`, `Grading` |
| Question versions: `question/services/questions.py`, `test_cases.py` | `questions`, `question_versions`, `test_cases` | create, edit, add and delete test case, publish | exam service pins versions | copy-on-write decided on stale pointers | published and pinned versions never change; no acknowledged test case is lost | `QuestionVersions` |
| Exam sessions: `exam/services/sessions.py` | `exam_sessions`, `session_questions`, Redis mirror | start, resume, view, submit, lazy expiry | question service, evaluation queue | clock, awaits between check and write, crash between commit and send | nothing is accepted after the deadline; an ended session is evaluated | `ExamSession` |
| Live follow-ups: `exam/services/followups.py` | a draft version, `session_questions` | fork, generate tests, publish, re-point, announce | question service, AI service | five remote calls without a transaction; authors at work on the same draft | the candidate is on a sealed version with the pushed constraint and its cases | `Followup` |
| Test-case factory: `ai/services/testcase_generation.py` | `test_case_generation_jobs`, reply queues | generate, judge, attach | judge, question service | finalize is not idempotent, a sync caller that gives up, a shared consumer | agreeing cases are attached, once | `Factory` |
| Question generation: `ai/services/generation.py`, `gen_consumer.py`, `judge/gen_worker.py` | `generation_jobs` | generate, validate, retry, finalize | LLM, judge, question service | redelivered results, bounded attempts | questions only from solutions that agreed; every job ends | `Generation` |
| Mode-2 scheduling: `exam/services/ai_scheduling.py`, `scheduling.py` | `exams`, `exam_slot_questions` | schedule, refresh, regenerate, confirm, invite | AI service, invites | refresh, regenerate and confirm race on copies of rows; the invite is sent before the exam is scheduled | a scheduled exam has all its slots and one invite | `AiScheduling` |
| Invites, candidate exchange: `exam/services/candidate_auth.py`, `frontend/routes/InvitePage.tsx` | Redis `jti`, `invites` | invite, consume, exchange | Redis, PostgreSQL, Google | two stores, one consumption | a key buys one token | `CandidateAccess` |
| Evaluation and hiring report: `ai/services/session_evaluation_consumer.py`, `hiring_report_consumer.py`, `exam/api/routes/internal.py` | `session_evaluations`, `hiring_reports`, cached columns | evaluate, report, attach, mail | two queues, exam service, LLM | duplicates, verdicts still pending, an attach that timed out | two copies agree; every ended session gets a report | `Evaluation` |
| Examiner authentication: `exam/services/auth.py`, `examiners.py`, `frontend/api/examiner/client.ts`, `RegisterPage`, `LoginPage` | `examiners`, `refresh_tokens`, the tab's storage | register, enrol, sign in, rotate, revoke, sign out | PostgreSQL, gateway | overlapping registrations; rotation of one token twice, lost replies | one account per address; one successor per token | `SignUp`, `ExaminerAuth` |
| Blueprints and sampling: `exam/services/blueprints.py`, `sampling.py`, `TopicMixEditor` | `blueprints`, versions | create, update, propose, pin, draw | question service, LLM | overlapping edits, pools smaller than asked | a pinned mix never changes; no question twice | `Blueprints`, `BlueprintPage` |
| Topic tree: `question/services/topics.py` | `topics` | create, move, delete | questions | cycle check on stale rows | the tree stays a tree | `Topics` |
| Difficulty engine: `ai/services/difficulty.py`, `ai/difficulty/rules.py` | a Redis value per session, a cached column | apply a signal | exam service | read-modify-write in Redis, a client that gives up | the copies agree | `Difficulty` |
| Gateway: `gateway/main.py`, `routing.py`, `auth.py`, `rate_limit.py` | Redis counters | route, authorise, count, forward | all services | INCR and EXPIRE are two calls | nobody exceeds the limit; nothing internal gets through | `Gateway` |
| Sandbox: `judge/runner.py`, `gen_runner.py`, `exec_common.py`, `runners/entrypoint.py` | none | run, classify, compare | both judge lanes | what one lane keeps the other must accept | an agreed output is accepted | `Judging` |
| Background tasks of the AI service: `ai/services/generation.py`, `ingestion.py`, `ai/llm/client.py`, `ai/generation/` | `candidate_profiles`, drafts | draft, validate, generate inputs, ingest | LLM, S3, GitHub | retries, half-open bounds, a restart | inputs fit what the draft declares | `Drafting` |
| Scoring helpers: `ai/evaluation/` | `behavioural_signals` | score, classify | evaluation | loops over lists with pending entries | signals are what they say | `Scoring` |
| Candidate's page: `frontend/routes/ExamRoomPage.tsx`, `api/candidate.ts` | query cache, drafts in the tab | select, type, run, submit, reload | exam service | answers that arrive late or for another question | nothing typed is lost or sent for another question | `ExamRoom` |
| Author's page: `QuestionEditorPage.tsx` | form, query cache | open, edit, save, publish, upload | question service, S3 | a form seeded once from an old copy | an unsaved edit is kept; a settled form is what is stored | `QuestionEditor` |

## Modules

Each component module has its constants with their assumptions, variables,
an initial predicate, one action per operation or step, and its properties with
comments. Steps of a handler are separate actions exactly where somebody else
can act in between: at an `await` on another service or store, between two
transactions, at a callback. A database transaction is one action, because
concurrent writers of the same rows wait for each other's commit through the
unique keys; a read of an earlier transaction is an action of its own. Some
modules define a faulty variant of a step next to the step; no specification
uses it, it only shows that a property tells the two apart.

Composition is by extension where one component's steps occur inside another's:

    Sqs <- Grading, Generation, Evaluation, Factory
    Factory <- Followup              (a push runs a factory job, on the same question)
    AiScheduling <- CandidateAccess  (an exchange consumes the invite a confirmation sent)
    GradeOnce, QuestionHistory       abstract; Grading and QuestionVersions instantiate
                                     them with a refinement mapping

`MCGrading`, `MCQuestionVersions`, `MCExamSession`, `MCGeneration`,
`MCFollowup`, `MCEvaluation`, `MCScheduling` and `MCServices` are the instances for TLC;
`Grading_proofs`, `QuestionVersions_proofs`, `ExamSession_proofs`,
`Generation_proofs`, `Followup_proofs`, `Evaluation_proofs`,
`CandidateAccess_proofs` and `Services_proofs` hold the proofs. `MCServices` joins thirteen components that
share nothing with each other: the variable `part` is chosen once, so the state
space is their sum. `MCFollowup` and `MCScheduling` choose a scene in the same
way, that is, who may overlap with whom.

### Grading

The variables `kind`, `status`, `summary`, `rows` and `events` are the columns
of `submissions`, the `case_verdicts` rows and the session's `session_events`;
`jobs`, `verdicts` and `body` the two queues; `signals` counts the calls the
AI service received; `api`, `judge` and `consumer` hold where a request, a judge
worker or a consumer loop is and what it has read. `api[s]` is the request that
makes submission `s`.

`process_verdict_message` is `LoadSubmission`, `PersistVerdict`,
`ConsumerReadSeq`, `ConsumerInsertEvent`, `SignalDifficulty`, and
`run_verdict_consumer` adds `ReceiveVerdicts`, `DeleteVerdict`, `ConsumerFails`
(an exception inside the try), `ConsumerEnds` (one outside it) and
`ConsumerStops` (the replica restarts). The next `seq` of the event log is read
in one step and used in a later one, and a unique key refuses it if it was taken
meanwhile. How the judge reaches a report is a choice from `Outcomes`.

An action that can only happen by failure, or because a delivery outlives its
visibility timeout while somebody works on it, counts against `MaxFaults`. A
timeout of a message nobody works on any more is free.

### QuestionVersions

`versions[n]` is the row with `version_number` n, with its text and the test
cases that refer to it. Contents are written down by who wrote them: `text` is
the request that wrote the content columns last, `cases[o]` the request whose
upload is at ordinal o. `current` and `published` are the two pointers of the
question row as version numbers, `pinned` the versions `session_questions`
refers to.

A request is one transaction, and one action per statement group: `ReadQuestion`
(the question row; a publication of what is published is refused here),
`FindCase` (delete), `LoadVersion` (`ensure_mutable_version`), `PickOrdinal`
(add), a commit, or `Fails` at any point. What it has read stays in `req[r]`; at
commit it applies to the rows as they are then, as `UPDATE` by primary key does.
A copy takes the version number after the one it read, which the unique key
(question, version_number) grants once. With `Concurrent = FALSE` requests
follow each other, which separates what copy-on-write guarantees from what
overlap breaks.

### ExamSession

`row` is the `exam_sessions` row, reduced to its status and deadline, `shown`
the `shown_at` of one question, `now` the clock of the service in units of the
page's refetch interval (30 s, `frontend/api/candidate.ts`). `req[r]` is a
request in progress with the copy of the row it holds: the ORM session returns
that same object for the rest of the request, so a later read of the request
does not refresh it (`expire_on_commit=False`, identity map).

`start_session` is `StartSession` (reads), then `CommitSession` (samples by
remote calls and inserts; the unique `exam_id` refuses a second session) or the
lock check of a resume. `_lock_if_expired` is `Lock` (the commit),
`SendSessionComplete` (mirror and send) or, if the time is not over,
`PassLockCheck`, after which a submission waits for the question service before
`CommitSubmission`. `get_question_content` is `ReadQuestion` and `MarkShown`.
`Fails` ends a request anywhere. Candidate tokens are valid for the window of
the exam only (`TokenValid`), which decides who can still trigger the lock.
What happens to an accepted submission afterwards is `Grading`. The Redis mirror
of the row is written and never read by any service; it is left out.

### Generation

`status`, `attempt`, `solution` and `question` are columns of the
`generation_jobs` row; the two solution texts are reduced to the attempt they
were written for. `created[j]` lists the questions the question service made for
job j, each by the solutions of that moment. `diffs` is the judge-gen queue with
one message per attempt, `results` the result queue with one message per run of
the judge, `body` what each carries. `task[j]` is the detached task of
`start_generation`, `worker[w]` a judge-gen process, `consumer` the one result
consumer with the batch it holds and the report it works on.

The task is `BeginDraft`, `Draft` (static validation rejects or attempt 1 is
committed), `StoreSolutions` and `SendDiff`, the two halves of
`_submit_attempt`; `TaskFails` is the `except` around all of it. A worker is
`ReceiveDiff`, `SendResult`, `DeleteDiff`, or `WorkerFails`.
`process_gen_result` is `ProcessResult` (the attempt check and the decision,
which for a retry commits the new attempt number), then `CreateQuestion` and
`RecordSuccess` (`finalize_success`: a remote call, then the commit), or
`ResubmitSolutions` and `ResendDiff` (`retry_attempt`), then `DeleteResult`.
`ConsumerFails`, `ConsumerEnds` and `AiStops` are an exception inside the try,
one outside it, and a restart of the service.

What the language model writes and what the containers print is a choice from
`Reports[j]`, made anew in each run of the judge, so two runs of one job may
disagree. There is one ai service, as in `infra/docker-compose.yml`, which is
the only place that deploys it. It creates its queues itself, without a redrive
policy (`ai/messaging/sqs.py`), so `MaxReceives` is here a bound of the model and
must be larger than the number of failures.

### Factory and Followup

`question` is what the question service keeps: versions as the set of their
cases with the last writer of the text, and the number of the published one. Its
operations are single steps here, because `QuestionVersions` shows how they
behave inside. `status`, `inputs` and `kept` are a factory job's
columns, `diff` its message to judge-gen, `run` the task or request that works on
it, `filled` the cases whose two files arrived in S3. judge-gen deletes a diff job
after it has sent the report, so a job may be judged again, with another outcome
(`JudgeAgain`, which takes a failure): `report` and `result` hold the report and
its message by try. An asynchronous job's task ends when its diff job is
sent, and the result consumer finalizes; a synchronous one polls its reply queue
itself until `PollTimesOut`. Finalizing creates row and files
case by case and asks nothing about what is there, so a redelivery, or the report
of a second try, attaches the cases again: `KeptIsAttached` bounds the copies by
the failures.

`push[p]` is the request of a proctor: `DraftFollowup`, `CallFactory`,
`FactoryAnswers`, `FactoryUnreachable` (the call fails before a job starts, which
`push_followup` swallows) or `FactoryCallTimesOut` (the exam service goes on and
the factory keeps working), `PublishFollowup`, `RepointSession`,
`AnnounceFollowup`; `PushFails` anywhere. `pin` is the version the session's
question is graded against and `announced` the events candidates saw.
`AuthorEdits` and `AuthorPublishes` are everyone else.

### AiScheduling and CandidateAccess

`exam` and `slot` are the rows, `job` the jobs at the AI service, `invite` the
three places an invite lives in: the Redis key, the row, the mail. A request
holds the copies it read (`read`) and what it made of them (`copy`); a commit
writes the columns that differ between the two onto whatever the rows are by
then (`Flushed`). `stale` records that such a commit hit rows changed meanwhile,
which the properties need as an excuse and the violation run as its point. `refresh_ai_exam` is
`ReadExam`, `PollJob` per pending slot, `CommitRefresh`; `confirm_exam` is
`Decide`, `SetKey`, `CommitInvite`, `MailInvite`, `CommitScheduled`, in that
order; `regenerate_slot` is `LoadSlot`, `GenerateAgain`, `CommitReset`.

`exchange[x]` is a request of the candidate: `VerifyIdentity`, `ConsumeKey`
(GETDEL) or `KeyIsGone`, `MarkConsumed`, `IssueToken`; `WindowEnds` expires key
and link together.

### Evaluation

`notice` and `done` are the two queues of the AI service, `evaluator` and
`reporter` its consumer loops with the message they hold, `rows`, `report` the
tables, `cached` and `told` the exam service's copy and the mail to reviewers,
`posts` the attach requests under way, which go on at the exam service when the
AI service stops waiting (`AttachTimesOut`). `verdict` is what the judge has
said of each question's last submission; `Graded` may come at any time. The
assessment and the narrative of the model are free choices, made anew whenever a
message is delivered again.

### The parts of MCServices

- `SessionStream`: emitters read the next number, insert, commit, publish; a
  viewer's socket is accepted, then subscribed, and forwards to the page.
- `ExaminerAuth`: the row of each refresh token, refresh calls at the server,
  and the tab with the one refresh its refused requests share.
- `SignUp`: who got the row of the one address, whose organisation exists, and
  which secret each applicant has in sight.
- `Topics`: the parent of each topic; a move walks up one row at a time.
- `Gateway`: a counter per identity and window with or without a time to live;
  a request between INCR, EXPIRE and the forward.
- `Blueprints`: version rows, edits that hold the version they read, the pinned
  version and the draw. `BlueprintPage`: the form, what
  was sent of it (the lengths of its three texts as empty, fitting or too long) and
  the server's answer.
- `Difficulty`: Redis' value and the exam service's copy, in half steps, with
  the rules as functions.
- `Judging`: the generation lane keeps what two solutions agree on, then the
  live lane judges submissions against it. Outputs are short byte sequences.
- `Drafting`: a background task with its calls of the model; the declaration of
  the inputs and everything that can be generated from it.
- `Scoring`: the list of submissions and the program text grow one entry at a
  time next to what a careful reader would know of them.
- `ExamRoom`: the query cache, the tab's storage and the editor of the
  candidate's page, next to the server's version of each question.
- `QuestionEditor`: the form, the cached copy, one save and one upload under
  way, next to the question and the objects of its test cases.

## Runs

Bounds are chosen so that every interleaving named in the table happens; TLC's
coverage shows that between them the runs take every action and every disjunct
of the next-state relations.

| Run | Expect | Instance | What it shows |
|---|---|---|---|
| `grading_one_consumer` | pass | fair, 1 submission, 2 judges, 1 consumer, 2 faults, 2 receives, queue errors | a submission judged twice with different reports, or by a consumer that dies, is stored as one whole report (`ResultIsOneReport`), and the pipeline implements `GradeOnce` (`GradesOnce`); the queues lose nothing (`NothingLost`); log and signals agree with the row (`LogAgreesWithResult`); a sent job is graded as long as the consumer's task lives and failures leave it a receive (`JobsGetGradedWhileUp`) |
| `question_serial` | pass | 5 requests in sequence, 2 ordinals | history is kept (`KeepsHistory`), cases survive (`AddedCasesSurvive`) |
| `question_concurrent` | pass | 5 overlapping requests, 1 ordinal, drafts pinned | one working copy, the latest version (`CurrentIsLatest`); nobody writes a pinned version that he found published (`PinnedIsFrozen`) |
| `session_requests` | pass | 2 overlapping requests, 1 failure, page open, fair | late requests submit nothing (`LateRequestsRefused`), only sessions that are over are locked and announced (`AnnouncedWhenOver`), one deadline and no unlocking (`OneDeadline`), a session that ends before its window is announced unless a request failed (`EarlyEndIsAnnounced`), and only overlapping first views move a question's time budget (`OnlyOverlappingViewMovesBudget`) |
| `session_window_end` | violation | page open, fair, no failure | a session that ends with the window is never announced (`EveryEndIsAnnounced`) |
| `generation_faults` | pass | fair, 1 job, 2 workers, 3 attempts, 3 receives, 1 failure of a worker or late delete, 1 of the ai service | questions are made only from solutions that agreed (`QuestionsAgreed`), an attempt is spent only on a disagreement (`AttemptsAreSpentOnDisagreement`), a winner is replaced only if its job was judged twice (`WinnerIsKeptUnlessJudgedTwice`), every job ends while the ai service does not fail (`JobsFinish`) |
| `followup_pushes` | pass | fair; scenes of two pushes, a push next to an author, to an asynchronous job or to 2 failures, and a job next to an author and 2 failures; 2 candidate inputs | a job that succeeded counts the cases of a report that is on the question, files included unless something failed, and a case is there at most once more than there were failures (`KeptIsAttached`); what a push announces is complete (`AnnouncedVersionIsComplete`), sealed, and what the session is graded against (`AnnouncedIsGraded`); pushes and jobs end (`NobodyWaitsForEver`) |
| `evaluation` | pass | fair, 2 questions, a notice delivered up to twice, 1 failure, 1 attach request timed out on | a report covers every question, and its two copies and the mail agree when all is settled (`CopiesAgree`); examiners get one (`ReportArrives`) |
| `evaluation_pending_verdict` | violation | the same | an accepted submission is reported with almost no credit (`EvidenceIsReliable`) |
| `scheduling` | pass | 2 slots, 3 jobs, 2 requests, 2 exchanges; scenes of one request at a time with a failure, two without, and candidates | a scheduled exam's slots hold what their jobs made (`ScheduledIsReady`), it has exactly one mailed invite (`InvitedOnce`), a key buys one token (`KeyBuysOneToken`) |
| `scheduling_stale_copy` | violation | 2 overlapping requests, no failure | the exam is scheduled, and its candidate admitted, while a slot has no question (`SlotsAreFilled`) |
| `services` | pass | thirteen parts, one at a time | see below |

The properties of `services`, each with the faults and overlaps of its part:

- `ViewersSeeTheLog` (`SessionStream`): once nothing is on its way, a subscribed
  viewer has every event published since it subscribed, each once.
- `RotationIsExact` (`ExaminerAuth`): unless a reply is lost, the edge refuses a
  refresh or a sign-out meets one, nobody is taken for a thief and the one live
  token is the tab's, or on its way to it.
- `TreeStaysATree` (`Topics`): no cycle, unless a move was written over a path
  that had changed since its walk.
- `CountersAreExact`: `EdgeHolds` (`Gateway`), `VersionsAreExact`
  (`Blueprints`) and `BandsAgree` (`Difficulty`).
- `FactoryCasesAreSound`: `InputsFitTheSpec` (`Drafting`) and `KeptCasesAccept`
  (`Judging`), the two ends of making a test case.
- `RoomKeepsItsWork` (`ExamRoom`): text is stored and sent for the question it
  was written for, apart from what is typed or sent while a question loads, and
  an answered submission's version is the one shown, or marked to be fetched
  again.
- `SignalsAreSound` (`Scoring`): the behavioural signals are what a careful
  reader of the submissions would say, unless a verdict was still on its way.
- `ConsoleTellsTheTruth`: `SignUpHolds` (`SignUp`), `EditorHolds`
  (`QuestionEditor`) and `PageAgreesWithServer` (`BlueprintPage`: the form's rules
  for a mix are the server's, which refuses beyond them only a duration of more
  than a day and a name, role or band that is too long).

Five more configurations show counterexamples described under divergences:
`grading_two_replicas` (on `MCGrading`), `question_published_edit` (on
`MCQuestionVersions`), `session_late_submission` (on `MCExamSession`),
`generation_dropped_retry` (on `MCGeneration`) and `room` (on `ExamRoom`, two
invariants: with `-continue` TLC shows a counterexample of each).

### Why the bounds are enough

Two receives are the smallest count with a redelivery; `MaxReceives` is 5 in
Terraform (the default in `modules/sqs/variables.tf`) and no action compares it
with anything but the count. Two cases make a mixture of two reports visible,
one of them a sample tells the two submission modes apart. Five requests are the
shortest sequence that publishes, copies, publishes the copy and edits or
deletes again; overlapping, they let two publications cross between two edits
and leave one to write what became of it. The window 1..4 with a duration of 2 has sessions whose own time
ends first and sessions that the window cuts off; one unit after the window
(`MaxTime`) lets requests admitted before finish. Two requests suffice for every
race of the sessions, each of which is between a request and one other. Three
attempts are the value in `ai/core/config.py`; the reports are one at the
threshold (95 of 100 inputs) and one just below it, since the decision tells no
others apart. Jobs share nothing but the loops that serve them, so one job shows
what a job can suffer. The same properties of `Generation` hold for two attempts,
four receives and two failures of workers (3.6 million states), which takes too
long to run every time.

Two pushes are what can fight for one draft; the scenes leave out triples of
actors, since every race is between a push and one other. Two inputs per job let
some agree and some not. Two slots tell one that is regenerated from one that is
left alone, three jobs are one per slot and one regeneration, two exchanges a
double click. A notice that is delivered twice stands for two notices as well,
because the evaluator keeps nothing between deliveries.

In `services`, two overlapping callers are again the smallest race: emitters,
refreshes, movers, calls, editors, signals. Three topics are the smallest cycle
that two moves can close behind each other's back with a walk between. Three
tokens allow two rotations, so a stale one can be reused. Output caps of 2 and 3
bytes stand for 2000 and 1000000: below, between and above are what the code
distinguishes. `Lengths`, `Values` and the two spreads keep a declared bound, the
default and what lies beyond it apart. Five submissions and six tokens are enough
for a run before, between and after two submits, and for a loop nested in a loop
next to a mention. Three deeds in the room, three edits and two test cases in the
editor allow a change, a visit elsewhere and a change behind it. Weights of 0,
50 and 100 reach a sum of 100 by legal and illegal entries.

Requests of `QuestionVersions`, and requests and exchanges of scheduling, are
declared symmetric for TLC where no liveness is checked; nothing else is. Runs
with `CHECK_DEADLOCK FALSE` are of systems that really come to rest: everybody
has made their bounded number of requests, or the only consumer's task is gone.

### Fairness

`FairSpec` of `Grading` assumes that a request that has begun is resumed by its
event loop, that the worker and consumer loops run while their process is up
(weak fairness on the loop as a whole, since each loop has one next step), and
that SQS makes an expired delivery visible or moves it to the dead-letter
queue. Nobody is obliged to submit and nothing is obliged to fail. `FairSpec` of
`Generation` assumes the same of the drafting tasks, the workers, the consumer
and the queues; nobody is obliged to start a generation.

`FairSpec` of `ExamSession` assumes that time passes, that a request that
arrived is worked on, and, when `PageOpen`, that the refetch of the open page
gets through in every unit of time while the token is valid: `useSession` polls
on a timer of the browser. That last one is strong fairness because the number
of requests at a time is a bound of the model, not of the service. The candidate
is not obliged to do anything else.

`Fairness` of `Followup` assumes that a push and an asynchronous job go on
(client timeouts included); of a synchronous job nothing, since its request may
hang at the model: that pushes end nevertheless is what the timeout is for.
`Fairness` of `Evaluation` assumes that the two loops run, that the exam service
answers, and that SQS returns what nobody deletes.

### Divergences

Between the code and what its documents, comments or tests say. The first three
have a run each; the next eight name the configuration that shows them.

1. `session_window_end`. The deadline is cut at the end of the window, where the
   candidate's token expires too, and the examiner's results pages do not lock:
   nobody is left to trigger the evaluation the design note expects.
2. `evaluation_pending_verdict`. The evaluation starts with the lock and does not
   wait for the judge; a verdict that is still on its way counts as none, with
   severity "none" as 0.1, and the row is never written again, although
   `docs/design-hiring-report.md` calls the evidence reliable.
3. `scheduling_stale_copy`. A confirmation works on copies of the slots; a
   regeneration that commits meanwhile leaves a slot pending in a scheduled
   exam, which `start_session` asserts cannot be.
4. `grading_two_replicas`. `process_verdict_message` reads the submission
   without a lock and writes it without a condition, so two replicas can both
   pass the test of the terminal states; summary and case rows may then come
   from different runs. The docstring promises one terminal transition.
5. `sqs.receive` and `sqs.delete` stand outside the `try` of the consumer loop,
   whose task nobody restarts: `grading_one_consumer` with `JobsGetGraded` in the
   place of `JobsGetGradedWhileUp`.
6. `question_published_edit`. `ensure_mutable_version` decides on pointers read
   earlier; a publication in between makes the edit hit the published row.
7. Sessions of profile-driven exams are pinned to drafts, which the copy-on-write
   rule regards as free to edit until the question is published: `question_serial`
   with `PinnedIsFrozen` and without its last disjunct.
8. `session_late_submission`. `submit` awaits the question service after its
   status test and commits without another one.
9. `generation_dropped_retry`. `retry_attempt` commits the next attempt number
   before it sends that attempt; if the model, S3 or SQS fails in between, the
   redelivered report counts as stale and is deleted, and the job stays in
   validation although the log line says that it "will retry".
10. `room` (`GradedAsShown`). `frontend/api/candidate.ts` keeps a question for ever
    because "question versions are immutable", while a follow-up re-points the
    session: the candidate may submit to a version that is not shown.
11. `room` (`DraftsAreTheirOwn`). Typing or submitting while a question loads stores or sends
    the text of the question before under the new question's key.

The models contain more disagreements; where a property would otherwise fail it
names the case as its exception.

- *Grading.* A verdict is committed before its event, and if the event loses the
  race for the next `seq` the redelivery finds a terminal submission and skips
  it (`ConsumerInsertEvent`, second disjunct). `docs/design-live-proctoring.md`
  says the seq is assigned in the transaction of the write; the code emits after
  the commit.
- *Sessions.* A failure between the commit of the lock and the send of the
  completion message loses the message (`Fails` at `announce`). `mark_shown`,
  documented as a no-op on a question already shown, tests a copy read before a
  remote call.
- *Generation.* `process_gen_result` compares the attempt and not the status, so
  a job that succeeded and is judged a second time may be retried, which replaces
  the solutions `docs/design-question-generation.md` wants kept (`Decide`).
- *Follow-ups and factory.* The comment in `followups.py` says the factory only
  replaces old cases; it adds. A factory that outlives the 35 s of its caller
  attaches to whatever version is current then, forking a draft; a redelivered
  result, or the report of a job that is judged again, attaches its cases again. Two pushes that share a draft end with a 409
  for one of them.
- *Evaluation.* `docs/design-hiring-report.md` describes the upsert as
  `on_conflict_do_nothing`; the code overwrites.
- *Scheduling.* Two confirmations send two invites, after which every GET of the
  exam fails. `schedule_ai_exam` stores the model's mix without the validation
  the docstring of `BlueprintSpec` refers to, so weights need not sum to 100 and
  topics may repeat. The mock proposal divides by zero for an organisation
  without topics.
- *Candidates.* The key is consumed before the row is committed; a failure in
  between locks the candidate out.
- *Examiners.* A rate-limited refresh (it shares the strict budget per IP) or a
  failed one signs the examiner out while the token stays live; a lost reply
  makes the next refresh look like theft; a sign-out during a refresh leaves the
  successor live and the tab signed in again. In the sign-up, a lost answer or a
  reload at the enrolment leaves the address taken and its secret unseen.
- *Topics.* Overlapping moves can close a cycle, and a later walk never ends.
- *Gateway.* The docstring of `ws_proxy.py` counts the handshake against the
  rate limit; the code does not. A request counted after its window ended restarts
  the counter of that window.
- *Blueprints.* A question attached to two topics of a mix can be drawn twice.
  The blueprint form "mirrors" the server's schema, but leaves the bounds of each
  field to the browser's attributes, and to the server a duration of more than a
  day and a name, role or band of more than 200, 120 or 60 characters.
- *Difficulty.* An abandoned signal at work next to a later one loses an update.
- *Judge.* The file size limit equals the output cap, so output is never seen as
  truncated; agreed outputs longer than 2000 bytes are kept cut, and then reject
  the solution that made them.
- *Drafts.* `validate_draft` accepts a variable with one bound only whose default
  partner crosses it, on which `randint` raises after two paid calls of the
  model; an answer without content is not retried; tasks in progress at a restart
  stay queued for ever.
- *Live view.* The socket is accepted before it is subscribed, so events between
  the two are missed. Each refetch of the session closes and reopens the
  candidate's socket, contrary to the comment there.
- *Candidate's page.* At zero the countdown refetches the session in an endless
  loop; a failed poll replaces the room by an error until the next one.
- *Signals.* Pending verdicts count as failures.
- *Question form.* It is seeded once, possibly from an old copy, and saved whole,
  so a save can undo another; text typed before the question arrives is
  overwritten; a lost reply to a creation makes the next save create a second
  question; a test case whose upload failed can be published without its files;
  "Publish current version" publishes what is stored, not the form.

## Proofs

Every invariant and every action property of the runs that pass is also a
theorem, for all values of the constants that satisfy the named `ASSUME`s of the
modules, with the exceptions listed at the end of this section. The `ASSUME`s say
that bounds are naturals, that placeholders (`None`, `Unset`, `Absent`, `NoTopic`,
`Letter`) are none of the values they stand apart from, and that the sets whose
members are counted are finite. A few theorems have a hypothesis of their own,
which is named with them. Each inductive invariant was checked by TLC on the
instance of its run before it was proved.

`Grading_proofs`: `TypeCorrect` and `NoSubmissionLost`, for any number of
submissions, judges, consumers, cases, receives and failures. `NothingLost` is
not inductive: when the judge deletes the job, a verdict must already be in the
verdicts queue, and when a consumer deletes that, the submission must be graded.
The invariant therefore also says, for each judge that has sent, that its
message exists or the submission is graded, and for each consumer past its
commit that the submission is graded; a deleted verdict implies a graded
submission. `OneReport`, `LogAgrees` and `ImplementsGradeOnce` (the refinement of
`GradeOnce`) assume `OneConsumer`. That is how `infra/docker-compose.yml` runs the
exam service; Terraform starts two, and then the three are false (divergence 4),
so the hypothesis cannot be dropped. Their invariant `SoleInv` adds that two
judges never report under the same delivery, so that a report once sent stays
(`DeliveryInv`); that a result is one report that was sent and what the consumer
is about to grade is not graded (`ResultInv`); and that it has neither logged nor
signalled what it has not come to (`LogInv`).

`QuestionVersions_proofs`: `TypeCorrect`, `OneWorkingCopy` and `PinnedFrozen` for
any number of overlapping requests, drafts pinned or not. The invariant adds that what a request has read is not
ahead of the rows (`ReadInv`): a copy is accepted only if its number is the next
one, and an in-place edit needs a version that exists. `PinnedFrozen` says
that a pinned version is written only by a request that read it as the working
copy and did not find it published (`WritesItsTarget`: a commit writes at most the
version it read), and that one request at a time writes none but a draft pinned
before the first publication. That is all the code guarantees: what is published
while a request is under way it does rewrite (divergence 6), and so does it a
pinned draft (divergence 7). The invariant for it is that pins exist and, without
overlap, are published or the first draft (`PinInv`).

For requests that do not overlap (`~Concurrent`), `ImplementsHistory` proves the
refinement of `QuestionHistory`, with the invariant that whoever is at work is
alone and has read the rows as they are (`SerialInv`), and `AddedCasesAreKept`
that an added case stays until somebody deletes it, which needs to know that a
delete names what is at the ordinal it found (`KeptInv`). With overlap both are
false (in the case of divergence 6 a sealed version is rewritten, and an upload can
commit to a version that was published and copied meanwhile), so they keep the
hypothesis.

`ExamSession_proofs`: `TypeCorrect`, `LateRefused`, `AnnouncedOver` and
`DeadlineKept`, for any number of requests and failures, any window, duration
and length of the run. None of the properties is inductive, because requests
decide on old copies of the row. The invariant `Sound` says what an old copy is
good for: it has the right deadline and never claims a lock the row does not
have; a request at its announcement holds a locked copy, and one at its
submission arrived before the deadline. `StepKeepsRequests` shows that a step
which takes neither the session, nor its deadline, nor its lock away (`RowKept`)
leaves all other requests sound; every action but the first insert is such a
step, and at the first insert nobody holds a copy. `BudgetMovedByOverlap` is the
action property `OnlyOverlappingViewMovesBudget`; its invariant says that a view
which found the question unseen arrived before the first view was written down.

`Generation_proofs`: `TypeCorrect`, `CreatedOnlyIfAgreed` and `AttemptsSpent`,
for any number of jobs, workers, attempts, inputs, deliveries and failures, and
any threshold. None is inductive: that the counter stays within its maximum and
that the solutions in the row are those of the report being dealt with both rest
on where everybody is. The invariant `IInv` says that a delivery has at most one
worker, which has not reported while it runs (`WorkerInv`), so that no report is
rewritten; that a report stems from a delivery and a result message carries one
(`ReportInv`); that a DiffJob of the current attempt compares the solutions in
the row and none is sent ahead of it (`SolutionInv`); that nothing is sent for a
job before its drafting task is done, so that task and consumer never work on
the same job (`TaskInv`); and that what the consumer decided still fits the row
(`ConsumerInv`). One lemma per action shows that it is kept. `WinnerIsKept` is
the action property `WinnerIsKeptUnlessJudgedTwice`: a succeeded job has an
agreeing report of its present attempt, or of one that was judged twice with
different ends (`WonInv`), and the consumer about to record a success holds an
agreeing report of the present attempt (`RecordedInv`).

`Followup_proofs`: `SucceededJobsAttachedTheirCases`, `AnnouncementsAreComplete`
and `AnnouncementsAreGraded`, for any number of pushes, jobs, authors, inputs and
failures. `FactoryInv` says of each job what is there by the time its code has got
so far (`Stage`), that what is no longer to attach is attached and what was counted
once stays attached (`Attaching`), and that a request polls once (`OneRound`). Its
counting part (`Bounded`): the rounds of attaching and the results that may still
be received come to no more than the failures, the first try of judge-gen and the
round at work, which is what bounds the copies of a case. Steps of the factory only
let the newest version grow, which is all the pushes need to know of it
(`FactoryWork`, `Later`). `PushInv` says that a push which did not give up waiting
publishes when its job is over, so that the published version has all of it, and
that a push nobody crossed finds its own text.

`Evaluation_proofs`: `ReportsAgree`, for any number of questions, announcements,
deliveries and failures. Every question has its row before anything is announced
or reported (`RowsFirst`); as long as no attach request has outlived its caller,
the copies agree or there is an announcement left that will make them agree
(`Catching`).

`CandidateAccess_proofs`: `ScheduledExamsAreReady`, `ScheduledExamsAreInvitedOnce`
and `OneTokenForAKey`, for any number of slots, jobs, requests, invites and
exchanges. `ScheduleInv` places every copy a request holds (`Placed`), allows one
request that makes the exam (`OneMaker`), and says that every invite row is the
one of the scheduled exam or in the hands of a request about to schedule it
(`OneInvite`). A key, the exchanges that have taken it and the tokens are counted
in one sum, which is at most one and, while nothing failed, exactly one
(`KeysInv`).

`Services_proofs`, for the thirteen parts of `MCServices`:

- `TopicsAreATree`: every row a walk has read leads to another or to the one it
  reads next, and none is the topic that moves (`WalkOf`); no set of topics is
  closed under `parent` (`NoCycle`), which avoids paths and their induction.
- `TabsHoldTheToken`: while nothing disturbed the tab, the live token is its own
  or with the one refresh under way (`RefreshOf`).
- `ViewsAreTheLog`: what a viewer has and what is on its wire are disjoint, each
  without repetition, and together what was published to it (`Follows`).
- `RoomKeepsWork`: text, ownership of what was sent, versions (`RoomInv`).
- `ConsoleIsTruthful`: `SignUpInv`; `EditorInv`, with what everything under way
  says of the question (`EditorHonest`); `PageInv`, with the equivalence of the page's rules and the server's for every mix
  (`RulesAgree`); what is refused all the same is too long.
- `CountsAreExact`: a counter lives at least until its window ends, and bounds
  who got through and who still will (`GatewayInv`, with the longest match of the
  route table case by case); version n was made from n - 1 (`BlueprintsInv`, with
  the weight of a mock mix); an answer that is waited for is what Redis says
  (`DifficultyInv`).
- `FactoryIsSound`: everything `RenderVar` yields fits a declaration that passed
  `CheckBounds`, and the budget of calls by stage (`DraftingInv`); a kept case is
  the output of a clean run, cut twice (`JudgingInv`).
- `SignalsStaySound`: the row is that of a list which the present one continues,
  where only pending verdicts have changed (`RecordsInv`). Of the brace scan: at
  every level, counted from the innermost brace, the loops that are open and those
  the scan counts differ by no more than what misled it so far, less the keyword
  it has still to spend and the blocks of a `do` inside (`ScanInv`,
  `LevelsAgree`). The scan is a recursive function over positions; what it and
  `RunsBeforeAc` compute is reached through the least position where the claim
  fails (`Smallest`), from the well-foundedness of the naturals, since the
  induction theorems themselves cannot be instantiated.
- `TypesAreKept`: all types and bounds, from the invariants above and the bounds
  they do not need, such as that a counter and the requests about to raise it come
  to no more than were sent (`GatewayBounds`).

Model-checked only: liveness (`JobsGetGradedWhileUp`, `EarlyEndIsAnnounced`,
`JobsFinish`, `NobodyWaitsForEver`, `ReportArrives`), which the prover does not
do, and what the three `violation` runs and the five configurations refute.

## Plan

Done: all modules above, and a theorem for each of their safety properties. What
is left, in this order:

1. The safety core of the liveness properties, as theorems: that a job which can
   no longer move is graded, failed or out of receives (`NothingLost` is this for
   `Grading`; `Generation`, `Followup` and `Evaluation` have none yet).
2. The exceptions of the properties as theorems of their own, where they are
   sharp: for `Topics`, that moves which do not overlap never set `outdated`; for
   `AiScheduling`, that `stale` needs two requests.
3. `Sqs` as a component of its own: that a receipt has one holder and a deleted
   message never returns, which `DeliveryInv`, `WorkerInv` and `OneRound` each
   prove for their queues.

## Not modelled

- What the language model answers, beyond free choices wherever it is used;
  prompts and the wording of narratives.
- How bytes are forwarded by the gateway, presigned URLs, S3 and Redis beyond
  the calls on them; the isolation the containers give.
- The classifier of Python programs (`ai/evaluation/complexity.py`), a walk over
  the parser's tree without state.
- Pages that list results or fill in a schedule, the proctor's page, and layout.
- Mutations that the query cache pauses while the browser is offline and sends
  later (`frontend/api/candidate.ts:72-77`): in `ExamRoom` a submission leaves at
  once or fails.
- Scripts, database migrations and infrastructure other than the queues.
- Tenancy: each module follows one organisation, and the `org_id` filters are
  left out of the actions. Topic links of a question are not part of a version
  and are left out of `QuestionVersions`.
