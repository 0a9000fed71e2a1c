---------------------------- MODULE ExamSession ----------------------------
(***************************************************************************)
(* One exam and the session its candidate opens in it.  The deadline lives *)
(* in the session row; nothing runs when it passes: the row is locked, and *)
(* the end of the session announced to the evaluation, by the next request *)
(* of the candidate that looks at the row.  A request works on the row it  *)
(* read; its commits, remote calls and sends are separate steps, between   *)
(* which time passes and other requests run.                               *)
(*                                                                         *)
(* The unit of time is the interval at which an open exam page refetches   *)
(* the session.  The Redis mirror of the row is written and never read by  *)
(* any service; it is left out.                                            *)
(***************************************************************************)
EXTENDS Integers

CONSTANTS
  Requests,     \* requests handled at the same time (bound)
  None,         \* absent value
  Starts, Ends, \* the exam's window, also the candidate token's validity
  Duration,     \* total_duration_minutes of the blueprint version
  MaxTime,      \* bound on the clock
  MaxFaults,    \* bound: requests that fail half-way
  PageOpen      \* whether the exam page stays open for the whole session

Row == [status : {"in_progress", "expired"}, deadline : Nat]

ASSUME SessionAssumption ==
  /\ Starts \in Nat /\ Ends \in Nat /\ Starts < Ends
  /\ Duration \in Nat /\ MaxTime \in Nat /\ MaxFaults \in Nat
  /\ PageOpen \in BOOLEAN
  /\ None \notin Row /\ None \notin Nat

VARIABLES
  now,          \* the clock of the service
  row,          \* the exam_sessions row, None before the first start
  shown,        \* session_questions.shown_at of one question
  submissions,  \* accepted submissions: arrival and commit of their request
  completions,  \* session-complete messages sent
  req,          \* progress of each request
  polled,       \* whether the open page has refetched in this unit of time
  faults        \* failures so far

vars == <<now, row, shown, submissions, completions, req, polled, faults>>

-----------------------------------------------------------------------------
\* candidate tokens are issued for the window of the exam
TokenValid == Starts <= now /\ now < Ends

\* a session opened at t
Opened(t) == [status   |-> "in_progress",
              deadline |-> IF t + Duration <= Ends THEN t + Duration ELSE Ends]

\* seen: the session row as the request holds it; at: when it arrived;
\* first: shown_at as it was read
Idle == [pc |-> "idle", op |-> "get", seen |-> None, at |-> 0, first |-> None]

\* request r goes on at pc, as an operation op, holding the row seen
Moves(r, pc, op, seen) ==
  req' = [req EXCEPT ![r] = [pc |-> pc, op |-> op, seen |-> seen,
                             at |-> req[r].at, first |-> req[r].first]]
Finishes(r) == req' = [req EXCEPT ![r] = Idle]

\* faulty variants: one unit too early, one too late
ElapsedEarly(seen) == seen.status = "in_progress" /\ now + 1 >= seen.deadline
ElapsedLate(seen)  == seen.status = "in_progress" /\ now > seen.deadline

Elapsed(seen) == seen.status = "in_progress" /\ now >= seen.deadline

Init ==
  /\ now = 0 /\ row = None /\ shown = None
  /\ submissions = {} /\ completions = 0
  /\ req = [r \in Requests |-> Idle]
  /\ polled = FALSE /\ faults = 0

-----------------------------------------------------------------------------
(* Faulty variants of steps below: a second start replaces the session; a  *)
(* submission looks at the status only; the lock writes the other final    *)
(* status that the model of the row declares.                              *)

CommitSessionTwice(r) ==
  /\ req[r].pc = "insert"
  /\ row' = Opened(req[r].at)
  /\ Moves(r, "check", "get", Opened(req[r].at))
  /\ UNCHANGED <<now, shown, submissions, completions, polled, faults>>

PassLockCheckUnlocked(r) ==
  /\ req[r].pc = "check"
  /\ \/ req[r].op = "start"  /\ Moves(r, "check", "get", req[r].seen)
     \/ req[r].op = "get"    /\ Finishes(r)
     \/ req[r].op = "submit" /\ req[r].seen.status = "in_progress"
                             /\ Moves(r, "accept", "submit", req[r].seen)
  /\ UNCHANGED <<now, row, shown, submissions, completions, polled, faults>>

LockAsSubmitted(r) ==
  /\ req[r].pc = "check" /\ Elapsed(req[r].seen)
  /\ row' = [row EXCEPT !.status = "submitted"]
  /\ Moves(r, "announce", req[r].op, [req[r].seen EXCEPT !.status = "expired"])
  /\ UNCHANGED <<now, shown, submissions, completions, polled, faults>>

-----------------------------------------------------------------------------
(* Requests of the candidate.  Each reads the session row when it arrives. *)

\* start_session: a session that exists is resumed, else the exam is open and
\* the insert is prepared: questions are sampled by remote calls meanwhile
StartSession(r) ==
  /\ req[r].pc = "idle" /\ TokenValid
  /\ req' = [req EXCEPT ![r] = [pc |-> IF row = None THEN "insert" ELSE "check",
                                op |-> "start", seen |-> row, at |-> now, first |-> None]]
  /\ UNCHANGED <<now, row, shown, submissions, completions, polled, faults>>

\* the unique key on exam_id refuses a second session
CommitSession(r) ==
  /\ req[r].pc = "insert"
  /\ \/ /\ row = None
        /\ row' = Opened(req[r].at)
        /\ Moves(r, "check", "get", Opened(req[r].at))
     \/ row # None /\ Finishes(r) /\ UNCHANGED row
  /\ UNCHANGED <<now, shown, submissions, completions, polled, faults>>

\* get_session and submit
ReadSession(r, op) ==
  /\ req[r].pc = "idle" /\ TokenValid /\ row # None
  /\ req' = [req EXCEPT ![r] = [pc |-> "check", op |-> op, seen |-> row,
                                at |-> now, first |-> None]]
  /\ polled' = (polled \/ op = "get")
  /\ UNCHANGED <<now, row, shown, submissions, completions, faults>>

\* get_question_content does not look at the lock; the content is fetched by
\* a remote call while the request holds shown_at as it was
ReadQuestion(r) ==
  /\ req[r].pc = "idle" /\ TokenValid /\ row # None
  /\ req' = [req EXCEPT ![r] = [pc |-> "content", op |-> "view", seen |-> row,
                                at |-> now, first |-> shown]]
  /\ UNCHANGED <<now, row, shown, submissions, completions, polled, faults>>

\* faulty variant: every view counts as the first
MarkShownAlways(r) ==
  /\ req[r].pc = "content"
  /\ shown' = now
  /\ Finishes(r)
  /\ UNCHANGED <<now, row, submissions, completions, polled, faults>>

MarkShown(r) ==
  /\ req[r].pc = "content"
  /\ shown' = IF req[r].first = None THEN now ELSE shown
  /\ Finishes(r)
  /\ UNCHANGED <<now, row, submissions, completions, polled, faults>>

-----------------------------------------------------------------------------
(* _lock_if_expired decides on the row the request holds.                  *)

Lock(r) ==
  /\ req[r].pc = "check" /\ Elapsed(req[r].seen)
  /\ row' = [row EXCEPT !.status = "expired"]
  /\ Moves(r, "announce", req[r].op, [req[r].seen EXCEPT !.status = "expired"])
  /\ UNCHANGED <<now, shown, submissions, completions, polled, faults>>

SendSessionComplete(r) ==
  /\ req[r].pc = "announce"
  /\ completions' = completions + 1
  /\ Moves(r, "check", req[r].op, req[r].seen)
  /\ UNCHANGED <<now, row, shown, submissions, polled, faults>>

\* the route of a start reads the session once more; a submission needs a
\* session in progress and then waits for the question service
PassLockCheck(r) ==
  /\ req[r].pc = "check" /\ ~Elapsed(req[r].seen)
  /\ \/ req[r].op = "start"  /\ Moves(r, "check", "get", req[r].seen)
     \/ req[r].op = "get"    /\ Finishes(r)
     \/ req[r].op = "submit" /\ IF req[r].seen.status = "in_progress"
                                THEN Moves(r, "accept", "submit", req[r].seen)
                                ELSE Finishes(r)
  /\ UNCHANGED <<now, row, shown, submissions, completions, polled, faults>>

CommitSubmission(r) ==
  /\ req[r].pc = "accept"
  /\ submissions' = submissions \cup {[arrived |-> req[r].at, committed |-> now]}
  /\ Finishes(r)
  /\ UNCHANGED <<now, row, shown, completions, polled, faults>>

\* a remote call, a commit or a send fails, or the service stops
Fails(r) ==
  /\ req[r].pc # "idle"
  /\ faults < MaxFaults /\ faults' = faults + 1
  /\ Finishes(r)
  /\ UNCHANGED <<now, row, shown, submissions, completions, polled>>

\* an open page refetches once in every unit of time while its token is valid
Tick ==
  /\ now < MaxTime
  /\ PageOpen /\ row # None /\ TokenValid => polled
  /\ now' = now + 1 /\ polled' = FALSE
  /\ UNCHANGED <<row, shown, submissions, completions, req, faults>>

Over == now = MaxTime /\ (\A r \in Requests : req[r].pc = "idle") /\ UNCHANGED vars

RequestStep(r) ==
  \/ CommitSession(r) \/ Lock(r) \/ SendSessionComplete(r)
  \/ PassLockCheck(r) \/ CommitSubmission(r) \/ MarkShown(r)

Arrival(r) == \/ StartSession(r) \/ ReadQuestion(r)
              \/ \E op \in {"get", "submit"} : ReadSession(r, op)

Next == \/ \E r \in Requests : Arrival(r) \/ RequestStep(r) \/ Fails(r)
        \/ Tick \/ Over

Spec == Init /\ [][Next]_vars

(***************************************************************************)
(* Fairness: time passes, a request that arrived is worked on, and an open *)
(* page gets its refetch through (strong fairness, because the number of   *)
(* requests at a time is a bound of the model, not of the service).  The   *)
(* candidate is not obliged to do anything else.                           *)
(***************************************************************************)
FairSpec ==
  /\ Spec
  /\ WF_vars(Tick)
  /\ \A r \in Requests : WF_vars(RequestStep(r))
  /\ PageOpen => SF_vars(\E r \in Requests : ReadSession(r, "get"))

-----------------------------------------------------------------------------
(* Properties *)

RequestState == [pc : {"idle", "insert", "check", "announce", "accept", "content"},
                 op : {"start", "get", "submit", "view"},
                 seen : Row \cup {None}, at : Nat, first : Nat \cup {None}]
Submission == [arrived : Nat, committed : Nat]

\* Types of the row and of what a request holds.
TypeOK ==
  /\ now \in Nat /\ faults \in Nat /\ completions \in Nat
  /\ row \in Row \cup {None}
  /\ shown \in Nat \cup {None}
  /\ submissions \in SUBSET Submission
  /\ req \in [Requests -> RequestState]
  /\ polled \in BOOLEAN

\* No request that arrives at or after the deadline gets a submission in,
\* although nobody may have locked the row yet and requests hold old copies
\* of it (submit, _lock_if_expired).
LateRequestsRefused ==
  \A s \in submissions : row # None /\ s.arrived < row.deadline

\* The evaluation is started only for a session that is locked, and a session
\* is locked only when its time is over (_lock_if_expired).
AnnouncedWhenOver ==
  /\ completions > 0 => row # None /\ row.status = "expired"
  /\ row # None /\ row.status = "expired" => now >= row.deadline

\* However many starts and resumes run at once, the candidate has one
\* deadline, and a locked session stays locked (unique exam_id, start_session).
OneDeadline ==
  [][row # None => /\ row' # None /\ row'.deadline = row.deadline
                   /\ row.status = "expired" => row'.status = "expired"]_vars

\* A session whose time ends before the window does is evaluated, provided the
\* page stays open and no request fails: its next refetch announces the end.
\* (_lock_if_expired, reached from get_session)
EarlyEndIsAnnounced ==
  (row # None /\ row.deadline < Ends) ~> (completions > 0 \/ faults > 0)

\* "acceptable for Phase 2 (an examiner opening results does this)"
\* (docs/design-ai-evaluation.md): every session that was opened is evaluated
\* in the end, at the latest because somebody touches it again.
EveryEndIsAnnounced == row # None ~> completions > 0

\* "Expiry is detected lazily on access and locks the session"
\* (services/sessions.py): a locked session takes no submission.
LockedTakesNothing ==
  [][row # None /\ row.status = "expired" => submissions' = submissions]_vars

\* The time budget of a question starts with its first view: only a view that
\* was already under way when the first one was committed can move it
\* (repositories/sessions.py, mark_shown: "No-op if already set").
OnlyOverlappingViewMovesBudget ==
  [][shown # None /\ shown' # shown =>
        \E r \in Requests : req[r].pc = "content" /\ req[r].at <= shown]_vars
=============================================================================
