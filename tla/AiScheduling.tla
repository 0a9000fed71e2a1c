---------------------------- MODULE AiScheduling ----------------------------
(***************************************************************************)
(* The life of one exam up to its invite: scheduled by hand from a         *)
(* blueprint, or from a candidate's profile with one generated question    *)
(* per slot that an examiner may replace and confirms.  Every request      *)
(* works on copies of the rows it read (an SQLAlchemy session that does    *)
(* not expire on commit) and its commits write the columns the copy        *)
(* changed, whatever the rows hold by then.  What the model proposes is    *)
(* Slots; whether the review deadline has passed is a choice.              *)
(***************************************************************************)
EXTENDS Naturals, FiniteSets

CONSTANTS
  Slots,      \* ordinals of the questions the proposed blueprint asks for
  Jobs,       \* bound: generation jobs of the ai service
  Invites,    \* bound: invites
  Requests,   \* requests of examiners that may overlap
  MaxFaults,  \* bound: failures
  None        \* absent value

ASSUME SchedulingAssumption ==
  /\ Slots \subseteq Nat /\ IsFiniteSet(Slots) /\ Slots # {}
  /\ Jobs \subseteq Nat /\ Invites \subseteq Nat
  /\ MaxFaults \in Nat

VARIABLES
  exam,     \* the exams row: [status, deadline (is one set)], None before
  slot,     \* its exam_slot_questions rows
  job,      \* generation jobs; a job that succeeded made the question of its number
  invite,   \* [key in Redis, invites row, mailed to the candidate]
  request,  \* progress of each request
  stale,    \* ghost: a commit wrote over rows that had changed since it read them
  faults

rows == <<exam, slot>>
vars == <<rows, job, invite, request, stale, faults>>

-----------------------------------------------------------------------------
Statuses == {"scheduled", "pending_generation", "pending_review", "generation_failed"}
Exam     == [status : Statuses, deadline : BOOLEAN]
Slot     == [status : {"pending", "ready", "failed"}, job : Jobs, question : Jobs \cup {None}]
Invite   == [key : BOOLEAN, row : {"none", "pending", "consumed"}, mailed : BOOLEAN]
Unsent   == [key |-> FALSE, row |-> "none", mailed |-> FALSE]

ASSUME NoneAssumption ==
  None \notin Exam \cup Slot \cup Slots \cup Jobs \cup Invites
           \cup {"get", "confirm", "regenerate", "schedule", "schedule_ai"}

NoSlots  == [s \in Slots |-> None]
Loaded   == [exam |-> None, slots |-> NoSlots]
Idle     == [pc |-> "idle", kind |-> None, slot |-> None, invite |-> None, todo |-> {},
             read |-> Loaded, copy |-> Loaded]

Pending(j) == [status |-> "pending", job |-> j, question |-> None]

Init ==
  /\ exam = None /\ slot = NoSlots
  /\ job = [j \in Jobs |-> "unused"]
  /\ invite = [i \in Invites |-> Unsent]
  /\ request = [r \in Requests |-> Idle]
  /\ stale = FALSE /\ faults = 0

Least(S) == CHOOSE n \in S : \A m \in S : n <= m
Goes(r, pc) == request' = [request EXCEPT ![r].pc = pc]
Ends(r)     == request' = [request EXCEPT ![r] = Idle]

\* generate_question: the next job of the ai service
Unused    == {j \in Jobs : job[j] = "unused"}
NewJob    == Unused # {} /\ job' = [job EXCEPT ![Least(Unused)] = "running"]
JobEnds(j) ==
  /\ job[j] = "running"
  /\ \E result \in {"succeeded", "failed"} : job' = [job EXCEPT ![j] = result]
  /\ UNCHANGED <<rows, invite, request, stale, faults>>

\* what a commit leaves in a row: the columns in which the copy differs from
\* what was read
Flushed(row, read, copy) == [c \in DOMAIN row |-> IF copy[c] = read[c] THEN row[c] ELSE copy[c]]

Outdated(r) ==
  LET read == request[r].read
  IN  read.exam # exam \/ \E s \in Slots : read.slots[s] \notin {None, slot[s]}

Commit(r, copy) ==
  LET read == request[r].read
  IN  /\ exam' = Flushed(exam, read.exam, copy.exam)
      /\ slot' = [s \in Slots |-> IF copy.slots[s] = None THEN slot[s]
                                  ELSE Flushed(slot[s], read.slots[s], copy.slots[s])]
      /\ stale' = (stale \/ (copy # read /\ Outdated(r)))

-----------------------------------------------------------------------------
(* schedule_ai_exam: jobs and blueprint first, the exam at the end. *)

BeginScheduleAi(r) ==
  /\ exam = None /\ \A q \in Requests : request[q].pc = "idle"
  /\ request' = [request EXCEPT ![r].pc = "propose", ![r].kind = "schedule_ai"]
  /\ UNCHANGED <<rows, job, invite, stale, faults>>

\* the topics, and the model's proposal for them
ProposeBlueprint(r) ==
  /\ request[r].pc = "propose" /\ Goes(r, "blueprint")
  /\ UNCHANGED <<rows, job, invite, stale, faults>>

\* the blueprint is committed by itself: it stays when the request fails later
CommitBlueprint(r) ==
  /\ request[r].pc = "blueprint" /\ Goes(r, "generate")
  /\ UNCHANGED <<rows, job, invite, stale, faults>>

GenerateForSlot(r) ==
  LET left == {s \in Slots : request[r].copy.slots[s] = None}
  IN  /\ request[r].pc = "generate" /\ left # {}
      /\ NewJob
      /\ request' = [request EXCEPT ![r].copy.slots[Least(left)] = Pending(Least(Unused))]
      /\ UNCHANGED <<rows, invite, stale, faults>>

CommitExam(r) ==
  /\ request[r].pc = "generate" /\ None \notin {request[r].copy.slots[s] : s \in Slots}
  /\ exam' = [status |-> "pending_generation", deadline |-> FALSE]
  /\ slot' = request[r].copy.slots
  /\ Ends(r)
  /\ UNCHANGED <<job, invite, stale, faults>>

\* schedule_exam: an exam by hand is scheduled as soon as it exists
BeginSchedule(r) ==
  /\ exam = None /\ \A q \in Requests : request[q].pc = "idle"
  /\ request' = [request EXCEPT ![r].pc = "key", ![r].kind = "schedule",
                   ![r].copy.exam = [status |-> "scheduled", deadline |-> FALSE]]
  /\ UNCHANGED <<rows, job, invite, stale, faults>>

-----------------------------------------------------------------------------
(* get_exam, confirm_exam and regenerate_slot: all refresh first. *)

InviteRows == {i \in Invites : invite[i].row # "none"}

\* GET also reads the one invite of the exam, and fails on a second
ReadExam(r, kind, s) ==
  /\ exam # None /\ request[r].pc = "idle"
  /\ (kind = "regenerate") <=> (s # None)
  /\ kind = "get" => Cardinality(InviteRows) <= 1
  /\ LET seen == [exam |-> exam, slots |-> NoSlots]
     IN  request' = [request EXCEPT ![r] = [Idle EXCEPT
           !.pc = IF exam.status = "pending_generation" THEN "list" ELSE "decide",
           !.kind = kind, !.slot = s, !.read = seen, !.copy = seen]]
  /\ UNCHANGED <<rows, job, invite, stale, faults>>

ListSlots(r) ==
  /\ request[r].pc = "list"
  /\ request' = [request EXCEPT ![r].pc = "poll", ![r].read.slots = slot, ![r].copy.slots = slot,
                   ![r].todo = {s \in Slots : slot[s] # None /\ slot[s].status = "pending"}]
  /\ UNCHANGED <<rows, job, invite, stale, faults>>

\* faulty variant: the job's status for the slot's
AfterPollVerbatim(c) ==
  IF job[c.job] = "succeeded" THEN [c EXCEPT !.status = job[c.job], !.question = c.job]
  ELSE IF job[c.job] = "failed" THEN [c EXCEPT !.status = "failed"] ELSE c

AfterPoll(c) ==
  IF job[c.job] = "succeeded" THEN [c EXCEPT !.status = "ready", !.question = c.job]
  ELSE IF job[c.job] = "failed" THEN [c EXCEPT !.status = "failed"] ELSE c

PollJob(r) ==
  LET s == Least(request[r].todo)
  IN  /\ request[r].pc = "poll" /\ request[r].todo # {}
      /\ request' = [request EXCEPT ![r].todo = @ \ {s}, ![r].copy.slots[s] = AfterPoll(@)]
      /\ UNCHANGED <<rows, job, invite, stale, faults>>

\* faulty variant: one slot that is ready will do
RecomputedFromOne(e, statuses) ==
  IF "failed" \in statuses THEN [e EXCEPT !.status = "generation_failed"]
  ELSE IF "ready" \in statuses THEN [status |-> "pending_review", deadline |-> TRUE]
  ELSE e

\* _recompute_exam_status
Recomputed(e, statuses) ==
  IF "failed" \in statuses THEN [e EXCEPT !.status = "generation_failed"]
  ELSE IF statuses = {"ready"} THEN [status |-> "pending_review", deadline |-> TRUE]
  ELSE e

CommitRefresh(r) ==
  LET slots == request[r].copy.slots
      copy  == [exam  |-> Recomputed(request[r].copy.exam, {slots[s].status : s \in Slots}),
                slots |-> slots]
  IN  /\ request[r].pc = "poll" /\ request[r].todo = {}
      /\ Commit(r, copy)
      /\ request' = [request EXCEPT ![r].pc = "decide", ![r].read = copy, ![r].copy = copy]
      /\ UNCHANGED <<job, invite, faults>>

\* faulty variant: whatever is not being generated can be confirmed
ConfirmsAgain(kind, e) ==
  e.status # "pending_generation" /\ (kind = "confirm" \/ e.deadline)

\* an explicit confirmation, or one whose review deadline may have passed
Confirms(kind, e) ==
  e.status = "pending_review" /\ (kind = "confirm" \/ e.deadline)

Regenerable(e) == e.status \in {"pending_generation", "pending_review", "generation_failed"}

\* confirm, look up the slot to regenerate, or answer (also with an error)
Decide(r) ==
  LET q == request[r]
  IN  /\ q.pc = "decide"
      /\ \/ Confirms(q.kind, q.copy.exam) /\ Goes(r, "key")
         \/ q.kind = "regenerate" /\ Regenerable(q.copy.exam) /\ Goes(r, "load")
         \/ q.kind = "regenerate" /\ ~Regenerable(q.copy.exam) /\ Ends(r)
         \/ q.kind = "get" /\ Ends(r)
         \/ q.kind = "confirm" /\ ~Confirms(q.kind, q.copy.exam) /\ Ends(r)
      /\ UNCHANGED <<rows, job, invite, stale, faults>>

-----------------------------------------------------------------------------
(* send_invite, then the new status in a transaction of its own. *)

SetKey(r) ==
  LET free == {i \in Invites : ~invite[i].key /\ invite[i].row = "none"}
      i    == Least(free)
  IN  /\ request[r].pc = "key" /\ free # {}
      /\ invite' = [invite EXCEPT ![i].key = TRUE]
      /\ request' = [request EXCEPT ![r].pc = "row", ![r].invite = i]
      /\ UNCHANGED <<rows, job, stale, faults>>

\* with the exam itself when it is scheduled by hand
CommitInvite(r) ==
  LET q == request[r]
  IN  /\ q.pc = "row"
      /\ invite' = [invite EXCEPT ![q.invite].row = "pending"]
      /\ exam' = IF q.kind = "schedule" THEN q.copy.exam ELSE exam
      /\ Goes(r, "mail")
      /\ UNCHANGED <<slot, job, stale, faults>>

MailInvite(r) ==
  LET q == request[r]
  IN  /\ q.pc = "mail"
      /\ invite' = [invite EXCEPT ![q.invite].mailed = TRUE]
      /\ IF q.kind = "schedule" THEN Ends(r) ELSE Goes(r, "status")
      /\ UNCHANGED <<rows, job, stale, faults>>

CommitScheduled(r) ==
  /\ request[r].pc = "status"
  /\ Commit(r, [request[r].copy EXCEPT !.exam.status = "scheduled"])
  /\ Ends(r)
  /\ UNCHANGED <<job, invite, faults>>

-----------------------------------------------------------------------------
(* regenerate_slot *)

\* a slot the refresh has listed is not read again
LoadSlot(r) ==
  LET q == request[r]
      c == IF q.copy.slots[q.slot] = None THEN slot[q.slot] ELSE q.copy.slots[q.slot]
  IN  /\ q.pc = "load"
      /\ request' = [request EXCEPT ![r].pc = "again",
                       ![r].read.slots[q.slot] = c, ![r].copy.slots[q.slot] = c]
      /\ UNCHANGED <<rows, job, invite, stale, faults>>

GenerateAgain(r) ==
  LET q == request[r]
  IN  /\ q.pc = "again" /\ NewJob
      /\ request' = [request EXCEPT ![r].pc = "reset",
                       ![r].copy.slots[q.slot] = Pending(Least(Unused)),
                       ![r].copy.exam = [status |-> "pending_generation", deadline |-> FALSE]]
      /\ UNCHANGED <<rows, invite, stale, faults>>

CommitReset(r) ==
  /\ request[r].pc = "reset"
  /\ Commit(r, request[r].copy)
  /\ Ends(r)
  /\ UNCHANGED <<job, invite, faults>>

\* a remote service, the database, Redis or the mail service fails, or the
\* process stops: what is not committed is gone
RequestFails(r) ==
  /\ request[r].pc # "idle"
  /\ faults < MaxFaults /\ faults' = faults + 1
  /\ Ends(r)
  /\ UNCHANGED <<rows, job, invite, stale>>

RequestStep(r) ==
  \/ BeginScheduleAi(r) \/ ProposeBlueprint(r) \/ CommitBlueprint(r)
  \/ GenerateForSlot(r) \/ CommitExam(r) \/ BeginSchedule(r)
  \/ \E kind \in {"get", "confirm", "regenerate"}, s \in Slots \cup {None} : ReadExam(r, kind, s)
  \/ ListSlots(r) \/ PollJob(r) \/ CommitRefresh(r) \/ Decide(r)
  \/ SetKey(r) \/ CommitInvite(r) \/ MailInvite(r) \/ CommitScheduled(r)
  \/ LoadSlot(r) \/ GenerateAgain(r) \/ CommitReset(r)
  \/ RequestFails(r)

Next == (\E r \in Requests : RequestStep(r)) \/ \E j \in Jobs : JobEnds(j)

Spec == Init /\ [][Next]_vars

-----------------------------------------------------------------------------
(* Properties *)

SchedulingTypeOK ==
  /\ exam \in Exam \cup {None}
  /\ slot \in [Slots -> Slot \cup {None}]
  /\ job \in [Jobs -> {"unused", "running", "succeeded", "failed"}]
  /\ invite \in [Invites -> Invite]

Scheduled == exam # None /\ exam.status = "scheduled"

\* The questions of an exam that is out are those its slots' own jobs made, in
\* every slot: the examiner confirmed, or let pass, what the candidate gets.
\* True with any failures, and of requests that overlap as long as none of them
\* commits copies of rows that changed since it read them.
ScheduledIsReady ==
  Scheduled /\ ~stale => \A s \in Slots :
    slot[s] # None => slot[s].status = "ready" /\ slot[s].question = slot[s].job

\* When nobody is at it and nothing failed or overwrote, an exam is scheduled
\* exactly if it has an invite, one that was mailed, and never two (two make
\* every later GET fail).
InvitedOnce ==
  (\A r \in Requests : request[r].pc = "idle") /\ faults = 0 /\ ~stale
    => /\ Cardinality(InviteRows) = IF Scheduled THEN 1 ELSE 0
       /\ \A i \in InviteRows : invite[i].mailed
=============================================================================
