------------------------ MODULE ExamSession_proofs ------------------------
(***************************************************************************)
(* Proofs about ExamSession, for any number of requests and failures, any  *)
(* window, duration and length of the run.  The one idea: a request may    *)
(* hold an old copy of the row, but the copy has the right deadline and    *)
(* never says more than the row does.                                      *)
(***************************************************************************)
EXTENDS ExamSession, TLAPS

\* What a request in progress, given by its record q, may rely on at time t
\* when the table holds w.
SoundFor(q, t, w) ==
  /\ q.at <= t
  /\ q.pc \notin {"idle", "insert"} =>
       /\ w # None /\ q.seen \in Row
       /\ q.seen.deadline = w.deadline
       /\ q.seen.status = "expired" => w.status = "expired"
  /\ q.pc = "announce" => q.seen.status = "expired"
  /\ q.pc = "accept" => q.at < w.deadline

Sound(q) == SoundFor(q, now, row)

RequestsSound == \A r \in Requests : Sound(req[r])

IInv == TypeOK /\ RequestsSound /\ LateRequestsRefused /\ AnnouncedWhenOver

\* A step never takes the session, its deadline or its lock away.
RowKept ==
  row # None => /\ row' # None /\ row'.deadline = row.deadline
                /\ row.status = "expired" => row'.status = "expired"

\* The record of a request after Moves and Finishes.
Moved(r, pc, op, seen) ==
  [pc |-> pc, op |-> op, seen |-> seen, at |-> req[r].at, first |-> req[r].first]

LEMMA IdleIsRequest == Idle \in RequestState
BY SessionAssumption DEF Idle, RequestState

LEMMA RequestFields ==
  ASSUME TypeOK, NEW r \in Requests
  PROVE  /\ req[r].pc \in {"idle", "insert", "check", "announce", "accept", "content"}
         /\ req[r].op \in {"start", "get", "submit", "view"}
         /\ req[r].seen \in Row \cup {None}
         /\ req[r].at \in Nat /\ req[r].first \in Nat \cup {None}
BY DEF TypeOK, RequestState

LEMMA RowFields ==
  ASSUME NEW q \in Row
  PROVE  q.status \in {"in_progress", "expired"} /\ q.deadline \in Nat /\ q # None
BY SessionAssumption DEF Row

LEMMA MovedIsRequest ==
  ASSUME TypeOK, NEW r \in Requests,
         NEW pc \in {"idle", "insert", "check", "announce", "accept", "content"},
         NEW op \in {"start", "get", "submit", "view"},
         NEW seen \in Row \cup {None}
  PROVE  Moved(r, pc, op, seen) \in RequestState
BY RequestFields DEF Moved, RequestState

LEMMA OpenedIsRow ==
  ASSUME NEW t \in Nat
  PROVE  /\ Opened(t) \in Row /\ Opened(t) # None
         /\ Opened(t).status = "in_progress"
BY SessionAssumption DEF Opened, Row

\* A step that keeps the row and gives request r a sound record keeps every
\* request sound: the others still hold what they held.
LEMMA StepKeepsRequests ==
  ASSUME IInv, NEW r \in Requests, NEW x \in RequestState,
         req' = [req EXCEPT ![r] = x], RowKept, now' = now, SoundFor(x, now', row')
  PROVE  req' \in [Requests -> RequestState] /\ RequestsSound'
<1>1. req \in [Requests -> RequestState] /\ now \in Nat
  BY DEF IInv, TypeOK
<1>2. req' \in [Requests -> RequestState]
  BY <1>1
<1>3. ASSUME NEW q \in Requests PROVE Sound(req[q])'
  <2>1. CASE q = r
    BY <2>1, <1>1 DEF Sound
  <2>2. CASE q # r
    <3>1. req'[q] = req[q] /\ Sound(req[q])
      BY <2>2, <1>1 DEF IInv, RequestsSound
    <3> QED
      BY <3>1 DEF Sound, SoundFor, RowKept
  <2> QED
    BY <2>1, <2>2
<1> QED
  BY <1>2, <1>3 DEF RequestsSound

\* A step of a request that leaves row, submissions and announcements alone.
LEMMA QuietStep ==
  ASSUME IInv, NEW r \in Requests, NEW x \in RequestState,
         req' = [req EXCEPT ![r] = x], Sound(x),
         UNCHANGED <<now, row, submissions, completions>>,
         shown' \in Nat \cup {None}, polled' \in BOOLEAN, faults' \in Nat
  PROVE  IInv'
<1>1. RowKept /\ now' = now /\ SoundFor(x, now', row')
  BY DEF RowKept, Sound, SoundFor
<1>2. req' \in [Requests -> RequestState] /\ RequestsSound'
  BY <1>1, StepKeepsRequests
<1>3. TypeOK'
  BY <1>2 DEF IInv, TypeOK
<1>4. LateRequestsRefused' /\ AnnouncedWhenOver'
  BY DEF IInv, LateRequestsRefused, AnnouncedWhenOver
<1> QED
  BY <1>2, <1>3, <1>4 DEF IInv

LEMMA IdleIsSound == ASSUME now \in Nat PROVE Sound(Idle)
BY DEF Sound, SoundFor, Idle

LEMMA InitInv == Init => IInv
<1> SUFFICES ASSUME Init PROVE IInv
  OBVIOUS
<1>1. TypeOK
  BY IdleIsRequest DEF Init, TypeOK
<1>2. RequestsSound
  BY IdleIsSound DEF Init, RequestsSound
<1>3. LateRequestsRefused /\ AnnouncedWhenOver
  BY DEF Init, LateRequestsRefused, AnnouncedWhenOver
<1> QED
  BY <1>1, <1>2, <1>3 DEF IInv

-----------------------------------------------------------------------------
(* One lemma per group of actions. *)

LEMMA ArrivalInv == ASSUME IInv, NEW r \in Requests, Arrival(r) PROVE IInv'
<1>0. /\ TypeOK /\ now \in Nat /\ row \in Row \cup {None} /\ shown \in Nat \cup {None}
      /\ polled \in BOOLEAN /\ faults \in Nat
  BY DEF IInv, TypeOK
<1>1. CASE StartSession(r)
  <2> DEFINE x == [pc |-> IF row = None THEN "insert" ELSE "check",
                   op |-> "start", seen |-> row, at |-> now, first |-> None]
  <2>1. x \in RequestState
    BY <1>0 DEF RequestState
  <2>2. Sound(x)
    BY <1>0 DEF Sound, SoundFor
  <2>3. req' = [req EXCEPT ![r] = x]
    BY <1>1 DEF StartSession
  <2>4. UNCHANGED <<now, row, shown, submissions, completions, polled, faults>>
    BY <1>1 DEF StartSession
  <2> HIDE DEF x
  <2> QED
    BY <1>0, <2>1, <2>2, <2>3, <2>4, QuietStep
<1>2. CASE ReadQuestion(r)
  <2> DEFINE x == [pc |-> "content", op |-> "view", seen |-> row, at |-> now,
                   first |-> shown]
  <2>1. x \in RequestState
    BY <1>0 DEF RequestState
  <2>2. Sound(x)
    BY <1>0, <1>2 DEF Sound, SoundFor, ReadQuestion
  <2>3. req' = [req EXCEPT ![r] = x]
    BY <1>2 DEF ReadQuestion
  <2>4. UNCHANGED <<now, row, shown, submissions, completions, polled, faults>>
    BY <1>2 DEF ReadQuestion
  <2> HIDE DEF x
  <2> QED
    BY <1>0, <2>1, <2>2, <2>3, <2>4, QuietStep
<1>3. ASSUME NEW op \in {"get", "submit"}, ReadSession(r, op) PROVE IInv'
  <2> DEFINE x == [pc |-> "check", op |-> op, seen |-> row, at |-> now, first |-> None]
  <2>1. x \in RequestState
    BY <1>0 DEF RequestState
  <2>2. Sound(x)
    BY <1>0, <1>3 DEF Sound, SoundFor, ReadSession
  <2>3. req' = [req EXCEPT ![r] = x]
    BY <1>3 DEF ReadSession
  <2>4. /\ UNCHANGED <<now, row, shown, submissions, completions, faults>>
        /\ polled' \in BOOLEAN
    BY <1>3 DEF ReadSession
  <2> HIDE DEF x
  <2> QED
    BY <1>0, <2>1, <2>2, <2>3, <2>4, QuietStep
<1> QED
  BY <1>1, <1>2, <1>3 DEF Arrival

\* A request that ends, with or without success.
LEMMA FinishInv ==
  ASSUME IInv, NEW r \in Requests, Finishes(r),
         UNCHANGED <<now, row, submissions, completions>>,
         shown' \in Nat \cup {None}, polled' \in BOOLEAN, faults' \in Nat
  PROVE  IInv'
<1>1. Sound(Idle) /\ Idle \in RequestState
  BY IdleIsSound, IdleIsRequest DEF IInv, TypeOK
<1>2. req' = [req EXCEPT ![r] = Idle]
  BY DEF Finishes
<1> QED
  BY <1>1, <1>2, QuietStep

\* A request that goes on, past a check that changes no row.
LEMMA MoveInv ==
  ASSUME IInv, NEW r \in Requests,
         NEW pc \in {"check", "accept"}, NEW op \in {"get", "submit"},
         req[r].pc = "check", Moves(r, pc, op, req[r].seen),
         pc = "accept" => req[r].at < row.deadline,
         UNCHANGED <<now, row, shown, submissions, completions, polled, faults>>
  PROVE  IInv'
<1> DEFINE x == Moved(r, pc, op, req[r].seen)
<1>1. x \in RequestState
  BY RequestFields, MovedIsRequest DEF IInv
<1>2. req' = [req EXCEPT ![r] = x]
  BY DEF Moves, Moved
<1>3. Sound(req[r])
  BY DEF IInv, RequestsSound
<1>4. Sound(x)
  BY <1>3 DEF Sound, SoundFor, Moved
<1>5. shown' \in Nat \cup {None} /\ polled' \in BOOLEAN /\ faults' \in Nat
  BY DEF IInv, TypeOK
<1> HIDE DEF x
<1> QED
  BY <1>1, <1>2, <1>4, <1>5, QuietStep

\* The check of a request lets only submissions through that arrived in time.
LEMMA PassInv == ASSUME IInv, NEW r \in Requests, PassLockCheck(r) PROVE IInv'
<1>0. /\ req[r].pc = "check" /\ ~Elapsed(req[r].seen)
      /\ UNCHANGED <<now, row, shown, submissions, completions, polled, faults>>
  BY DEF PassLockCheck
<1>1. /\ Sound(req[r]) /\ req[r].at \in Nat /\ now \in Nat
      /\ shown' \in Nat \cup {None} /\ polled' \in BOOLEAN /\ faults' \in Nat
  BY <1>0, RequestFields DEF IInv, TypeOK, RequestsSound
<1>2. CASE Moves(r, "check", "get", req[r].seen)
  BY <1>0, <1>2, MoveInv
<1>3. CASE Finishes(r)
  BY <1>0, <1>1, <1>3, FinishInv
<1>4. CASE /\ req[r].seen.status = "in_progress"
           /\ Moves(r, "accept", "submit", req[r].seen)
  <2>1. req[r].seen \in Row /\ req[r].seen.deadline = row.deadline /\ req[r].at <= now
    BY <1>0, <1>1 DEF Sound, SoundFor
  <2>2. row.deadline \in Nat
    BY <2>1, RowFields
  <2>3. req[r].at < row.deadline
    BY <1>0, <1>1, <1>4, <2>1, <2>2 DEF Elapsed
  <2> QED
    BY <1>0, <1>4, <2>3, MoveInv
<1> QED
  BY <1>2, <1>3, <1>4 DEF PassLockCheck

LEMMA CommitSessionKeepsRow == ASSUME IInv, NEW r \in Requests, CommitSession(r) PROVE RowKept
BY DEF CommitSession, RowKept

\* The lock writes the status and nothing else.
LEMMA LockWrites ==
  ASSUME IInv, NEW r \in Requests, Lock(r)
  PROVE  /\ row \in Row /\ row' \in Row /\ row' # None
         /\ row'.status = "expired" /\ row'.deadline = row.deadline
         /\ row.deadline <= now
<1>1. req[r].pc = "check" /\ Elapsed(req[r].seen) /\ row' = [row EXCEPT !.status = "expired"]
  BY DEF Lock
<1>2. row \in Row
  BY <1>1 DEF IInv, RequestsSound, Sound, SoundFor, TypeOK
<1>3. row' \in Row /\ row'.status = "expired" /\ row'.deadline = row.deadline
  BY <1>1, <1>2 DEF Row
<1>4. row' # None
  BY <1>3, RowFields
<1>5. row.deadline <= now
  BY <1>1 DEF IInv, RequestsSound, Sound, SoundFor, Elapsed
<1> QED
  BY <1>2, <1>3, <1>4, <1>5

\* Nobody holds a session before there is one: the insert of the first start
\* finds only requests that are idle or about to insert themselves.
LEMMA CommitSessionInv == ASSUME IInv, NEW r \in Requests, CommitSession(r) PROVE IInv'
<1>0. /\ UNCHANGED <<now, shown, submissions, completions, polled, faults>>
      /\ req[r].at \in Nat /\ now \in Nat /\ Sound(req[r])
  BY RequestFields DEF CommitSession, IInv, TypeOK, RequestsSound
<1>1. CASE row # None /\ Finishes(r) /\ UNCHANGED row
  BY <1>0, <1>1, FinishInv DEF IInv, TypeOK
<1>2. CASE /\ row = None /\ row' = Opened(req[r].at)
           /\ Moves(r, "check", "get", Opened(req[r].at))
  <2> DEFINE x == Moved(r, "check", "get", Opened(req[r].at))
  <2>1. row' \in Row /\ row' # None /\ row'.status = "in_progress"
    BY <1>0, <1>2, OpenedIsRow
  <2>2. x \in RequestState
    BY <1>0, OpenedIsRow, MovedIsRequest DEF IInv
  <2>3. req' = [req EXCEPT ![r] = x]
    BY <1>2 DEF Moves, Moved
  <2>4. x.pc = "check" /\ x.at = req[r].at /\ x.seen = row'
    BY <1>2 DEF Moved
  <2> HIDE DEF x
  <2>5. req' \in [Requests -> RequestState] /\ (req[r])' = x
    BY <2>2, <2>3 DEF IInv, TypeOK
  <2>6. RequestsSound'
    <3> SUFFICES ASSUME NEW q \in Requests PROVE Sound(req[q])'
      BY DEF RequestsSound
    <3>1. CASE q = r
      BY <3>1, <1>0, <2>1, <2>4, <2>5 DEF Sound, SoundFor
    <3>2. CASE q # r
      <4>1. req'[q] = req[q] /\ Sound(req[q])
        BY <3>2, <2>3 DEF IInv, RequestsSound, TypeOK
      <4> QED
        BY <4>1, <1>0, <1>2 DEF Sound, SoundFor
    <3> QED
      BY <3>1, <3>2
  <2>7. submissions = {} /\ ~(completions > 0)
    BY <1>2 DEF IInv, LateRequestsRefused, AnnouncedWhenOver, TypeOK
  <2>8. LateRequestsRefused' /\ AnnouncedWhenOver'
    BY <1>0, <2>1, <2>7 DEF LateRequestsRefused, AnnouncedWhenOver
  <2>9. TypeOK'
    BY <1>0, <2>1, <2>5 DEF IInv, TypeOK
  <2> QED
    BY <2>6, <2>8, <2>9 DEF IInv
<1> QED
  BY <1>1, <1>2 DEF CommitSession

LEMMA LockInv == ASSUME IInv, NEW r \in Requests, Lock(r) PROVE IInv'
<1> DEFINE y == [req[r].seen EXCEPT !.status = "expired"]
           x == Moved(r, "announce", req[r].op, y)
<1>0. /\ UNCHANGED <<now, shown, submissions, completions, polled, faults>>
      /\ req[r].pc = "check" /\ Sound(req[r]) /\ now \in Nat
      /\ req[r].op \in {"start", "get", "submit", "view"} /\ req[r].at \in Nat
  BY RequestFields DEF Lock, IInv, TypeOK, RequestsSound
<1>1. /\ row \in Row /\ row' \in Row /\ row' # None /\ row # None
      /\ row'.status = "expired" /\ row'.deadline = row.deadline /\ row.deadline <= now
  BY LockWrites, RowFields
<1>2. y \in Row /\ y.status = "expired" /\ y.deadline = row.deadline
  BY <1>0 DEF Sound, SoundFor, Row
<1>3. req' = [req EXCEPT ![r] = x]
  BY DEF Lock, Moves, Moved
<1> HIDE DEF y
<1>4. x \in RequestState
  BY <1>0, <1>2, MovedIsRequest DEF IInv
<1>5. x.pc = "announce" /\ x.at = req[r].at /\ x.seen = y
  BY DEF Moved
<1> HIDE DEF x
<1>6. RowKept
  BY <1>1 DEF RowKept
<1>7. x.pc = "announce" /\ x.at <= now /\ x.seen \in Row /\ x.seen.status = "expired"
      /\ x.seen.deadline = row'.deadline
  BY <1>0, <1>1, <1>2, <1>5 DEF Sound, SoundFor
<1>8. /\ x.at <= now' /\ x.seen.deadline = row'.deadline /\ row'.status = "expired"
      /\ row' # None
  BY <1>0, <1>1, <1>7
<1>9. SoundFor(x, now', row')
  BY <1>7, <1>8 DEF Sound, SoundFor
<1>10. req' \in [Requests -> RequestState] /\ RequestsSound'
  BY <1>0, <1>3, <1>4, <1>6, <1>9, StepKeepsRequests
<1>11. LateRequestsRefused' /\ AnnouncedWhenOver'
  BY <1>0, <1>1 DEF IInv, LateRequestsRefused, AnnouncedWhenOver
<1>12. TypeOK'
  BY <1>0, <1>1, <1>10 DEF IInv, TypeOK
<1> QED
  BY <1>10, <1>11, <1>12 DEF IInv

\* Whoever announces holds a locked copy, so the row is locked.
LEMMA SendInv == ASSUME IInv, NEW r \in Requests, SendSessionComplete(r) PROVE IInv'
<1> DEFINE x == Moved(r, "check", req[r].op, req[r].seen)
<1>0. /\ UNCHANGED <<now, row, shown, submissions, polled, faults>>
      /\ completions' = completions + 1 /\ req[r].pc = "announce"
      /\ Sound(req[r])
  BY DEF SendSessionComplete, IInv, RequestsSound
<1>1. x \in RequestState
  BY RequestFields, MovedIsRequest DEF IInv
<1>2. req' = [req EXCEPT ![r] = x]
  BY DEF SendSessionComplete, Moves, Moved
<1>3. SoundFor(x, now', row')
  BY <1>0 DEF Sound, SoundFor, Moved
<1>4. row # None /\ row.status = "expired"
  BY <1>0 DEF Sound, SoundFor
<1> HIDE DEF x
<1>5. RowKept
  BY <1>0 DEF RowKept
<1>6. req' \in [Requests -> RequestState] /\ RequestsSound'
  BY <1>0, <1>1, <1>2, <1>3, <1>5, StepKeepsRequests
<1>7. LateRequestsRefused' /\ AnnouncedWhenOver'
  BY <1>0, <1>4 DEF IInv, LateRequestsRefused, AnnouncedWhenOver
<1>8. TypeOK'
  BY <1>0, <1>6 DEF IInv, TypeOK
<1> QED
  BY <1>6, <1>7, <1>8 DEF IInv

LEMMA SubmissionInv == ASSUME IInv, NEW r \in Requests, CommitSubmission(r) PROVE IInv'
<1> DEFINE s == [arrived |-> req[r].at, committed |-> now]
<1>0. /\ UNCHANGED <<now, row, shown, completions, polled, faults>>
      /\ submissions' = submissions \cup {s}
      /\ req[r].pc = "accept" /\ req' = [req EXCEPT ![r] = Idle]
      /\ Sound(req[r]) /\ req[r].at \in Nat /\ now \in Nat
  BY RequestFields DEF CommitSubmission, Finishes, IInv, RequestsSound, TypeOK
<1>1. row # None /\ req[r].at < row.deadline
  BY <1>0 DEF Sound, SoundFor
<1>2. s \in Submission /\ s.arrived = req[r].at
  BY <1>0 DEF Submission
<1> HIDE DEF s
<1>3. LateRequestsRefused'
  BY <1>0, <1>1, <1>2 DEF IInv, LateRequestsRefused
<1>4. AnnouncedWhenOver'
  BY <1>0 DEF IInv, AnnouncedWhenOver
<1>5. RowKept
  BY <1>0 DEF RowKept
<1>6. Sound(Idle) /\ Idle \in RequestState
  BY <1>0, IdleIsSound, IdleIsRequest
<1>7. SoundFor(Idle, now', row')
  BY <1>0, <1>6 DEF Sound, SoundFor, Idle
<1>8. req' \in [Requests -> RequestState] /\ RequestsSound'
  BY <1>0, <1>5, <1>6, <1>7, StepKeepsRequests
<1>9. submissions' \in SUBSET Submission
  BY <1>0, <1>2, Zenon DEF IInv, TypeOK
<1>10. TypeOK'
  BY <1>0, <1>8, <1>9 DEF IInv, TypeOK
<1> QED
  BY <1>3, <1>4, <1>8, <1>10 DEF IInv

LEMMA MarkInv == ASSUME IInv, NEW r \in Requests, MarkShown(r) PROVE IInv'
<1>1. shown' \in Nat \cup {None} /\ polled' \in BOOLEAN /\ faults' \in Nat
  BY DEF MarkShown, IInv, TypeOK
<1>2. Finishes(r) /\ UNCHANGED <<now, row, submissions, completions>>
  BY DEF MarkShown
<1> QED
  BY <1>1, <1>2, FinishInv

LEMMA FailsInv == ASSUME IInv, NEW r \in Requests, Fails(r) PROVE IInv'
<1>1. shown' \in Nat \cup {None} /\ polled' \in BOOLEAN /\ faults' \in Nat
  BY DEF Fails, IInv, TypeOK
<1>2. Finishes(r) /\ UNCHANGED <<now, row, submissions, completions>>
  BY DEF Fails
<1> QED
  BY <1>1, <1>2, FinishInv

LEMMA TickInv == ASSUME IInv, Tick PROVE IInv'
<1>0. /\ now \in Nat /\ now' = now + 1 /\ polled' = FALSE
      /\ UNCHANGED <<row, shown, submissions, completions, req, faults>>
  BY DEF Tick, IInv, TypeOK
<1>1. TypeOK'
  <2>1. now + 1 \in Nat
    BY <1>0
  <2>2. now' \in Nat
    BY <1>0, <2>1, Zenon
  <2>3. polled' \in BOOLEAN
    BY <1>0, Zenon
  <2> QED
    BY <1>0, <2>2, <2>3 DEF IInv, TypeOK
<1>2. ASSUME NEW r \in Requests PROVE Sound(req[r])'
  BY <1>0, RequestFields DEF IInv, RequestsSound, Sound, SoundFor
<1>3. LateRequestsRefused'
  BY <1>0 DEF IInv, LateRequestsRefused
<1>4. AnnouncedWhenOver'
  <2>1. row \in Row => row.deadline \in Nat
    BY RowFields
  <2> QED
    BY <1>0, <2>1 DEF IInv, AnnouncedWhenOver, TypeOK
<1> QED
  BY <1>1, <1>2, <1>3, <1>4 DEF IInv, RequestsSound

LEMMA NextInv == IInv /\ [Next]_vars => IInv'
<1> SUFFICES ASSUME IInv, [Next]_vars PROVE IInv'
  OBVIOUS
<1>1. ASSUME NEW r \in Requests, Arrival(r) PROVE IInv'
  BY <1>1, ArrivalInv
<1>2. ASSUME NEW r \in Requests, RequestStep(r) PROVE IInv'
  BY <1>2, CommitSessionInv, LockInv, SendInv, PassInv, SubmissionInv, MarkInv DEF RequestStep
<1>3. ASSUME NEW r \in Requests, Fails(r) PROVE IInv'
  BY <1>3, FailsInv
<1>4. CASE Tick
  BY <1>4, TickInv
<1>5. CASE UNCHANGED vars
  BY <1>5 DEF vars, IInv, TypeOK, RequestsSound, Sound, SoundFor, LateRequestsRefused, AnnouncedWhenOver
<1> QED
  BY <1>1, <1>2, <1>3, <1>4, <1>5 DEF Next, Over

THEOREM Invariant == Spec => []IInv
BY InitInv, NextInv, PTL DEF Spec

-----------------------------------------------------------------------------
\* Rows and requests stay well typed: the code only ever writes the final
\* status "expired" (_lock_if_expired).
THEOREM TypeCorrect == Spec => []TypeOK
<1>1. IInv => TypeOK
  BY DEF IInv
<1> QED
  BY <1>1, Invariant, PTL

\* No request that arrives at or after the deadline gets a submission in,
\* whatever copy of the row it and others hold (submit).
THEOREM LateRefused == Spec => []LateRequestsRefused
<1>1. IInv => LateRequestsRefused
  BY DEF IInv
<1> QED
  BY <1>1, Invariant, PTL

\* The evaluation starts only for locked sessions, and only sessions whose
\* time is over are locked (_lock_if_expired).
THEOREM AnnouncedOver == Spec => []AnnouncedWhenOver
<1>1. IInv => AnnouncedWhenOver
  BY DEF IInv
<1> QED
  BY <1>1, Invariant, PTL

\* The candidate has one deadline, and a locked session stays locked
\* (start_session, the unique key on exam_id).
THEOREM DeadlineKept == Spec => OneDeadline
<1>1. IInv /\ [Next]_vars => [RowKept]_vars
  <2> SUFFICES ASSUME IInv, Next PROVE RowKept
    OBVIOUS
  <2>1. ASSUME NEW r \in Requests, CommitSession(r) PROVE RowKept
    BY <2>1, CommitSessionKeepsRow
  <2>2. ASSUME NEW r \in Requests, Lock(r) PROVE RowKept
    BY <2>2, LockWrites DEF RowKept
  <2>3. CASE UNCHANGED row
    BY <2>3 DEF RowKept
  <2>4. (\E r \in Requests : CommitSession(r) \/ Lock(r)) \/ UNCHANGED row
    BY DEF Next, Arrival, RequestStep, Fails, Tick, Over, vars, StartSession, ReadSession,
           ReadQuestion, MarkShown, SendSessionComplete, PassLockCheck, CommitSubmission
  <2> QED
    BY <2>1, <2>2, <2>3, <2>4
<1>2. [RowKept]_vars =>
        [row # None => /\ row' # None /\ row'.deadline = row.deadline
                       /\ row.status = "expired" => row'.status = "expired"]_vars
  BY DEF RowKept
<1> QED
  BY <1>1, <1>2, Invariant, PTL DEF Spec, OneDeadline
-----------------------------------------------------------------------------
(* The time budget: a view that found the question unseen arrived before   *)
(* the first view was written down.                                        *)

Unseen(r) == req[r].pc = "content" /\ req[r].first = None

BudgetInv == shown # None => \A r \in Requests : Unseen(r) => req[r].at <= shown

\* A step that leaves the mark alone and lets no view begin unseen.
LEMMA SameMark ==
  ASSUME BudgetInv, UNCHANGED shown,
         \A r \in Requests : Unseen(r)' => shown = None \/ (Unseen(r) /\ req'[r].at = req[r].at)
  PROVE  BudgetInv'
BY DEF BudgetInv, Unseen

\* A request that ends or moves on is no view that found the question unseen.
LEMMA MovedOn ==
  ASSUME IInv, BudgetInv, UNCHANGED shown, NEW r \in Requests, NEW x,
         req' = [req EXCEPT ![r] = x], x.pc # "content" \/ x.first = shown
  PROVE  BudgetInv'
<1>1. req \in [Requests -> RequestState]
  BY DEF IInv, TypeOK
<1>2. req'[r] = x /\ \A q \in Requests : q # r => req'[q] = req[q]
  BY <1>1
<1>3. \A q \in Requests : Unseen(q)' => shown = None \/ (Unseen(q) /\ req'[q].at = req[q].at)
  BY <1>2 DEF Unseen
<1> QED
  BY <1>3, SameMark

LEMMA BudgetStep == IInv /\ BudgetInv /\ [Next]_vars => BudgetInv'
<1> SUFFICES ASSUME IInv, BudgetInv, [Next]_vars PROVE BudgetInv'
  OBVIOUS
<1>1. ASSUME NEW r \in Requests, MarkShown(r) PROVE BudgetInv'
  <2>1. /\ req' = [req EXCEPT ![r] = Idle] /\ req \in [Requests -> RequestState]
        /\ now \in Nat /\ shown' = (IF req[r].first = None THEN now ELSE shown)
        /\ req[r].pc = "content"
    BY <1>1 DEF MarkShown, Finishes, IInv, TypeOK
  <2>2. \A q \in Requests : Unseen(q)' => Unseen(q) /\ req'[q].at = req[q].at
    BY <2>1 DEF Unseen, Idle
  <2>3. \A q \in Requests : req[q].pc # "idle" => req[q].at <= now
    BY DEF IInv, RequestsSound, Sound, SoundFor
  <2>4. CASE req[r].first = None
    BY <2>1, <2>2, <2>3, <2>4 DEF BudgetInv, Unseen
  <2>5. CASE req[r].first # None
    BY <2>1, <2>2, <2>5 DEF BudgetInv, Unseen
  <2> QED
    BY <2>4, <2>5
<1>2. ASSUME NEW r \in Requests, Arrival(r) PROVE BudgetInv'
  BY <1>2, MovedOn DEF Arrival, StartSession, ReadQuestion, ReadSession
<1>3. ASSUME NEW r \in Requests, Fails(r) \/ CommitSubmission(r) PROVE BudgetInv'
  BY <1>3, MovedOn DEF Fails, CommitSubmission, Finishes, Idle
<1>4. ASSUME NEW r \in Requests, CommitSession(r) PROVE BudgetInv'
  BY <1>4, MovedOn DEF CommitSession, Finishes, Idle, Moves, Moved
<1>5. ASSUME NEW r \in Requests, Lock(r) \/ SendSessionComplete(r) PROVE BudgetInv'
  BY <1>5, MovedOn DEF Lock, SendSessionComplete, Moves, Moved
<1>6. ASSUME NEW r \in Requests, PassLockCheck(r) PROVE BudgetInv'
  BY <1>6, MovedOn DEF PassLockCheck, Finishes, Idle, Moves, Moved
<1>7. CASE Tick \/ UNCHANGED vars
  BY <1>7, SameMark DEF Tick, vars, Unseen
<1> QED
  BY <1>1, <1>2, <1>3, <1>4, <1>5, <1>6, <1>7 DEF Next, RequestStep, Over

\* The time budget of a question starts with its first view, and only a view
\* that was under way when that was committed moves it, for any number of
\* overlapping views (repositories/sessions.py, mark_shown).
THEOREM BudgetMovedByOverlap == Spec => OnlyOverlappingViewMovesBudget
<1> DEFINE Kept == shown # None /\ shown' # shown =>
                      \E r \in Requests : req[r].pc = "content" /\ req[r].at <= shown
<1>1. Init => BudgetInv
  BY DEF Init, BudgetInv
<1>2. IInv /\ BudgetInv /\ [Next]_vars => [Kept]_vars
  <2> SUFFICES ASSUME BudgetInv, Next, shown # None, shown' # shown
               PROVE  \E r \in Requests : req[r].pc = "content" /\ req[r].at <= shown
    OBVIOUS
  <2>1. PICK r \in Requests : MarkShown(r)
    BY DEF Next, Arrival, StartSession, ReadQuestion, ReadSession, RequestStep, CommitSession,
           Lock, SendSessionComplete, PassLockCheck, CommitSubmission, Fails, Tick, Over, vars
  <2>2. Unseen(r)
    BY <2>1 DEF MarkShown, Unseen
  <2> QED
    BY <2>2 DEF BudgetInv, Unseen
<1>3. Spec => [][Kept]_vars
  BY <1>1, <1>2, InitInv, NextInv, BudgetStep, PTL DEF Spec
<1> QED
  BY <1>3 DEF OnlyOverlappingViewMovesBudget
=============================================================================
