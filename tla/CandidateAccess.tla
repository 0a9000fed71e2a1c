--------------------------- MODULE CandidateAccess ---------------------------
(***************************************************************************)
(* How a candidate turns the mailed link into an exam token: the token's   *)
(* signature and window, Google's word for the address, the single-use key *)
(* in Redis, and only then the row.  Several exchanges of one link may run *)
(* at once (a double click, a second browser).                             *)
(***************************************************************************)
EXTENDS AiScheduling

CONSTANT Exchanges  \* exchange requests that may overlap

ASSUME AccessAssumption == IsFiniteSet(Exchanges)

VARIABLES
  exchange,  \* progress of each: [pc, invite]
  issued,    \* exam tokens handed out for each invite
  open       \* the exam window has not ended

accessVars == <<exchange, issued, open>>

NotAsked == [pc |-> "idle", invite |-> None]
Asks(x, pc) == exchange' = [exchange EXCEPT ![x].pc = pc]

AccessInit ==
  /\ Init
  /\ exchange = [x \in Exchanges |-> NotAsked]
  /\ issued = [i \in Invites |-> 0] /\ open = TRUE

\* decode_invite_token: signed for this invite, inside its window
LinkIsValid(i) == open /\ invite[i].mailed

\* Google's button on the page of the link calls back
BeginExchange(x, i) ==
  /\ LinkIsValid(i) /\ exchange[x].pc = "idle"
  /\ exchange' = [exchange EXCEPT ![x] = [pc |-> "verify", invite |-> i]]
  /\ UNCHANGED <<vars, issued, open>>

\* the identity is verified and the invited one, or the exchange is refused
VerifyIdentity(x) ==
  /\ exchange[x].pc = "verify"
  /\ Asks(x, "consume") \/ exchange' = [exchange EXCEPT ![x] = NotAsked]
  /\ UNCHANGED <<vars, issued, open>>

\* faulty variant: a look that leaves the key for the commit to remove
ConsumeKeyLater(x) ==
  LET i == exchange[x].invite
  IN  /\ exchange[x].pc = "consume" /\ invite[i].key
      /\ Asks(x, "row")
      /\ UNCHANGED <<vars, issued, open>>

\* GETDEL: whoever finds the key takes it away in the same step
ConsumeKey(x) ==
  LET i == exchange[x].invite
  IN  /\ exchange[x].pc = "consume" /\ invite[i].key
      /\ invite' = [invite EXCEPT ![i].key = FALSE]
      /\ Asks(x, "row")
      /\ UNCHANGED <<rows, job, request, stale, faults, issued, open>>

KeyIsGone(x) ==
  /\ exchange[x].pc = "consume" /\ ~invite[exchange[x].invite].key
  /\ exchange' = [exchange EXCEPT ![x] = NotAsked]
  /\ UNCHANGED <<vars, issued, open>>

MarkConsumed(x) ==
  LET i == exchange[x].invite
  IN  /\ exchange[x].pc = "row"
      /\ invite' = [invite EXCEPT ![i].row = "consumed", ![i].key = FALSE]
      /\ Asks(x, "answer")
      /\ UNCHANGED <<rows, job, request, stale, faults, issued, open>>

\* create_candidate_exam_token: the answer carries it
IssueToken(x) ==
  /\ exchange[x].pc = "answer"
  /\ issued' = [issued EXCEPT ![exchange[x].invite] = @ + 1]
  /\ exchange' = [exchange EXCEPT ![x] = NotAsked]
  /\ UNCHANGED <<vars, open>>

ExchangeFails(x) ==
  /\ exchange[x].pc # "idle"
  /\ faults < MaxFaults /\ faults' = faults + 1
  /\ exchange' = [exchange EXCEPT ![x] = NotAsked]
  /\ UNCHANGED <<rows, job, invite, request, stale, issued, open>>

\* the keys' time to live ends with the window
WindowEnds ==
  /\ open /\ open' = FALSE
  /\ invite' = [i \in Invites |-> [invite[i] EXCEPT !.key = FALSE]]
  /\ UNCHANGED <<rows, job, request, stale, faults, exchange, issued>>

ExchangeStep(x) ==
  \/ \E i \in Invites : BeginExchange(x, i)
  \/ VerifyIdentity(x) \/ ConsumeKey(x) \/ KeyIsGone(x) \/ MarkConsumed(x) \/ IssueToken(x)
  \/ ExchangeFails(x)

AccessNext ==
  \/ Next /\ UNCHANGED accessVars
  \/ \E x \in Exchanges : ExchangeStep(x)
  \/ WindowEnds

AccessSpec == AccessInit /\ [][AccessNext]_<<vars, accessVars>>

-----------------------------------------------------------------------------
(* Properties *)

TypeOK ==
  /\ SchedulingTypeOK
  /\ exchange \in [Exchanges -> [pc : {"idle", "verify", "consume", "row", "answer"},
                                 invite : Invites \cup {None}]]
  /\ issued \in [Invites -> Nat] /\ open \in BOOLEAN

\* A key buys one token: the key, the exchange that took it and the token it
\* led to are never two, and never none while nothing has failed and the window
\* is open (a candidate who has nothing left to try is locked out).
KeyBuysOneToken ==
  \A i \in Invites :
    LET buying == {x \in Exchanges : exchange[x].invite = i /\ exchange[x].pc \in {"row", "answer"}}
        n      == Cardinality(buying) + issued[i] + IF invite[i].key THEN 1 ELSE 0
    IN  /\ n <= 1
        /\ invite[i].row # "none" /\ faults = 0 /\ open => n = 1

\* "assert slot.question_id is not None" in start_session: whoever holds an
\* exam token of a scheduled exam may start it, and then every slot must have its
\* question.  Does not hold when a confirmation and a regeneration overlap.
SlotsAreFilled ==
  Scheduled /\ (\E i \in Invites : issued[i] > 0) =>
    \A s \in Slots : slot[s] # None => slot[s].question # None
=============================================================================
