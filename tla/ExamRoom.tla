------------------------------ MODULE ExamRoom ------------------------------
(***************************************************************************)
(* The candidate's page.  What it shows is kept in caches that answers     *)
(* fill when they arrive: the content of each question, the editor's text, *)
(* the state of the session.  Drafts are stored in the tab by question and *)
(* language, and the rest is gone when the tab is loaded again.            *)
(***************************************************************************)
EXTENDS Naturals, FiniteSets

CONSTANTS
  Ordinals, Languages,
  MaxDeeds  \* bound on edits, changes of language, submissions, reloads,
            \* follow-ups and the lock together

ASSUME RoomAssumption == Ordinals \in SUBSET (Nat \ {0}) /\ Ordinals # {} /\ "python" \in Languages

VARIABLES
  assigned,  \* server: the version each question stands for
  over,      \* server: the session is locked
  graded,    \* server: submissions it took: [of, own, shown]
  active, language, source,  \* what the candidate works on, and the editor
  saved,     \* sessionStorage: the draft of each question and language
  loaded,    \* query cache: version of each question's content, or 0
  stale,     \* questions whose content was invalidated
  fetch,     \* requests for the content: [busy, read]
  sending,   \* the submission under way, at most one: [pc, of, own, shown, version]
  ended,     \* the page knows that the session is over
  hasty,     \* drafts touched, or submitted, while their question was loading
  raced,     \* questions whose answer found an older fetch still under way
  heard,     \* the last version of each question a submission was answered for
  typed, deeds

roomVars == <<assigned, over, graded, active, language, source, saved, loaded, stale, fetch,
              sending, ended, hasty, raced, heard, typed, deeds>>
serverVars == <<assigned, over, graded>>
ghosts     == <<hasty, raced, heard, deeds>>

Keys         == Ordinals \X Languages  \* draftKey
Empty        == [of |-> <<0, "none">>, n |-> 0]
StarterOf(k) == [of |-> k, n |-> 0]
Idle         == [busy |-> FALSE, read |-> 0]
Asked        == [busy |-> TRUE, read |-> 0]
FirstQuestion == CHOOSE o \in Ordinals : \A p \in Ordinals : o <= p

Here    == <<active, language>>
Waiting == active # 0 /\ loaded[active] = 0   \* "Loading question..."

\* the saved draft, else the starter code
Seed(k) == IF saved[k] = Empty THEN StarterOf(k) ELSE saved[k]

FreshPage ==
  /\ active' = 0 /\ source' = Empty /\ loaded' = [o \in Ordinals |-> 0] /\ stale' = {}
  /\ fetch' = [o \in Ordinals |-> Idle] /\ sending' = {} /\ ended' = FALSE

Acts == deeds < MaxDeeds /\ deeds' = deeds + 1

RoomInit ==
  /\ assigned = [o \in Ordinals |-> 1] /\ over = FALSE /\ graded = {}
  /\ active = 0 /\ language = "python" /\ source = Empty
  /\ saved = [k \in Keys |-> Empty] /\ typed = [k \in Keys |-> 0]
  /\ loaded = [o \in Ordinals |-> 0] /\ stale = {} /\ fetch = [o \in Ordinals |-> Idle]
  /\ sending = {} /\ ended = FALSE
  /\ hasty = {} /\ raced = {} /\ heard = [o \in Ordinals |-> 0] /\ deeds = 0

-----------------------------------------------------------------------------
(* What the candidate does. *)

\* a query that has content is asked again, one still loading is left alone
Refetched(o) == IF fetch[o].busy /\ loaded[o] = 0 THEN fetch[o] ELSE Asked

Observe(o) ==
  fetch' = IF ~fetch[o].busy /\ (loaded[o] = 0 \/ o \in stale)
           THEN [fetch EXCEPT ![o] = Asked] ELSE fetch

\* the session has arrived: the first question is shown
EnterRoom ==
  /\ active = 0 /\ active' = FirstQuestion /\ Observe(FirstQuestion)
  /\ ended' = over
  /\ UNCHANGED <<serverVars, language, source, saved, loaded, stale, sending, typed, ghosts>>

\* the editor is seeded once there is content; until then it keeps its text
Select(o) ==
  /\ active # 0 /\ o # active /\ active' = o /\ Observe(o)
  /\ source' = IF loaded[o] = 0 THEN source ELSE Seed(<<o, language>>)
  /\ UNCHANGED <<serverVars, language, saved, loaded, stale, sending, ended,
                typed, ghosts>>

ChooseLanguage(l) ==
  /\ active # 0 /\ ~ended /\ Acts /\ l # language /\ language' = l
  /\ source' = IF Waiting THEN source ELSE Seed(<<active, l>>)
  /\ UNCHANGED <<serverVars, active, saved, loaded, stale, fetch, sending, ended,
                hasty, raced, heard, typed>>

Type ==
  /\ active # 0 /\ ~ended /\ Acts
  /\ source' = IF source = Empty THEN [of |-> Here, n |-> 1] ELSE [source EXCEPT !.n = @ + 1]
  /\ saved' = [saved EXCEPT ![Here] = source']
  /\ typed' = [typed EXCEPT ![Here] = @ + 1]
  /\ hasty' = IF Waiting THEN hasty \cup {Here} ELSE hasty
  /\ UNCHANGED <<serverVars, active, language, loaded, stale, fetch, sending, ended,
                raced, heard>>

\* run: whose text it is, and whether the page shows what it is sent for
Send ==
  /\ active # 0 /\ ~ended /\ sending = {} /\ Acts
  /\ sending' = {[pc |-> "sent", of |-> Here, own |-> source.of = Here,
                  shown |-> loaded[active] \in {0, assigned[active]}, version |-> 0]}
  /\ hasty' = IF Waiting THEN hasty \cup {Here} ELSE hasty
  /\ UNCHANGED <<serverVars, active, language, source, saved, loaded, stale, fetch, ended,
                 raced, heard, typed>>

Graded(s) == [of |-> s.of, own |-> s.own, shown |-> s.shown]

\* the tab is loaded again: only sessionStorage survives; the server may have
\* taken what was sent, and nobody hears the answer
Reload ==
  /\ active # 0 /\ Acts /\ FreshPage
  /\ \E S \in SUBSET {Graded(s) : s \in {t \in sending : t.pc = "sent" /\ ~over}} :
       graded' = graded \cup S
  /\ language' = "python"
  /\ UNCHANGED <<assigned, over, saved, typed, hasty, raced, heard>>

-----------------------------------------------------------------------------
(* The server, and its answers. *)

PushVersion(o) ==
  /\ ~over /\ Acts
  /\ assigned' = [assigned EXCEPT ![o] = @ + 1]
  /\ UNCHANGED <<over, graded, active, language, source, saved, loaded, stale, fetch, sending,
                ended, hasty, raced, heard, typed>>

SessionLocks ==
  /\ ~over /\ Acts /\ over' = TRUE
  /\ UNCHANGED <<assigned, graded, active, language, source, saved, loaded, stale, fetch,
                 sending,
                ended, hasty, raced, heard, typed>>

TakeSubmission(s) ==
  /\ s.pc = "sent"
  /\ IF over THEN sending' = {[s EXCEPT !.pc = "refused"]} /\ UNCHANGED graded
     ELSE /\ sending' = {[s EXCEPT !.pc = "taken", !.version = assigned[s.of[1]]]}
          /\ graded' = graded \cup {Graded(s)}
  /\ UNCHANGED <<assigned, over, active, language, source, saved, loaded, stale, fetch, ended,
                typed, ghosts>>

\* faulty variant: the contents are cached under a key of their own, which the
\* invalidation of ["session"] does not reach
ReplyForgetsContent(s) ==
  /\ s.pc # "sent" /\ sending' = {}
  /\ heard' = IF s.pc = "refused" THEN heard ELSE [heard EXCEPT ![s.of[1]] = s.version]
  /\ UNCHANGED <<serverVars, active, language, source, saved, loaded, stale, fetch, ended,
                hasty, raced, typed, deeds>>

\* after a success everything below ["session"] is invalidated, the contents of
\* the questions with it: the one that is shown is fetched again at once
ReplyArrives(s) ==
  LET o == s.of[1]
  IN  /\ s.pc # "sent" /\ sending' = {}
      /\ IF s.pc = "refused" THEN UNCHANGED <<stale, fetch, heard, raced>>
         ELSE /\ stale' = Ordinals
              /\ fetch' = [fetch EXCEPT ![active] = Refetched(active)]
              /\ heard' = [heard EXCEPT ![o] = s.version]
              /\ raced' = IF fetch[o].busy /\ (loaded[o] = 0 \/ o # active)
                          THEN raced \cup {o} ELSE raced
      /\ UNCHANGED <<serverVars, active, language, source, saved, loaded, ended,
                    hasty, typed, deeds>>

ReadContent(o) ==
  /\ fetch[o] = Asked /\ fetch' = [fetch EXCEPT ![o].read = assigned[o]]
  /\ UNCHANGED <<serverVars, active, language, source, saved, loaded, stale, sending, ended,
                typed, ghosts>>

ContentArrives(o) ==
  /\ fetch[o].read # 0
  /\ loaded' = [loaded EXCEPT ![o] = fetch[o].read] /\ stale' = stale \ {o}
  /\ fetch' = [fetch EXCEPT ![o] = Idle]
  /\ source' = IF o = active /\ loaded'[o] # loaded[o] THEN Seed(Here) ELSE source
  /\ UNCHANGED <<serverVars, active, language, saved, sending, ended, typed, ghosts>>

ContentFails(o) ==
  /\ fetch[o].busy /\ fetch' = [fetch EXCEPT ![o] = Idle]
  /\ UNCHANGED <<serverVars, active, language, source, saved, loaded, stale, sending, ended,
                typed, ghosts>>

\* every 30 seconds, after a submission and at the end of the countdown
SessionArrives ==
  /\ active # 0 /\ ~ended
  /\ over /\ ended' = TRUE
  /\ UNCHANGED <<serverVars, active, language, source, saved, loaded, stale, fetch, sending,
                typed, ghosts>>

RoomNext ==
  \/ EnterRoom \/ Type \/ Send \/ Reload \/ SessionLocks \/ SessionArrives
  \/ \E l \in Languages : ChooseLanguage(l)
  \/ \E s \in sending : TakeSubmission(s) \/ ReplyArrives(s)
  \/ \E o \in Ordinals : \/ Select(o) \/ PushVersion(o)
                         \/ ReadContent(o) \/ ContentArrives(o) \/ ContentFails(o)

RoomSpec == RoomInit /\ [][RoomNext]_roomVars

RoomTypeOK ==
  /\ active \in Ordinals \cup {0} /\ language \in Languages /\ stale \subseteq Ordinals
  /\ \A o \in Ordinals : {loaded[o], fetch[o].read} \subseteq 0..assigned[o]
  /\ Cardinality(sending) <= 1 /\ DOMAIN saved = Keys
  /\ hasty \subseteq Keys /\ raced \subseteq Ordinals

-----------------------------------------------------------------------------
(***************************************************************************)
(* However answers arrive, questions and languages are changed, and the    *)
(* tab is loaded again: the editor shows the draft of the question and     *)
(* language it is for, no draft is lost or mixed up with another one, and  *)
(* what is submitted was written for its question, except what the         *)
(* candidate typed or sent while the question was still loading.  And once *)
(* a submission is answered, the version it was graded against is what the *)
(* page shows of that question, unless it is marked to be fetched again or *)
(* the answer met an older fetch of it that nothing cancels.               *)
(***************************************************************************)
RoomKeepsItsWork ==
  /\ active # 0 /\ ~Waiting => source = Seed(Here)
  /\ \A k \in Keys \ hasty : saved[k] \in {Empty, [of |-> k, n |-> typed[k]]}
                             /\ (saved[k] = Empty => typed[k] = 0)
  /\ \A g \in graded : g.of \notin hasty => g.own
  /\ \A o \in Ordinals \ (stale \cup raced) :
       loaded[o] # 0 => loaded[o] >= heard[o]

(***************************************************************************)
(* Not true of the code: that a question the page shows is the version its *)
(* submission is due to be graded against.  The contents never go stale by *)
(* themselves, and a follow-up invalidates nothing.                        *)
(***************************************************************************)
GradedAsShown == \A g \in graded : g.shown

(***************************************************************************)
(* Not true of the code: that a draft holds what was written for it.       *)
(***************************************************************************)
DraftsAreTheirOwn == \A k \in Keys : saved[k] \in {Empty, [of |-> k, n |-> typed[k]]}
=============================================================================
