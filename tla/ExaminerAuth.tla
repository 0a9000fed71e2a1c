---------------------------- MODULE ExaminerAuth ----------------------------
(***************************************************************************)
(* One examiner's account, the refresh tokens issued to it, and the        *)
(* browser tab that holds one.  The server rotates a token on every use    *)
(* and takes a second use for theft; the page lets all requests that were  *)
(* refused share one refresh.                                              *)
(***************************************************************************)
EXTENDS Naturals, FiniteSets

CONSTANTS
  None,
  Flights,    \* refresh calls that may be under way together
  MaxTokens   \* bound on the tokens issued

Tokens == 1..MaxTokens

ASSUME AuthAssumption == None \notin Tokens \cup Flights

VARIABLES
  account,    \* "unknown", "registered" or "enrolled" (TOTP verified)
  token,      \* row of each refresh token
  reuse,      \* a rotated token was presented and all were revoked
  tab,        \* the refresh token in the tab's session storage
  inFlight,   \* the refresh the tab's requests share
  leaving,    \* the token a sign-out in progress has asked to revoke
  flight,     \* the calls at the server: [pc, old, new]
  disturbed   \* a reply was lost, the edge refused, or a sign-out met a refresh

authVars == <<account, token, reuse, tab, inFlight, leaving, flight, disturbed>>

NoFlight == [pc |-> "idle", old |-> None, new |-> None]
Unissued == {t \in Tokens : token[t] = "absent"}
LiveTokens == {t \in Tokens : token[t] = "live"}

AuthInit ==
  /\ account = "unknown" /\ token = [t \in Tokens |-> "absent"] /\ reuse = FALSE
  /\ tab = None /\ inFlight = None /\ leaving = None
  /\ flight = [f \in Flights |-> NoFlight] /\ disturbed = FALSE

\* the e-mail is unique: later registrations of it are refused
Register ==
  /\ account = "unknown" /\ account' = "registered"
  /\ UNCHANGED <<token, reuse, tab, inFlight, leaving, flight, disturbed>>

VerifyTotp ==
  /\ account = "registered" /\ account' = "enrolled"
  /\ UNCHANGED <<token, reuse, tab, inFlight, leaving, flight, disturbed>>

SignIn ==
  /\ account = "enrolled" /\ tab = None /\ leaving = None
  /\ \E t \in Unissued : token' = [token EXCEPT ![t] = "live"] /\ tab' = t
  /\ UNCHANGED <<account, reuse, inFlight, leaving, flight, disturbed>>

TokenExpires(t) ==
  /\ token[t] = "live" /\ token' = [token EXCEPT ![t] = "expired"]
  /\ UNCHANGED <<account, reuse, tab, inFlight, leaving, flight, disturbed>>

Asks(f) ==
  /\ tab # None /\ flight[f].pc = "idle"
  /\ flight' = [flight EXCEPT ![f] = [pc |-> "read", old |-> tab, new |-> None]]
  /\ inFlight' = f
  /\ disturbed' = (disturbed \/ leaving # None)
  /\ UNCHANGED <<account, token, reuse, tab, leaving>>

\* faulty variant: every refused request refreshes for itself
EachRefreshes(f) == Asks(f)

\* ensureRefresh: requests that are refused meanwhile wait for the same call
EnsureRefresh(f) == inFlight = None /\ Asks(f)

ReadToken(f) ==
  /\ flight[f].pc = "read"
  /\ LET row == token[flight[f].old]
     IN  flight' = [flight EXCEPT ![f].pc = IF row = "revoked" THEN "reuse"
                                            ELSE IF row = "expired" THEN "refused" ELSE "rotate"]
  /\ UNCHANGED <<account, token, reuse, tab, inFlight, leaving, disturbed>>

\* the edge limits the rate, or the service is down: for the page this is a
\* refusal like any other, although the token is still good
EdgeRefuses(f) ==
  /\ flight[f].pc = "read"
  /\ flight' = [flight EXCEPT ![f].pc = "refused"]
  /\ disturbed' = TRUE
  /\ UNCHANGED <<account, token, reuse, tab, inFlight, leaving>>

\* revoke_all_for_examiner: an UPDATE of the rows that are not revoked yet
RevokeAll(f) ==
  /\ flight[f].pc = "reuse"
  /\ token' = [t \in Tokens |-> IF token[t] = "absent" THEN "absent" ELSE "revoked"]
  /\ reuse' = TRUE
  /\ flight' = [flight EXCEPT ![f].pc = "refused"]
  /\ UNCHANGED <<account, tab, inFlight, leaving, disturbed>>

\* the old row is revoked and its successor inserted in one commit, with no
\* second look at the old row
Rotate(f) ==
  /\ flight[f].pc = "rotate"
  /\ \E t \in Unissued :
       /\ token' = [token EXCEPT ![flight[f].old] = "revoked", ![t] = "live"]
       /\ flight' = [flight EXCEPT ![f].pc = "answered", ![f].new = t]
  /\ UNCHANGED <<account, reuse, tab, inFlight, leaving, disturbed>>

\* the answer reaches the page (setTokens or clearTokens) unless it stopped
\* waiting for this call
Answer(f) ==
  /\ flight[f].pc \in {"answered", "refused"}
  /\ flight' = [flight EXCEPT ![f] = NoFlight]
  /\ tab' = IF inFlight = f THEN flight[f].new ELSE tab
  /\ inFlight' = IF inFlight = f THEN None ELSE inFlight
  /\ UNCHANGED <<account, token, reuse, leaving, disturbed>>

\* the connection breaks or the page is loaded again: the token is kept
\* although the server may have rotated it
ReplyIsLost ==
  /\ inFlight # None /\ inFlight' = None
  /\ disturbed' = TRUE
  /\ UNCHANGED <<account, token, reuse, tab, leaving, flight>>

BeginSignOut ==
  /\ tab # None /\ leaving = None
  /\ leaving' = tab
  /\ disturbed' = (disturbed \/ inFlight # None)
  /\ UNCHANGED <<account, token, reuse, tab, inFlight, flight>>

\* logout revokes the row; a call that fails is ignored; both end in
\* clearTokens
EndSignOut ==
  /\ leaving # None
  /\ \/ token' = [token EXCEPT ![leaving] = "revoked"] /\ UNCHANGED disturbed
     \/ UNCHANGED token /\ disturbed' = TRUE
  /\ tab' = None /\ leaving' = None
  /\ UNCHANGED <<account, reuse, inFlight, flight>>

AuthNext ==
  \/ Register \/ VerifyTotp \/ SignIn \/ ReplyIsLost \/ BeginSignOut \/ EndSignOut
  \/ \E t \in Tokens : TokenExpires(t)
  \/ \E f \in Flights :
       \/ EnsureRefresh(f) \/ ReadToken(f) \/ EdgeRefuses(f)
       \/ RevokeAll(f) \/ Rotate(f) \/ Answer(f)

AuthTypeOK ==
  /\ account \in {"unknown", "registered", "enrolled"}
  /\ token \in [Tokens -> {"absent", "live", "expired", "revoked"}]
  /\ {tab, leaving} \subseteq Tokens \cup {None} /\ inFlight \in Flights \cup {None}
  /\ flight \in [Flights -> [pc : {"idle", "read", "rotate", "reuse", "answered", "refused"},
                             old : Tokens \cup {None}, new : Tokens \cup {None}]]
  /\ {reuse, disturbed} \subseteq BOOLEAN

(***************************************************************************)
(* As long as no answer is lost, the edge refuses no refresh and no        *)
(* sign-out meets one, however many requests are refused at once:          *)
(* no examiner is taken for a thief,                                       *)
(* the one live token is the tab's or on its way to it, and a tab at rest  *)
(* never holds a token that was rotated away.                              *)
(***************************************************************************)
RotationIsExact ==
  ~disturbed =>
    /\ ~reuse
    /\ \A s, t \in LiveTokens : s = t
    /\ LiveTokens \subseteq {tab} \cup {flight[f].new : f \in Flights}
    /\ (tab # None /\ inFlight = None) => token[tab] # "revoked"
=============================================================================
