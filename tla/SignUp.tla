------------------------------- MODULE SignUp -------------------------------
(***************************************************************************)
(* The first steps of examiners: several people, or tabs, ask for one      *)
(* e-mail address, by founding an organisation or through an admin of      *)
(* another one; whoever gets it is shown the authenticator's secret once,  *)
(* confirms a code made with it, and signs in with a later code.  Codes    *)
(* are abstracted to the secret they are made with.                        *)
(***************************************************************************)
EXTENDS Naturals, FiniteSets

CONSTANTS
  Founders,  \* register pages that use the e-mail
  Admins,    \* examiners of other organisations who add a colleague with it
  Nobody

Applicants == Founders \cup Admins

ASSUME SignUpAssumption == Nobody \notin Applicants /\ Founders \cap Admins = {}

VARIABLES
  examiner,  \* the row of the e-mail: [secret, enrolled]; Nobody's if there is none
  orgs,      \* organisations founded with it, by founder
  apply,     \* progress of each applicant's request
  secret     \* the secret each applicant has in sight: the page's, then the app's

signUpVars == <<examiner, orgs, apply, secret>>

NoRow == [secret |-> Nobody, enrolled |-> FALSE]

SignUpInit ==
  /\ examiner = NoRow /\ orgs = {}
  /\ apply = [a \in Applicants |-> "form"]
  /\ secret = [a \in Applicants |-> Nobody]

SendsForm(a) ==
  /\ apply[a] = "form"
  /\ apply' = [apply EXCEPT ![a] = "sent"]
  /\ UNCHANGED <<examiner, orgs, secret>>

LooksUpEmail(a) ==
  /\ apply[a] = "sent"
  /\ apply' = [apply EXCEPT ![a] = IF examiner = NoRow THEN "free" ELSE "taken"]
  /\ UNCHANGED <<examiner, orgs, secret>>

\* faulty variant: the organisation is committed before its admin
FoundsOrg(a) ==
  /\ apply[a] = "free" /\ a \in Founders
  /\ orgs' = orgs \cup {a}
  /\ examiner' = IF examiner = NoRow THEN [secret |-> a, enrolled |-> FALSE] ELSE examiner
  /\ apply' = [apply EXCEPT ![a] = IF examiner = NoRow THEN "made" ELSE "failed"]
  /\ UNCHANGED secret

\* register: the organisation and its admin in one commit, which the unique
\* e-mail makes fail as a whole; a secret is named for whom it was made for
Registers(a) ==
  /\ apply[a] = "free" /\ a \in Founders /\ examiner = NoRow
  /\ orgs' = orgs \cup {a} /\ examiner' = [secret |-> a, enrolled |-> FALSE]
  /\ apply' = [apply EXCEPT ![a] = "made"]
  /\ UNCHANGED secret

\* create_examiner: into the organisation of the admin
AddsExaminer(a) ==
  /\ apply[a] = "free" /\ a \in Admins /\ examiner = NoRow
  /\ examiner' = [secret |-> a, enrolled |-> FALSE]
  /\ apply' = [apply EXCEPT ![a] = "made"]
  /\ UNCHANGED <<orgs, secret>>

InsertClashes(a) ==
  /\ apply[a] = "free" /\ examiner # NoRow
  /\ apply' = [apply EXCEPT ![a] = "failed"]
  /\ UNCHANGED <<examiner, orgs, secret>>

\* the answer with the secret: the register page goes on to its second step
ShowSecret(a) ==
  /\ apply[a] = "made"
  /\ apply' = [apply EXCEPT ![a] = "enroll"] /\ secret' = [secret EXCEPT ![a] = a]
  /\ UNCHANGED <<examiner, orgs>>

\* a refusal, or the answer does not arrive: the first step again, with an error
BackToForm(a) ==
  /\ apply[a] \in {"taken", "failed", "made"}
  /\ apply' = [apply EXCEPT ![a] = "form"]
  /\ UNCHANGED <<examiner, orgs, secret>>

\* the page is loaded again or left before the secret was copied
LosesSecret(a) ==
  /\ apply[a] = "enroll"
  /\ apply' = [apply EXCEPT ![a] = "form"] /\ secret' = [secret EXCEPT ![a] = Nobody]
  /\ UNCHANGED <<examiner, orgs>>

\* verify_totp_enrollment; any number of times, a wrong code changes nothing
VerifyEnrollment(a) ==
  /\ apply[a] = "enroll" /\ secret[a] = examiner.secret
  /\ examiner' = [examiner EXCEPT !.enrolled = TRUE]
  /\ apply' = [apply EXCEPT ![a] = "login"]
  /\ UNCHANGED <<orgs, secret>>

SignsIn(a) ==
  /\ apply[a] = "login" /\ examiner.enrolled /\ secret[a] = examiner.secret
  /\ apply' = [apply EXCEPT ![a] = "in"]
  /\ UNCHANGED <<examiner, orgs, secret>>

SignUpNext ==
  \E a \in Applicants :
    \/ SendsForm(a) \/ LooksUpEmail(a) \/ Registers(a) \/ AddsExaminer(a) \/ InsertClashes(a)
    \/ ShowSecret(a) \/ BackToForm(a) \/ LosesSecret(a) \/ VerifyEnrollment(a) \/ SignsIn(a)

SignUpTypeOK ==
  /\ examiner \in [secret : Applicants \cup {Nobody}, enrolled : BOOLEAN]
  /\ orgs \subseteq Founders
  /\ apply \in [Applicants -> {"form", "sent", "free", "taken", "failed", "made", "enroll", "login", "in"}]
  /\ secret \in [Applicants -> Applicants \cup {Nobody}]

(***************************************************************************)
(* However requests for one e-mail overlap, fail or lose their answers:    *)
(* an organisation exists exactly if its founder became its admin, and a   *)
(* page that shows a secret shows the one the account has, so that nobody  *)
(* is asked for a code that can never be accepted.                         *)
(***************************************************************************)
SignUpHolds ==
  /\ orgs = {examiner.secret} \cap Founders
  /\ \A a \in Applicants : apply[a] \in {"made", "enroll", "login", "in"} => examiner.secret = a
  /\ \A a \in Applicants : apply[a] = "in" => examiner.enrolled /\ secret[a] = examiner.secret
=============================================================================
