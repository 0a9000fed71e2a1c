--------------------------- MODULE BlueprintPage ---------------------------
(***************************************************************************)
(* The form for a blueprint: rows that are edited field by field, checked  *)
(* by the page and the browser before they are sent and by the server      *)
(* afterwards.                                                             *)
(***************************************************************************)
EXTENDS Integers, Sequences, FiniteSetsExt

CONSTANTS
  Subjects,   \* the topics the page offers
  Weights, Lows, Highs, Counts, Durations,  \* what can be typed in each field
  MaxMix      \* bound on the rows

NoTopic == ""

\* every topic has an id, by which the form knows it
ASSUME PageAssumption == NoTopic \notin Subjects /\ Durations \subseteq Int /\ MaxMix \in Nat \ {0}

VARIABLES
  rows,    \* the topic mix as it stands on the page
  posted,  \* what was sent and not stored: [mix, duration, texts]
  answer   \* "none", "pending" or "refused"

mixVars == <<rows, posted, answer>>

EmptyEntry == [topic |-> NoTopic, weight |-> 100, low |-> 1, high |-> 3, count |-> 1]

\* the name, the role and the band: one is empty, or all fit, or one is longer than the server takes
TextLengths == {"empty", "fit", "long"}
NothingSent == [mix |-> <<>>, duration |-> 0, texts |-> "fit"]

PageInit == rows = <<EmptyEntry>> /\ posted = NothingSent /\ answer = "none"

-----------------------------------------------------------------------------
TotalWeight(mix) == MapThenSumSet(LAMBDA i : mix[i].weight, DOMAIN mix)
Distinct(mix)    == \A i, j \in DOMAIN mix : i # j => mix[i].topic # mix[j].topic

\* faulty variant: rows may name a topic twice
ValidateWeights(mix) ==
  /\ mix # <<>> /\ TotalWeight(mix) = 100
  /\ \A i \in DOMAIN mix : mix[i].topic # NoTopic /\ mix[i].low <= mix[i].high /\ mix[i].count >= 1

\* no problem to show; rows without a topic do not count as a repetition
ValidateTopicMix(mix) ==
  /\ mix # <<>> /\ TotalWeight(mix) = 100
  /\ \A i \in DOMAIN mix : mix[i].topic # NoTopic /\ mix[i].low <= mix[i].high /\ mix[i].count >= 1
  /\ \A i, j \in DOMAIN mix : i # j /\ mix[i].topic # NoTopic => mix[i].topic # mix[j].topic

\* the browser holds the fields to their min and max
WithinAttributes(mix) ==
  \A i \in DOMAIN mix :
    /\ mix[i].weight \in 1..100 /\ {mix[i].low, mix[i].high} \subseteq 1..5 /\ mix[i].count >= 1

EntryIsValid(e) ==
  /\ e.topic \in Subjects /\ e.weight \in 1..100
  /\ e.low \in 1..5 /\ e.high \in 1..5 /\ e.low <= e.high /\ e.count >= 1

BodyIsValid(body) ==
  /\ body.texts = "fit" /\ body.duration \in 1..1440 /\ body.mix # <<>>
  /\ \A i \in DOMAIN body.mix : EntryIsValid(body.mix[i])
  /\ TotalWeight(body.mix) = 100 /\ Distinct(body.mix)

-----------------------------------------------------------------------------
AddTopic ==
  /\ Len(rows) < MaxMix /\ rows' = Append(rows, EmptyEntry)
  /\ UNCHANGED <<posted, answer>>

RemoveTopic(i) ==
  /\ i \in DOMAIN rows
  /\ rows' = [j \in 1..Len(rows) - 1 |-> IF j < i THEN rows[j] ELSE rows[j + 1]]
  /\ UNCHANGED <<posted, answer>>

UpdateRow(i) ==
  /\ i \in DOMAIN rows
  /\ \/ \E t \in Subjects \cup {NoTopic} : rows' = [rows EXCEPT ![i].topic = t]
     \/ \E w \in Weights : rows' = [rows EXCEPT ![i].weight = w]
     \/ \E l \in Lows : rows' = [rows EXCEPT ![i].low = l]
     \/ \E h \in Highs : rows' = [rows EXCEPT ![i].high = h]
     \/ \E c \in Counts : rows' = [rows EXCEPT ![i].count = c]
  /\ UNCHANGED <<posted, answer>>

\* the texts must be there; how long they are the page does not ask
SubmitMix ==
  /\ ValidateTopicMix(rows) /\ WithinAttributes(rows) /\ answer # "pending"
  /\ \E d \in Durations, texts \in TextLengths \ {"empty"} :
       d >= 1 /\ posted' = [mix |-> rows, duration |-> d, texts |-> texts]
  /\ answer' = "pending"
  /\ UNCHANGED rows

\* an answer empties the form, whatever was typed into it meanwhile
MixStored ==
  /\ answer = "pending" /\ BodyIsValid(posted)
  /\ rows' = <<EmptyEntry>> /\ posted' = NothingSent /\ answer' = "none"

MixRefused ==
  /\ answer = "pending" /\ ~BodyIsValid(posted)
  /\ answer' = "refused" /\ posted' = [posted EXCEPT !.mix = <<>>]
  /\ UNCHANGED rows

PageNext ==
  \/ AddTopic \/ SubmitMix \/ MixStored \/ MixRefused
  \/ \E i \in 1..MaxMix : RemoveTopic(i) \/ UpdateRow(i)

\* what a row starts with, or what was typed
MixRow == [topic : Subjects \cup {NoTopic}, weight : Weights \cup {100}, low : Lows \cup {1},
           high : Highs \cup {3}, count : Counts \cup {1}]

PageTypeOK ==
  /\ rows \in Seq(MixRow) /\ Len(rows) <= MaxMix
  /\ posted \in [mix : Seq(MixRow), duration : Durations \cup {0}, texts : TextLengths]
  /\ answer \in {"none", "pending", "refused"}

(***************************************************************************)
(* The rules the page shows for a mix are the server's: it blocks no mix   *)
(* the server would store, and the server refuses no mix the page lets     *)
(* through.  What it does refuse is what the page never asks about: a      *)
(* duration of more than a day, or a name, role or band that is too long.  *)
(***************************************************************************)
PageAgreesWithServer ==
  /\ \A d \in Durations, texts \in TextLengths :
       BodyIsValid([mix |-> rows, duration |-> d, texts |-> texts])
         => ValidateTopicMix(rows) /\ WithinAttributes(rows)
  /\ answer = "refused" => posted.duration > 1440 \/ posted.texts = "long"
=============================================================================
