---------------------------- MODULE AtLeastOnce -----------------------------
(***************************************************************************)
(* What the extraction queue and its consumers promise together, whatever  *)
(* replicas, batches and locks there are.  A message that was sent leaves  *)
(* the queue in one of two ways.  It is done, once the outcome of its      *)
(* document is written and, if that is a review, handed over to the        *)
(* reviewers.  Or it is given up, after a written failure at its last      *)
(* attempt, or because the broker has delivered it often enough.  Until    *)
(* then an attempt that comes to nothing leaves it in the queue.           *)
(***************************************************************************)
EXTENDS Naturals

CONSTANTS
  Albaran, Message,
  Target,          \* the document of each message
  Outcome,         \* the statuses a document ends a run with
  MaxAttempts,     \* a written failure is tried again below this many attempts
  BrokerLimit      \* attempts after which the broker keeps no message

VARIABLES
  doc,             \* status of each document
  reviews,         \* how often each document was handed over for review
  state,           \* where each message is
  attempts,        \* deliveries of each message
  progress         \* what the attempt under way has achieved

vars == <<doc, reviews, state, attempts, progress>>

Init ==
  /\ doc = [d \in Albaran |-> "absent"]
  /\ reviews = [d \in Albaran |-> 0]
  /\ state = [m \in Message |-> "waiting"]
  /\ attempts = [m \in Message |-> 0]
  /\ progress = [m \in Message |-> "none"]

SetDoc(m, status) == doc' = [doc EXCEPT ![Target[m]] = status]
HandedOver(m) == reviews' = [reviews EXCEPT ![Target[m]] = @ + 1]
Reach(m, p) == progress' = [progress EXCEPT ![m] = p]
Move(m, s) == state' = [state EXCEPT ![m] = s]

Kept(m) == IF attempts[m] >= BrokerLimit THEN "given_up" ELSE "waiting"

\* Some waiting messages are delivered.
Take(S) ==
  /\ \A m \in S : state[m] = "waiting"
  /\ state' = [m \in Message |-> IF m \in S THEN "taken" ELSE state[m]]
  /\ attempts' = [m \in Message |-> IF m \in S THEN attempts[m] + 1 ELSE attempts[m]]
  /\ UNCHANGED <<doc, reviews, progress>>

\* An attempt may mark its document, and may leave on it what it could not
\* be sure to have written.
Mark(m, status) ==
  /\ state[m] = "taken" /\ progress[m] = "none"
  /\ SetDoc(m, status)
  /\ UNCHANGED <<reviews, state, attempts, progress>>

Record(m, status) ==
  /\ state[m] = "taken" /\ progress[m] = "none"
  /\ SetDoc(m, status)
  /\ Reach(m, IF status = "hitl_pending" THEN "review" ELSE "recorded")
  /\ UNCHANGED <<reviews, state, attempts>>

HandOver(m) ==
  /\ state[m] = "taken" /\ progress[m] = "review"
  /\ HandedOver(m)
  /\ Reach(m, "recorded")
  /\ UNCHANGED <<doc, state, attempts>>

RecordFailure(m) ==
  /\ state[m] = "taken" /\ progress[m] = "none"
  /\ SetDoc(m, "failed")
  /\ Reach(m, "failure")
  /\ UNCHANGED <<reviews, state, attempts>>

\* What the attempt achieved is forgotten; a hand-over may have been made.
Lose(m) ==
  /\ state[m] = "taken"
  /\ Reach(m, "none")
  /\ UNCHANGED reviews \/ (progress[m] = "review" /\ HandedOver(m))
  /\ UNCHANGED <<doc, state, attempts>>

Release(m) ==
  /\ state[m] = "taken" /\ progress[m] = "none"
  /\ Move(m, Kept(m))
  /\ UNCHANGED <<doc, reviews, attempts, progress>>

Finish(m) ==
  /\ state[m] = "taken"
  /\ \/ progress[m] = "recorded" /\ Move(m, "done")
     \/ progress[m] = "failure" /\ attempts[m] >= MaxAttempts /\ Move(m, "given_up")
     \/ progress[m] = "failure" /\ attempts[m] < MaxAttempts /\ Move(m, Kept(m))
  /\ Reach(m, "none")
  /\ UNCHANGED <<doc, reviews, attempts>>

Next ==
  \/ \E S \in SUBSET Message : Take(S)
  \/ \E m \in Message :
       \/ \E status \in {"processing"} \cup Outcome : Mark(m, status)
       \/ \E status \in Outcome : Record(m, status)
       \/ HandOver(m) \/ RecordFailure(m) \/ Lose(m) \/ Release(m) \/ Finish(m)

Spec == Init /\ [][Next]_vars
=============================================================================
