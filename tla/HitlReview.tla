----------------------------- MODULE HitlReview -----------------------------
(***************************************************************************)
(* The human review of an albaran: the escalation timer, the web form in   *)
(* which a reviewer decides, the Service Bus topic that carries decisions, *)
(* and the callback handler that applies them and posts to Business        *)
(* Central.  All of them share one Cosmos document per albaran and none    *)
(* takes a lock or an etag, so every read that is followed by an await and *)
(* a whole-document upsert is two steps here, with the copy that was read  *)
(* kept in the actor.                                                      *)
(*                                                                         *)
(* Actors: one escalation timer (an hourly job with parallelism 1 and a    *)
(* timeout of half an hour: its executions do not overlap), the web-form   *)
(* requests in Request, the concurrent callback executions in Handler, and *)
(* an operator who may cancel a review.                                    *)
(***************************************************************************)
EXTENDS ProcessingRecord, ReviewerAuth, FiniteSets

CONSTANTS
  Albaran,          \* ids of the documents under review
  Request,          \* POST /review/{id}/decide requests, each made once
  Header,           \* the Authorization header of each request
  Handler,          \* concurrent executions of the decision callback
  Verdict,          \* the decisions requests ask for
  Cancellable,      \* the reviews the operator may cancel
  ReminderAfter, EscalationAfter, FinalAfter,   \* EscalationConfig, in ticks
  BatchSize,        \* query_batch_size
  MaxTime,          \* bound on the clock; a review is only opened if the clock
                    \* can still reach its last threshold
  MaxFaults         \* bound on failing calls, crashes and lost locks

ASSUME HitlAssumption ==
  /\ Request = DecisionId
  /\ None \notin Request \cup Nat \cup Albaran
  /\ Cancellable \subseteq Albaran
  /\ ReminderAfter \in Nat /\ EscalationAfter \in Nat /\ FinalAfter \in Nat
  /\ BatchSize \in Nat \ {0}
  /\ MaxTime \in Nat /\ MaxFaults \in Nat

VARIABLES
  record,    \* the documents in Cosmos
  now,       \* the clock
  handoff,   \* messages of the orchestrator on the queue hitl-review
  opening,   \* reviews whose initial notification is under way
  due,       \* timer: listed reviews it has still to notify in this cycle
  seen,      \* timer: the documents as the cycle listed them
  cycleTime, \* timer: current_time of the cycle
  mailing,   \* timer: the review whose notice is sent and not yet tracked
  request,   \* web form: the state of each request
  topic,     \* state of each decision on the hitl-decisions topic
  handler,   \* callback handler: the state of each execution
  cancelling,\* the copy a cancel_review read and has not yet written
  mail,      \* notices sent, by albaran and level
  erp,       \* receipts posted to Business Central, by albaran
  faults     \* faults so far

timerVars == <<due, seen, cycleTime, mailing>>
vars == <<record, now, handoff, opening, due, seen, cycleTime, mailing, request, topic,
          handler, cancelling, mail, erp, faults>>

RequestState == [pc : {"idle", "save", "publish", "accepted", "failed"},
                 albaran : Albaran \cup {None}, verdict : Verdict \cup {None},
                 copy : Document]
HandlerState == [pc : {"idle", "post", "posted", "refused", "reject", "settle"},
                 decision : Request \cup {None}, copy : Document, holds : BOOLEAN]

IdleRequest == [pc |-> "idle", albaran |-> None, verdict |-> None,
                copy |-> NoDocument]
IdleHandler == [pc |-> "idle", decision |-> None, copy |-> NoDocument,
                holds |-> FALSE]

Init ==
  \* A reviewer may also decide on an id that has no document yet.
  /\ record \in [Albaran -> {OrchestratorDocument("hitl_pending"), NoDocument}]
  /\ now = 0
  /\ handoff = {a \in Albaran : record[a].status = "hitl_pending"}
  /\ opening = {}
  /\ due = {}
  /\ seen = [a \in Albaran |-> NoDocument]
  /\ cycleTime = 0
  /\ mailing = None
  /\ request = [w \in Request |-> IdleRequest]
  /\ topic = [w \in Request |-> "none"]
  /\ handler = [h \in Handler |-> IdleHandler]
  /\ cancelling = [a \in Albaran |-> NoDocument]
  /\ mail = [a \in Albaran |-> [l \in Level |-> 0]]
  /\ erp = [a \in Albaran |-> 0]
  /\ faults = 0

Upsert(a, document) == record' = [record EXCEPT ![a] = document]
SendMail(a, l) == mail' = [mail EXCEPT ![a][l] = @ + 1]
Fault == faults < MaxFaults /\ faults' = faults + 1

-----------------------------------------------------------------------------
(* The clock and the opening of a review.                                  *)

\* A review that is being announced is seconds old: no threshold passes.
Tick ==
  /\ now < MaxTime
  /\ opening = {}
  /\ now' = now + 1
  /\ UNCHANGED <<record, handoff, opening, timerVars, request, topic, handler,
                 cancelling, mail, erp, faults>>

\* Nothing in src/ consumes the queue hitl-review.  This is what the end-to-end
\* tests do in its place: they seed a pending document with a created_at and
\* call handle_hitl_review at level INITIAL, which sends its notice ...
OpenReview(a) ==
  /\ a \in handoff /\ record[a].status = "hitl_pending"
  /\ now + FinalAfter <= MaxTime
  /\ Upsert(a, [OrchestratorDocument("pending") EXCEPT !.createdAt = now])
  /\ SendMail(a, "initial")
  /\ handoff' = handoff \ {a}
  /\ opening' = opening \cup {a}
  /\ UNCHANGED <<now, timerVars, request, topic, handler, cancelling, erp,
                 faults>>

\* ... and then tracks the level with an upsert of the record it was given.
TrackInitial(a) ==
  /\ a \in opening
  /\ Upsert(a, [OrchestratorDocument("pending") EXCEPT !.createdAt = now])
  /\ opening' = opening \ {a}
  /\ UNCHANGED <<now, handoff, timerVars, request, topic, handler, cancelling, mail,
                 erp, faults>>

-----------------------------------------------------------------------------
(* The escalation timer.                                                   *)

After == [l \in Notice |-> CASE l = "reminder_24h"   -> ReminderAfter
                             [] l = "escalation_48h" -> EscalationAfter
                             [] l = "final_72h"      -> FinalAfter]

\* Mutant of From: the reminder may be repeated.
FromRepeatingReminder ==
  [l \in Notice |-> CASE l = "reminder_24h"   -> {"initial", "reminder_24h"}
                      [] l = "escalation_48h" -> {"initial", "reminder_24h"}
                      [] l = "final_72h"      -> Level]

\* The levels a threshold may be acted on from.  The final notice asks only
\* that the current level is not "expired".
From == [l \in Notice |-> CASE l = "reminder_24h"   -> {"initial"}
                            [] l = "escalation_48h" -> {"initial", "reminder_24h"}
                            [] l = "final_72h"      -> Level]

DueLevels(document, time) ==
  IF document.createdAt = None THEN {}
  ELSE {l \in Notice : /\ time - document.createdAt >= After[l]
                       /\ document.level \in From[l]}

\* The thresholds are tried from the highest level down.
NextLevel(document, time) ==
  CHOOSE l \in DueLevels(document, time) :
    \A k \in DueLevels(document, time) : Rank[k] <= Rank[l]

StatusForLevel == [l \in Level |-> CASE l = "initial"        -> "pending"
                                     [] l = "reminder_24h"   -> "reminded"
                                     [] l = "escalation_48h" -> "escalated"
                                     [] l = "final_72h"      -> "expired"]

\* Mutant of Pending: the query forgets the reviews a reminder was sent for.
PendingButReminded == {a \in Albaran : record[a].status \in {"pending", "escalated"}}

Pending == {a \in Albaran : record[a].status \in PendingStatus}

\* created_at orders the listing; a document without one sorts first.
Older(d, e) == d.createdAt = None \/ (e.createdAt # None /\ d.createdAt <= e.createdAt)

\* The BatchSize oldest pending reviews.
Listing(S) ==
  /\ S \subseteq Pending
  /\ Cardinality(S) <= BatchSize
  /\ \A a \in Pending \ S : /\ Cardinality(S) = BatchSize
                            /\ \A b \in S : Older(record[b], record[a])

\* Mutant of EndCycle: the notification under way outlives its cycle.
EndCycleStillMailing ==
  /\ due' = {}
  /\ seen' = [a \in Albaran |-> NoDocument]
  /\ cycleTime' = 0
  /\ UNCHANGED mailing

EndCycle ==
  /\ due' = {}
  /\ seen' = [a \in Albaran |-> NoDocument]
  /\ mailing' = None
  /\ cycleTime' = 0

\* run_once reads the clock and lists the pending reviews.  determine_next_level
\* looks only at what was listed, so the reviews it skips are dropped at once.
StartCycle ==
  /\ due = {}
  /\ \E S \in SUBSET Albaran :
       /\ Listing(S)
       /\ due' = {a \in S : DueLevels(record[a], now) # {}}
       /\ due' # {}
       /\ seen' = [a \in Albaran |-> IF a \in due' THEN record[a] ELSE NoDocument]
  /\ cycleTime' = now
  /\ UNCHANGED <<record, now, handoff, opening, mailing, request, topic, handler,
                 cancelling, mail, erp, faults>>

\* Mutant of SendNotice: the send is started and not awaited.
SendNoticeUnawaited(a) ==
  /\ mailing = None
  /\ a \in due
  /\ \A b \in due : Older(seen[a], seen[b])
  /\ mailing' = a
  /\ UNCHANGED <<record, now, handoff, opening, due, seen, cycleTime, request, topic,
                 handler, cancelling, mail, erp, faults>>

\* handle_hitl_review sends the notice for the next listed review ...
SendNotice(a) ==
  /\ mailing = None
  /\ a \in due
  /\ \A b \in due : Older(seen[a], seen[b])
  /\ SendMail(a, NextLevel(seen[a], cycleTime))
  /\ mailing' = a
  /\ UNCHANGED <<record, now, handoff, opening, due, seen, cycleTime, request, topic,
                 handler, cancelling, erp, faults>>

\* ... and then upserts the listed copy with the new level and status.
TrackNotice ==
  /\ mailing # None
  /\ LET level == NextLevel(seen[mailing], cycleTime) IN
       Upsert(mailing, [seen[mailing] EXCEPT !.status = StatusForLevel[level],
                                             !.level = level])
  /\ IF due = {mailing} THEN EndCycle
     ELSE /\ due' = due \ {mailing}
          /\ seen' = [seen EXCEPT ![mailing] = NoDocument]
          /\ mailing' = None
          /\ UNCHANGED cycleTime
  /\ UNCHANGED <<now, handoff, opening, request, topic, handler, cancelling, mail, erp,
                 faults>>

\* A failing send or upsert leaves run_once by its exception: the rest of the
\* cycle is not done.  A crash of the job has the same effect.  A send that
\* failed may have sent the notice; that is SendNotice followed by FailCycle.
FailCycle ==
  /\ due # {}
  /\ Fault
  /\ EndCycle
  /\ UNCHANGED <<record, now, handoff, opening, request, topic, handler, cancelling,
                 mail, erp>>

-----------------------------------------------------------------------------
(* The web form: save_decision reads and upserts, then the decision is     *)
(* published and the request answered.                                     *)

\* Any other request is answered 401, 403 or 422 and changes nothing.
Decide(w, a, v) ==
  /\ request[w].pc = "idle"
  /\ IsReviewer(Header[w])
  /\ v \in {"approve", "reject", "modify"}
  /\ request' = [request EXCEPT ![w] = [pc |-> "save", albaran |-> a,
                                        verdict |-> v, copy |-> record[a]]]
  /\ UNCHANGED <<record, now, handoff, opening, timerVars, topic, handler, cancelling,
                 mail, erp, faults>>

SaveDecision(w) ==
  /\ request[w].pc = "save"
  /\ Upsert(request[w].albaran, [request[w].copy EXCEPT !.status = "decided",
                                                        !.decision = w])
  /\ request' = [request EXCEPT ![w].pc = "publish", ![w].copy = NoDocument]
  /\ UNCHANGED <<now, handoff, opening, timerVars, topic, handler, cancelling, mail,
                 erp, faults>>

\* Mutant of PublishDecision: the request is answered without publishing.
AcceptUnpublished(w) ==
  /\ request[w].pc = "publish"
  /\ request' = [request EXCEPT ![w].pc = "accepted"]
  /\ UNCHANGED <<record, now, handoff, opening, timerVars, topic, handler, cancelling,
                 mail, erp, faults>>

PublishDecision(w) ==
  /\ request[w].pc = "publish"
  /\ topic' = [topic EXCEPT ![w] = "queued"]
  /\ request' = [request EXCEPT ![w].pc = "accepted"]
  /\ UNCHANGED <<record, now, handoff, opening, timerVars, handler, cancelling, mail,
                 erp, faults>>

\* The reviewer sees an error.  A publish that failed may have published.
FailRequest(w) ==
  /\ request[w].pc \in {"save", "publish"}
  /\ Fault
  /\ request' = [request EXCEPT ![w].pc = "failed", ![w].copy = NoDocument]
  /\ \/ UNCHANGED topic
     \/ request[w].pc = "publish" /\ topic' = [topic EXCEPT ![w] = "queued"]
  /\ UNCHANGED <<record, now, handoff, opening, timerVars, handler, cancelling, mail,
                 erp>>

-----------------------------------------------------------------------------
(* The callback: handle_decision reads the document, posts to Business     *)
(* Central if the decision approves, and upserts the outcome.  The         *)
(* subscriber that calls it is not in src/: it is a Service Bus receiver   *)
(* in peek-lock mode, which completes the message when the handler returns *)
(* and lets it be delivered again when it raises or the lock runs out.     *)

Approving == {"approve", "modify"}
Subject(h) == request[handler[h].decision].albaran

\* Mutant of ReceiveDecision: a rejection is posted like an approval.
ReceivePostingAlways(h, w) ==
  /\ topic[w] = "queued"
  /\ handler[h].pc = "idle"
  /\ topic' = [topic EXCEPT ![w] = "locked"]
  /\ handler' = [handler EXCEPT ![h] =
       [pc |-> "post",
        decision |-> w, copy |-> record[request[w].albaran], holds |-> TRUE]]
  /\ UNCHANGED <<record, now, handoff, opening, timerVars, request, cancelling, mail,
                 erp, faults>>

\* Delivery of decision w to h, and the read of the document, which
\* save_decision has created by then if there was none.
ReceiveDecision(h, w) ==
  /\ topic[w] = "queued"
  /\ handler[h].pc = "idle"
  /\ topic' = [topic EXCEPT ![w] = "locked"]
  /\ handler' = [handler EXCEPT ![h] =
       [pc |-> IF request[w].verdict \in Approving THEN "post" ELSE "reject",
        decision |-> w, copy |-> record[request[w].albaran], holds |-> TRUE]]
  /\ UNCHANGED <<record, now, handoff, opening, timerVars, request, cancelling, mail,
                 erp, faults>>

\* The inventory processor posts the receipt, or reports that it could not.
PostInventory(h) ==
  /\ handler[h].pc = "post"
  /\ \/ /\ erp' = [erp EXCEPT ![Subject(h)] = @ + 1]
        /\ handler' = [handler EXCEPT ![h].pc = "posted"]
     \/ /\ handler' = [handler EXCEPT ![h].pc = "refused"]
        /\ UNCHANGED erp
  /\ UNCHANGED <<record, now, handoff, opening, timerVars, request, topic, cancelling,
                 mail, faults>>

\* Mutant of Outcome: the result of the posting is not looked at.
OutcomeAlwaysPosted ==
  [pc \in {"posted", "refused", "reject"} |->
     IF pc = "reject" THEN "rejected" ELSE "completed"]

Outcome == [pc \in {"posted", "refused", "reject"} |->
              CASE pc = "posted"  -> "completed"
                [] pc = "refused" -> "hitl_pending"
                [] pc = "reject"  -> "rejected"]

WriteOutcome(h) ==
  /\ handler[h].pc \in DOMAIN Outcome
  /\ Upsert(Subject(h),
            [handler[h].copy EXCEPT !.status = Outcome[handler[h].pc],
                                    !.decision = handler[h].decision])
  /\ handler' = [handler EXCEPT ![h].pc = "settle", ![h].copy = NoDocument]
  /\ UNCHANGED <<now, handoff, opening, timerVars, request, topic, cancelling, mail,
                 erp, faults>>

\* The handler returned: the message is completed, if its lock still holds.
SettleDecision(h) ==
  /\ handler[h].pc = "settle"
  /\ topic' = IF handler[h].holds
              THEN [topic EXCEPT ![handler[h].decision] = "done"] ELSE topic
  /\ handler' = [handler EXCEPT ![h] = IdleHandler]
  /\ UNCHANGED <<record, now, handoff, opening, timerVars, request, cancelling, mail,
                 erp, faults>>

\* The handler raises or crashes, at any point; the posting may have been done.
FailHandler(h) ==
  /\ handler[h].pc # "idle"
  /\ Fault
  /\ topic' = IF handler[h].holds
              THEN [topic EXCEPT ![handler[h].decision] = "queued"] ELSE topic
  /\ handler' = [handler EXCEPT ![h] = IdleHandler]
  /\ UNCHANGED <<record, now, handoff, opening, timerVars, request, cancelling, mail,
                 erp>>

\* The lock runs out while the handler is still at work.
ExpireLock(h) ==
  /\ handler[h].pc # "idle" /\ handler[h].holds
  /\ Fault
  /\ topic' = [topic EXCEPT ![handler[h].decision] = "queued"]
  /\ handler' = [handler EXCEPT ![h].holds = FALSE]
  /\ UNCHANGED <<record, now, handoff, opening, timerVars, request, cancelling, mail,
                 erp>>

-----------------------------------------------------------------------------
(* cancel_review: a read and an upsert.                                    *)

BeginCancel(a) ==
  /\ a \in Cancellable
  /\ record[a].status # "absent"
  /\ cancelling[a] = NoDocument
  /\ cancelling' = [cancelling EXCEPT ![a] = record[a]]
  /\ UNCHANGED <<record, now, handoff, opening, timerVars, request, topic, handler,
                 mail, erp, faults>>

EndCancel(a) ==
  /\ cancelling[a] # NoDocument
  /\ Upsert(a, [cancelling[a] EXCEPT !.status = "cancelled"])
  /\ cancelling' = [cancelling EXCEPT ![a] = NoDocument]
  /\ UNCHANGED <<now, handoff, opening, timerVars, request, topic, handler, mail, erp,
                 faults>>

-----------------------------------------------------------------------------
Timer == StartCycle \/ TrackNotice \/ \E a \in Albaran : SendNotice(a)
WebForm(w) == SaveDecision(w) \/ PublishDecision(w)
Callback(h) ==
  \/ \E w \in Request : ReceiveDecision(h, w)
  \/ PostInventory(h) \/ WriteOutcome(h) \/ SettleDecision(h)
Failures ==
  \/ FailCycle
  \/ \E w \in Request : FailRequest(w)
  \/ \E h \in Handler : FailHandler(h) \/ ExpireLock(h)

Next ==
  \/ Tick
  \/ \E a \in Albaran : \/ OpenReview(a) \/ TrackInitial(a)
                        \/ BeginCancel(a) \/ EndCancel(a)
  \/ \E w \in Request, a \in Albaran, v \in Verdict : Decide(w, a, v)
  \/ Timer
  \/ \E w \in Request : WebForm(w)
  \/ \E h \in Handler : Callback(h)
  \/ Failures

Spec == Init /\ [][Next]_vars

\* The job is started every hour, the clock runs, and a process that is not
\* stopped by a fault finishes the coroutine it is in.  Reviewers and the
\* operator owe nothing.
Fairness ==
  /\ WF_vars(Tick)
  /\ WF_vars(Timer)
  /\ \A a \in Albaran : WF_vars(TrackInitial(a)) /\ WF_vars(EndCancel(a))
  /\ \A w \in Request : WF_vars(WebForm(w))
  /\ \A h \in Handler : WF_vars(Callback(h))

FairSpec == Spec /\ Fairness

-----------------------------------------------------------------------------
(* Properties.                                                             *)

\* Types, and the part of them that says where a copy or a lock can be.
TypeOK ==
  /\ record \in [Albaran -> Document]
  /\ now \in Nat
  /\ handoff \subseteq Albaran
  /\ opening \subseteq Albaran
  /\ due \subseteq Albaran
  /\ seen \in [Albaran -> Document]
  /\ cycleTime \in Nat
  /\ mailing \in due \cup {None}
  /\ request \in [Request -> RequestState]
  /\ topic \in [Request -> {"none", "queued", "locked", "done"}]
  /\ handler \in [Handler -> HandlerState]
  /\ cancelling \in [Albaran -> Document]
  /\ mail \in [Albaran -> [Level -> Nat]]
  /\ erp \in [Albaran -> Nat]
  /\ faults \in Nat

\* A document never claims an escalation level whose notice was not sent,
\* whatever stale copy of it was written last: handle_hitl_review sends before
\* it tracks, and every other writer copies a level it has read.
LevelWasNotified ==
  \A a \in Albaran :
    record[a].level # "initial" => mail[a][record[a].level] > 0

\* A completed review carries an approving decision and its receipt is in
\* Business Central; a rejected one carries a rejection.  Other writers may
\* copy the document meanwhile, but none of them may forge an outcome.
OutcomeMatchesDecision ==
  \A a \in Albaran :
    /\ record[a].status = "completed" =>
         /\ erp[a] > 0
         /\ record[a].decision \in Request
         /\ request[record[a].decision].verdict \in Approving
    /\ record[a].status = "rejected" =>
         /\ record[a].decision \in Request
         /\ request[record[a].decision].verdict = "reject"

\* Every receipt in Business Central is accounted for by an approving decision
\* that was published, or by a fault that made one be delivered again: a
\* callback that returns is not run a second time for the same decision.
ReceiptsAccountedFor ==
  \A a \in Albaran :
    erp[a] <= faults + Cardinality({w \in Request : /\ topic[w] # "none"
                                                  /\ request[w].albaran = a
                                                  /\ request[w].verdict \in Approving})

\* A notice of a level goes out once per review, plus at most once for each
\* fault: a stale copy written over a newer document never makes the timer
\* repeat a level by itself.
OneNoticePerLevel ==
  \A a \in Albaran, l \in Level : mail[a][l] <= 1 + faults

\* An open review does not stay open: it is answered, cancelled or expires.
PendingReviewEnds ==
  \A a \in Albaran :
    record[a].status \in PendingStatus ~> record[a].status \notin PendingStatus

\* A decision the reviewer was told is accepted is applied by the callback.
AcceptedDecisionIsApplied ==
  \A w \in Request : request[w].pc = "accepted" ~> topic[w] = "done"

-----------------------------------------------------------------------------
(* What the documentation says and the code does not do.                   *)

\* A response marks the review as resolved and stops its reminders: once a
\* decision is accepted the document is not in a state of the escalation.
ResponseStopsEscalation ==
  \A w \in Request :
    request[w].pc = "accepted" =>
      record[request[w].albaran].status \notin {"reminded", "escalated", "expired"}
=============================================================================
