-------------------------- MODULE HitlReviewProofs --------------------------
(***************************************************************************)
(* Proofs about HitlReview, for any number of albaranes, web-form          *)
(* requests, callback executions and faults.                               *)
(*                                                                         *)
(* The argument has two layers.  Shape is inductive by itself: the types,  *)
(* and what ties the actors to each other (a request that has begun knows  *)
(* its albaran and verdict, a decision is on the topic only if its request *)
(* has begun, a listed review has a level due).  Over it, Honest says that *)
(* every document in the system, in Cosmos or in the hands of an actor     *)
(* that read it and may write it back, tells the truth about the notices,  *)
(* the receipts and the decisions; no document becomes false later because *)
(* notices, receipts and verdicts are never taken back.                    *)
(*                                                                         *)
(* The two counts need more.  NoticesKept knows which levels above the one *)
(* of a document, or of the timer's copy, were not notified yet but for    *)
(* faults; Balance keeps a receipt for every decision that waits or is     *)
(* being posted.                                                           *)
(***************************************************************************)
EXTENDS HitlReview, FiniteSetTheorems, TLAPS

RequestsKnown ==
  \A w \in Request :
    /\ request[w].pc # "idle" =>
         /\ request[w].albaran \in Albaran
         /\ request[w].verdict \in Verdict \cap {"approve", "reject", "modify"}
    /\ topic[w] # "none" => request[w].pc # "idle"

HandlersKnown ==
  \A h \in Handler :
    handler[h].pc # "idle" => handler[h].decision \in Request /\ topic[handler[h].decision] # "none"

SeenAreDue == \A a \in due : DueLevels(seen[a], cycleTime) # {}

Shape == TypeOK /\ RequestsKnown /\ HandlersKnown /\ SeenAreDue

-----------------------------------------------------------------------------
LEMMA NoDocumentIsADocument == NoDocument \in Document
  BY DEF NoDocument, Document, Status, Level

LEMMA OrchestratorWritesADocument ==
  ASSUME NEW s \in Status
  PROVE  OrchestratorDocument(s) \in Document
  BY DEF OrchestratorDocument, NoDocument, Document, Status, Level

LEMMA UpdatedDocument ==
  ASSUME NEW d \in Document, NEW s \in Status
  PROVE  /\ [d EXCEPT !.status = s] \in Document
         /\ \A t \in Nat : [d EXCEPT !.createdAt = t] \in Document
         /\ \A w \in DecisionId \cup {None} :
              [d EXCEPT !.status = s, !.decision = w] \in Document
         /\ \A l \in Level : [d EXCEPT !.status = s, !.level = l] \in Document
  BY DEF Document

\* Whatever document is written, the container keeps its type.
LEMMA UpsertKeepsType ==
  ASSUME NEW a, NEW d \in Document, record \in [Albaran -> Document], Upsert(a, d)
  PROVE  record' \in [Albaran -> Document]
  BY DEF Upsert

LEMMA IdleStates ==
  IdleRequest \in RequestState /\ IdleHandler \in HandlerState
  BY NoDocumentIsADocument DEF IdleRequest, IdleHandler, RequestState, HandlerState

\* What a request and a callback write into their own state keeps its type.
LEMMA UpdatedRequest ==
  ASSUME NEW r \in RequestState
  PROVE  /\ [r EXCEPT !.pc = "accepted"] \in RequestState
         /\ [r EXCEPT !.pc = "publish", !.copy = NoDocument] \in RequestState
         /\ [r EXCEPT !.pc = "failed", !.copy = NoDocument] \in RequestState
  BY NoDocumentIsADocument DEF RequestState

LEMMA UpdatedHandler ==
  ASSUME NEW x \in HandlerState
  PROVE  /\ [x EXCEPT !.pc = "posted"] \in HandlerState
         /\ [x EXCEPT !.pc = "refused"] \in HandlerState
         /\ [x EXCEPT !.pc = "settle", !.copy = NoDocument] \in HandlerState
         /\ [x EXCEPT !.holds = FALSE] \in HandlerState
  BY NoDocumentIsADocument DEF HandlerState

\* The level the timer picks is one of those that are due.
LEMMA NextLevelIsDue ==
  ASSUME NEW d, NEW time, DueLevels(d, time) # {}
  PROVE  NextLevel(d, time) \in DueLevels(d, time)
<1> DEFINE D == DueLevels(d, time)
<1>1. D \subseteq {"reminder_24h", "escalation_48h", "final_72h"}
  BY DEF DueLevels, Notice, Level
<1>2. Rank["reminder_24h"] = 1 /\ Rank["escalation_48h"] = 2 /\ Rank["final_72h"] = 3
  BY DEF Rank, Level
<1>3. \E l \in D : \A k \in D : Rank[k] <= Rank[l]
  <2>1. CASE "final_72h" \in D
    BY <1>1, <1>2, <2>1
  <2>2. CASE "final_72h" \notin D /\ "escalation_48h" \in D
    BY <1>1, <1>2, <2>2
  <2>3. CASE "final_72h" \notin D /\ "escalation_48h" \notin D
    BY <1>1, <1>2, <2>3
  <2> QED BY <2>1, <2>2, <2>3
<1> QED BY <1>3 DEF NextLevel

-----------------------------------------------------------------------------
LEMMA ShapeInit == Init => Shape
<1> SUFFICES ASSUME Init PROVE Shape
  OBVIOUS
<1> USE HitlAssumption
<1>1. TypeOK
  BY NoDocumentIsADocument, OrchestratorWritesADocument, IdleStates
     DEF Init, TypeOK, Status
<1>2. RequestsKnown /\ HandlersKnown /\ SeenAreDue
  BY DEF Init, RequestsKnown, HandlersKnown, SeenAreDue, IdleRequest, IdleHandler
<1> QED BY <1>1, <1>2 DEF Shape

\* One step per action that can disturb the shape of the state.
LEMMA ShapeStep == Shape /\ [Next]_vars => Shape'
<1> SUFFICES ASSUME Shape, [Next]_vars PROVE Shape'
  OBVIOUS
<1> USE HitlAssumption DEF Shape
<1>1. CASE Tick
  BY <1>1 DEF Tick, TypeOK, RequestsKnown, HandlersKnown, SeenAreDue, timerVars
<1>2. ASSUME NEW a \in Albaran, OpenReview(a) \/ TrackInitial(a) PROVE Shape'
  <2>1. [OrchestratorDocument("pending") EXCEPT !.createdAt = now] \in Document
    BY OrchestratorWritesADocument, UpdatedDocument DEF TypeOK, Status
  <2>2. record' \in [Albaran -> Document]
    BY <1>2, <2>1, UpsertKeepsType DEF OpenReview, TrackInitial, TypeOK
  <2>3. TypeOK'
    <3>1. mail' \in [Albaran -> [Level -> Nat]]
      BY <1>2 DEF OpenReview, TrackInitial, SendMail, TypeOK, Level
    <3> QED BY <1>2, <2>2, <3>1 DEF OpenReview, TrackInitial, TypeOK, timerVars
  <2>4. RequestsKnown' /\ HandlersKnown' /\ SeenAreDue'
    BY <1>2 DEF OpenReview, TrackInitial, RequestsKnown, HandlersKnown, SeenAreDue, timerVars
  <2> QED BY <2>3, <2>4
<1>3. ASSUME NEW a \in Albaran, BeginCancel(a) \/ EndCancel(a) PROVE Shape'
  <2>1. [cancelling[a] EXCEPT !.status = "cancelled"] \in Document
    BY UpdatedDocument DEF TypeOK, Status
  <2>2. record' \in [Albaran -> Document]
    BY <1>3, <2>1, UpsertKeepsType DEF BeginCancel, EndCancel, TypeOK
  <2>3. TypeOK'
    <3>1. cancelling' \in [Albaran -> Document]
      BY <1>3, NoDocumentIsADocument DEF BeginCancel, EndCancel, TypeOK
    <3> QED BY <1>3, <2>2, <3>1 DEF BeginCancel, EndCancel, TypeOK, timerVars
  <2>4. RequestsKnown' /\ HandlersKnown' /\ SeenAreDue'
    BY <1>3 DEF BeginCancel, EndCancel, RequestsKnown, HandlersKnown, SeenAreDue, timerVars
  <2> QED BY <2>3, <2>4
<1>4. ASSUME NEW w \in Request, NEW a \in Albaran, NEW v \in Verdict, Decide(w, a, v)
      PROVE  Shape'
  <2>1. [pc |-> "save", albaran |-> a, verdict |-> v, copy |-> record[a]] \in RequestState
    BY DEF TypeOK, RequestState
  <2>2. TypeOK'
    <3>1. request' \in [Request -> RequestState]
      BY <1>4, <2>1 DEF Decide, TypeOK
    <3> QED BY <1>4, <3>1 DEF Decide, TypeOK, timerVars
  <2>3. RequestsKnown' /\ HandlersKnown' /\ SeenAreDue'
    BY <1>4 DEF Decide, RequestsKnown, HandlersKnown, SeenAreDue, timerVars, TypeOK
  <2> QED BY <2>2, <2>3
<1>5. CASE StartCycle
  <2>1. TypeOK'
    BY <1>5, NoDocumentIsADocument DEF StartCycle, TypeOK, Listing, Pending
  <2>2. RequestsKnown' /\ HandlersKnown'
    BY <1>5 DEF StartCycle, RequestsKnown, HandlersKnown
  <2>3. SeenAreDue'
    BY <1>5 DEF StartCycle, SeenAreDue, Listing, Pending
  <2> QED BY <2>1, <2>2, <2>3
<1>6. CASE TrackNotice
  <2> DEFINE level == NextLevel(seen[mailing], cycleTime)
  <2>1. mailing \in due /\ mailing \in Albaran
    BY <1>6 DEF TrackNotice, TypeOK
  <2>2. level \in Notice
    BY <2>1, NextLevelIsDue DEF SeenAreDue, DueLevels
  <2>3. [seen[mailing] EXCEPT !.status = StatusForLevel[level], !.level = level] \in Document
    <3>1. level \in Level /\ StatusForLevel[level] \in Status /\ seen[mailing] \in Document
      BY <2>1, <2>2 DEF TypeOK, StatusForLevel, Notice, Level, Status
    <3> QED BY <3>1, UpdatedDocument
  <2>4. record' \in [Albaran -> Document]
    BY <1>6, <2>3, UpsertKeepsType DEF TrackNotice, TypeOK
  <2>5. TypeOK'
    <3>1. seen' \in [Albaran -> Document] /\ cycleTime' \in Nat
      <4>1. CASE due = {mailing}
        BY <1>6, <4>1, NoDocumentIsADocument DEF TrackNotice, TypeOK, EndCycle
      <4>2. CASE due # {mailing}
        BY <1>6, <4>2, <2>1, NoDocumentIsADocument DEF TrackNotice, TypeOK
      <4> QED BY <4>1, <4>2
    <3>2. due' \subseteq Albaran /\ mailing' = None
      BY <1>6 DEF TrackNotice, TypeOK, EndCycle
    <3> QED BY <1>6, <2>4, <3>1, <3>2 DEF TrackNotice, TypeOK
  <2>6. RequestsKnown' /\ HandlersKnown'
    BY <1>6 DEF TrackNotice, RequestsKnown, HandlersKnown
  <2>7. SeenAreDue'
    BY <1>6, <2>1 DEF TrackNotice, SeenAreDue, EndCycle, TypeOK
  <2> QED BY <2>5, <2>6, <2>7
<1>7. ASSUME NEW a \in Albaran, SendNotice(a) PROVE Shape'
  <2>1. NextLevel(seen[a], cycleTime) \in Level
    BY <1>7, NextLevelIsDue DEF SendNotice, SeenAreDue, DueLevels, Notice
  <2>2. TypeOK'
    BY <1>7, <2>1 DEF SendNotice, SendMail, TypeOK
  <2>3. RequestsKnown' /\ HandlersKnown' /\ SeenAreDue'
    BY <1>7 DEF SendNotice, RequestsKnown, HandlersKnown, SeenAreDue
  <2> QED BY <2>2, <2>3
<1>8. CASE FailCycle
  <2>1. TypeOK'
    BY <1>8, NoDocumentIsADocument DEF FailCycle, Fault, EndCycle, TypeOK
  <2>2. RequestsKnown' /\ HandlersKnown' /\ SeenAreDue'
    BY <1>8 DEF FailCycle, EndCycle, RequestsKnown, HandlersKnown, SeenAreDue
  <2> QED BY <2>1, <2>2
<1>9. ASSUME NEW w \in Request, SaveDecision(w) PROVE Shape'
  <2>1. [request[w].copy EXCEPT !.status = "decided", !.decision = w] \in Document
    BY UpdatedDocument DEF TypeOK, Status, RequestState
  <2>2. record' \in [Albaran -> Document]
    BY <1>9, <2>1, UpsertKeepsType DEF SaveDecision, TypeOK
  <2>3. TypeOK'
    <3>1. request' \in [Request -> RequestState]
      BY <1>9, UpdatedRequest DEF SaveDecision, TypeOK
    <3> QED BY <1>9, <2>2, <3>1 DEF SaveDecision, TypeOK, timerVars
  <2>4. RequestsKnown' /\ HandlersKnown' /\ SeenAreDue'
    BY <1>9 DEF SaveDecision, RequestsKnown, HandlersKnown, SeenAreDue, timerVars, TypeOK, RequestState
  <2> QED BY <2>3, <2>4
<1>10. ASSUME NEW w \in Request, PublishDecision(w) \/ FailRequest(w) PROVE Shape'
  <2>1. request' \in [Request -> RequestState]
    <3>1. CASE PublishDecision(w)
      BY <3>1, UpdatedRequest DEF PublishDecision, TypeOK
    <3>2. CASE FailRequest(w)
      BY <3>2, UpdatedRequest DEF FailRequest, TypeOK
    <3> QED BY <1>10, <3>1, <3>2
  <2>2. TypeOK'
    BY <1>10, <2>1 DEF PublishDecision, FailRequest, Fault, TypeOK, timerVars
  <2>3. \A u \in Request : /\ request'[u].pc # "idle" <=> request[u].pc # "idle"
                           /\ request'[u].albaran = request[u].albaran
                           /\ request'[u].verdict = request[u].verdict
    <3>1. request \in [Request -> RequestState]
      BY DEF TypeOK
    <3>2. CASE PublishDecision(w)
      BY <3>1, <3>2 DEF PublishDecision, RequestState
    <3>3. CASE FailRequest(w)
      BY <3>1, <3>3 DEF FailRequest, RequestState
    <3> QED BY <1>10, <3>2, <3>3
  <2>4. \A u \in Request : topic'[u] # "none" => topic[u] # "none" \/ u = w
    BY <1>10 DEF PublishDecision, FailRequest, TypeOK
  <2>5. request[w].pc # "idle"
    BY <1>10 DEF PublishDecision, FailRequest
  <2>6. RequestsKnown' /\ HandlersKnown'
    <3>1. \A u \in Request : topic[u] # "none" => topic'[u] # "none"
      BY <1>10 DEF PublishDecision, FailRequest, TypeOK
    <3>2. UNCHANGED handler
      BY <1>10 DEF PublishDecision, FailRequest
    <3> QED BY <2>3, <2>4, <2>5, <3>1, <3>2 DEF RequestsKnown, HandlersKnown
  <2>7. SeenAreDue'
    BY <1>10 DEF PublishDecision, FailRequest, SeenAreDue, timerVars
  <2> QED BY <2>2, <2>6, <2>7
<1>15. ASSUME NEW h \in Handler, NEW w \in Request, ReceiveDecision(h, w) PROVE Shape'
  <2>1. record[request[w].albaran] \in Document
    BY <1>15 DEF ReceiveDecision, TypeOK, RequestsKnown
  <2>2. TypeOK'
    <3>1. handler' \in [Handler -> HandlerState]
      BY <1>15, <2>1 DEF ReceiveDecision, TypeOK, HandlerState
    <3> QED BY <1>15, <3>1 DEF ReceiveDecision, TypeOK, timerVars
  <2>3. RequestsKnown' /\ HandlersKnown' /\ SeenAreDue'
    BY <1>15 DEF ReceiveDecision, RequestsKnown, HandlersKnown, SeenAreDue, timerVars, TypeOK
  <2> QED BY <2>2, <2>3
<1>11. ASSUME NEW h \in Handler, PostInventory(h) PROVE Shape'
  <2>1. handler' \in [Handler -> HandlerState]
    <3>1. CASE handler' = [handler EXCEPT ![h].pc = "posted"]
      BY <3>1, UpdatedHandler DEF TypeOK
    <3>2. CASE handler' = [handler EXCEPT ![h].pc = "refused"]
      BY <3>2, UpdatedHandler DEF TypeOK
    <3> QED BY <1>11, <3>1, <3>2 DEF PostInventory
  <2>2. erp' \in [Albaran -> Nat]
    BY <1>11 DEF PostInventory, TypeOK
  <2>3. TypeOK'
    BY <1>11, <2>1, <2>2 DEF PostInventory, TypeOK, timerVars
  <2>4. RequestsKnown' /\ HandlersKnown' /\ SeenAreDue'
    <3>1. \A x \in Handler : handler'[x].decision = handler[x].decision
      <4>1. CASE handler' = [handler EXCEPT ![h].pc = "posted"]
        BY <4>1 DEF TypeOK, HandlerState
      <4>2. CASE handler' = [handler EXCEPT ![h].pc = "refused"]
        BY <4>2 DEF TypeOK, HandlerState
      <4> QED BY <1>11, <4>1, <4>2 DEF PostInventory
    <3>2. handler[h].pc # "idle" /\ \A x \in Handler \ {h} : handler'[x] = handler[x]
      BY <1>11 DEF PostInventory, TypeOK
    <3>3. UNCHANGED <<request, topic, timerVars>>
      BY <1>11 DEF PostInventory
    <3> QED BY <3>1, <3>2, <3>3 DEF RequestsKnown, HandlersKnown, SeenAreDue, timerVars
  <2> QED BY <2>3, <2>4
<1>12. ASSUME NEW h \in Handler, WriteOutcome(h) PROVE Shape'
  <2>1. [handler[h].copy EXCEPT !.status = Outcome[handler[h].pc],
                                !.decision = handler[h].decision] \in Document
    <3>1. Outcome[handler[h].pc] \in Status
      BY <1>12 DEF WriteOutcome, Outcome, Status
    <3>2. handler[h].copy \in Document /\ handler[h].decision \in DecisionId \cup {None}
      BY DEF TypeOK, HandlerState
    <3> QED BY <3>1, <3>2, UpdatedDocument
  <2>2. record' \in [Albaran -> Document]
    BY <1>12, <2>1, UpsertKeepsType DEF WriteOutcome, TypeOK
  <2>3. TypeOK'
    <3>1. handler' \in [Handler -> HandlerState]
      BY <1>12, UpdatedHandler DEF WriteOutcome, TypeOK
    <3> QED BY <1>12, <2>2, <3>1 DEF WriteOutcome, TypeOK, timerVars
  <2>4. RequestsKnown' /\ HandlersKnown' /\ SeenAreDue'
    <3>1. \A x \in Handler : handler'[x].decision = handler[x].decision
      BY <1>12 DEF WriteOutcome, TypeOK, HandlerState
    <3>2. handler[h].pc # "idle" /\ \A x \in Handler \ {h} : handler'[x] = handler[x]
      BY <1>12 DEF WriteOutcome, Outcome, TypeOK
    <3>3. UNCHANGED <<request, topic, timerVars>>
      BY <1>12 DEF WriteOutcome
    <3> QED BY <3>1, <3>2, <3>3 DEF RequestsKnown, HandlersKnown, SeenAreDue, timerVars
  <2> QED BY <2>3, <2>4
<1>13. ASSUME NEW h \in Handler, SettleDecision(h) \/ FailHandler(h) \/ ExpireLock(h)
       PROVE  Shape'
  <2>1. handler' \in [Handler -> HandlerState]
    <3>1. CASE handler' = [handler EXCEPT ![h] = IdleHandler]
      BY <3>1, IdleStates DEF TypeOK
    <3>2. CASE handler' = [handler EXCEPT ![h].holds = FALSE]
      BY <3>2, UpdatedHandler DEF TypeOK
    <3> QED BY <1>13, <3>1, <3>2 DEF SettleDecision, FailHandler, ExpireLock
  <2>2. topic' \in [Request -> {"none", "queued", "locked", "done"}]
    BY <1>13 DEF SettleDecision, FailHandler, ExpireLock, TypeOK
  <2>3. TypeOK'
    BY <1>13, <2>1, <2>2 DEF SettleDecision, FailHandler, ExpireLock, Fault, TypeOK, timerVars
  <2>4. \A u \in Request : topic'[u] # "none" <=> topic[u] # "none"
    BY <1>13 DEF SettleDecision, FailHandler, ExpireLock, TypeOK, HandlersKnown
  <2>5. \A x \in Handler : handler'[x].pc # "idle" =>
           handler[x].pc # "idle" /\ handler'[x].decision = handler[x].decision
    <3>1. CASE handler' = [handler EXCEPT ![h] = IdleHandler]
      BY <3>1 DEF IdleHandler, TypeOK
    <3>2. CASE handler' = [handler EXCEPT ![h].holds = FALSE]
      BY <3>2 DEF TypeOK, HandlerState
    <3> QED BY <1>13, <3>1, <3>2 DEF SettleDecision, FailHandler, ExpireLock
  <2>6. UNCHANGED <<request, timerVars>>
    BY <1>13 DEF SettleDecision, FailHandler, ExpireLock
  <2>7. RequestsKnown' /\ HandlersKnown'
    BY <2>4, <2>5, <2>6 DEF RequestsKnown, HandlersKnown
  <2>8. SeenAreDue'
    BY <2>6 DEF SeenAreDue, timerVars
  <2> QED BY <2>3, <2>7, <2>8
<1>14. CASE UNCHANGED vars
  BY <1>14 DEF vars, TypeOK, RequestsKnown, HandlersKnown, SeenAreDue
<1> QED BY <1>1, <1>2, <1>3, <1>4, <1>5, <1>6, <1>7, <1>8, <1>9, <1>10, <1>11, <1>12,
           <1>13, <1>14, <1>15 DEF Next, Timer, WebForm, Callback, Failures

\* The state of the review always has its types, and a copy, a lock or a notice
\* under way always belongs to somebody.
THEOREM HitlTypes == Spec => []TypeOK
<1>1. Spec => []Shape
  BY ShapeInit, ShapeStep, PTL DEF Spec
<1>2. Shape => TypeOK
  BY DEF Shape
<1> QED BY <1>1, <1>2, PTL

-----------------------------------------------------------------------------
(* A document d of albaran a tells the truth about notices m, receipts e   *)
(* and requests r.                                                         *)

TellsTruth(a, d, m, e, r) ==
  /\ d.level # "initial" => m[a][d.level] > 0
  /\ d.decision \in Request => r[d.decision].pc # "idle"
  /\ d.status = "completed" =>
       e[a] > 0 /\ d.decision \in Request /\ r[d.decision].verdict \in Approving
  /\ d.status = "rejected" => d.decision \in Request /\ r[d.decision].verdict = "reject"

\* m1, e1 and r1 take nothing back of m, e and r.
Extends(m, e, r, m1, e1, r1) ==
  /\ \A a \in Albaran : /\ \A l \in Level : m[a][l] > 0 => m1[a][l] > 0
                        /\ e[a] > 0 => e1[a] > 0
  /\ \A w \in Request :
       r[w].pc # "idle" => /\ r1[w].pc # "idle"
                           /\ r1[w].albaran = r[w].albaran
                           /\ r1[w].verdict = r[w].verdict

LEMMA TruthLasts ==
  ASSUME NEW m, NEW e, NEW r, NEW m1, NEW e1, NEW r1, Extends(m, e, r, m1, e1, r1),
         NEW a \in Albaran, NEW d \in Document, TellsTruth(a, d, m, e, r)
  PROVE  TellsTruth(a, d, m1, e1, r1)
  BY DEF Extends, TellsTruth, Document

\* A copy may be written back under any status that claims nothing.
LEMMA TruthOfCopy ==
  ASSUME NEW m, NEW e, NEW r, NEW a \in Albaran, NEW d \in Document,
         TellsTruth(a, d, m, e, r), NEW s \in Status \ {"completed", "rejected"}
  PROVE  /\ TellsTruth(a, [d EXCEPT !.status = s], m, e, r)
         /\ \A l \in Level : m[a][l] > 0 =>
              TellsTruth(a, [d EXCEPT !.status = s, !.level = l], m, e, r)
         /\ \A w \in Request : r[w].pc # "idle" =>
              TellsTruth(a, [d EXCEPT !.status = s, !.decision = w], m, e, r)
  BY HitlAssumption DEF TellsTruth, Document

\* An outcome may be written over a copy by the decision it follows from.
LEMMA TruthOfOutcome ==
  ASSUME NEW m, NEW e, NEW r, NEW a \in Albaran, NEW d \in Document,
         TellsTruth(a, d, m, e, r), NEW w \in Request, r[w].pc # "idle"
  PROVE  /\ r[w].verdict \in Approving /\ e[a] > 0 =>
              TellsTruth(a, [d EXCEPT !.status = "completed", !.decision = w], m, e, r)
         /\ r[w].verdict = "reject" =>
              TellsTruth(a, [d EXCEPT !.status = "rejected", !.decision = w], m, e, r)
  BY HitlAssumption DEF TellsTruth, Document

LEMMA TruthOfNewDocument ==
  ASSUME NEW m, NEW e, NEW r, NEW a \in Albaran
  PROVE  /\ TellsTruth(a, NoDocument, m, e, r)
         /\ \A s \in Status \ {"completed", "rejected"} :
              /\ TellsTruth(a, OrchestratorDocument(s), m, e, r)
              /\ \A t \in Nat :
                   TellsTruth(a, [OrchestratorDocument(s) EXCEPT !.createdAt = t], m, e, r)
  BY HitlAssumption DEF TellsTruth, NoDocument, OrchestratorDocument

-----------------------------------------------------------------------------
\* No step takes a notice, a receipt or the verdict of a request back.
LEMMA StepExtends == Shape /\ [Next]_vars => Extends(mail, erp, request, mail', erp', request')
<1> SUFFICES ASSUME Shape, [Next]_vars
             PROVE  Extends(mail, erp, request, mail', erp', request')
  OBVIOUS
<1> USE DEF Shape
<1>1. \A a \in Albaran, l \in Level : mail[a][l] > 0 => mail'[a][l] > 0
  <2>1. CASE UNCHANGED mail
    BY <2>1
  <2>2. ASSUME NEW a \in Albaran, NEW l \in Level, SendMail(a, l)
        PROVE  \A b \in Albaran, k \in Level : mail[b][k] > 0 => mail'[b][k] > 0
    BY <2>2 DEF SendMail, TypeOK
  <2>3. ASSUME NEW a \in Albaran, SendNotice(a) PROVE \E l \in Level : SendMail(a, l)
    BY <2>3, NextLevelIsDue DEF SendNotice, SeenAreDue, DueLevels, Notice
  <2>4. ASSUME NEW a \in Albaran, OpenReview(a) PROVE \E l \in Level : SendMail(a, l)
    BY <2>4 DEF OpenReview, Level
  <2>5. UNCHANGED mail \/ \E a \in Albaran : SendNotice(a) \/ OpenReview(a)
    BY DEF Next, vars, Tick, TrackInitial, BeginCancel, EndCancel, Decide, Timer, StartCycle,
           TrackNotice, WebForm, SaveDecision, PublishDecision, Callback, ReceiveDecision,
           PostInventory, WriteOutcome, SettleDecision, Failures, FailCycle, FailRequest,
           FailHandler, ExpireLock
  <2> QED BY <2>1, <2>2, <2>3, <2>4, <2>5
<1>2. \A a \in Albaran : erp[a] > 0 => erp'[a] > 0
  <2>1. UNCHANGED erp \/ \E h \in Handler : PostInventory(h)
    BY DEF Next, vars, Tick, OpenReview, TrackInitial, BeginCancel, EndCancel, Decide, Timer,
           StartCycle, SendNotice, TrackNotice, WebForm, SaveDecision, PublishDecision, Callback,
           ReceiveDecision, WriteOutcome, SettleDecision, Failures, FailCycle, FailRequest,
           FailHandler, ExpireLock
  <2>2. ASSUME NEW h \in Handler, PostInventory(h)
        PROVE  \A a \in Albaran : erp[a] > 0 => erp'[a] > 0
    <3>1. erp \in [Albaran -> Nat]
      BY DEF TypeOK
    <3>2. erp' = erp \/ erp' = [erp EXCEPT ![Subject(h)] = @ + 1]
      BY <2>2 DEF PostInventory
    <3> HIDE DEF Shape
    <3> QED BY <3>1, <3>2
  <2> QED BY <2>1, <2>2
<1> DEFINE PcMoves ==
      \A w \in Request : request[w].pc # "idle" =>
        /\ request'[w].pc # "idle"
        /\ request'[w].albaran = request[w].albaran
        /\ request'[w].verdict = request[w].verdict
<1>3. PcMoves
  <2>1. \/ UNCHANGED request
        \/ \E w \in Request : SaveDecision(w) \/ PublishDecision(w) \/ FailRequest(w)
        \/ \E w \in Request, a \in Albaran, v \in Verdict : Decide(w, a, v)
    BY DEF Next, vars, Tick, OpenReview, TrackInitial, BeginCancel, EndCancel, Timer,
           StartCycle, SendNotice, TrackNotice, WebForm, Callback, ReceiveDecision,
           PostInventory, WriteOutcome, SettleDecision, Failures, FailCycle, FailHandler,
           ExpireLock
  <2>2. ASSUME NEW w \in Request, NEW pc \in {"accepted"},
               request' = [request EXCEPT ![w].pc = pc]
        PROVE  PcMoves
    BY <2>2 DEF TypeOK, RequestState
  <2>3. ASSUME NEW w \in Request, NEW pc \in {"publish", "failed"},
               request' = [request EXCEPT ![w].pc = pc, ![w].copy = NoDocument]
        PROVE  PcMoves
    BY <2>3 DEF TypeOK, RequestState
  <2>4. ASSUME NEW w \in Request, NEW a \in Albaran, NEW v \in Verdict, Decide(w, a, v)
        PROVE  PcMoves
    BY <2>4 DEF Decide, TypeOK
  <2>5. ASSUME NEW w \in Request, SaveDecision(w) \/ PublishDecision(w) \/ FailRequest(w)
        PROVE  PcMoves
    BY <2>5, <2>2, <2>3 DEF SaveDecision, PublishDecision, FailRequest
  <2> QED BY <2>1, <2>4, <2>5
<1> QED BY <1>1, <1>2, <1>3 DEF Extends

-----------------------------------------------------------------------------
HonestNow(a, d) == TellsTruth(a, d, mail, erp, request)

HonestDocuments == \A a \in Albaran : HonestNow(a, record[a])

HonestCopies ==
  /\ \A a \in Albaran : HonestNow(a, seen[a]) /\ HonestNow(a, cancelling[a])
  /\ \A w \in Request : request[w].pc = "save" => HonestNow(request[w].albaran, request[w].copy)
  /\ \A h \in Handler : handler[h].pc # "idle" => HonestNow(Subject(h), handler[h].copy)

\* What a callback has decided to do follows from the decision it handles, and a
\* notice that is about to be tracked has been sent.
HonestActors ==
  /\ \A h \in Handler :
       /\ handler[h].pc \in {"post", "posted", "refused"} =>
            request[handler[h].decision].verdict \in Approving
       /\ handler[h].pc = "reject" => request[handler[h].decision].verdict = "reject"
       /\ handler[h].pc = "posted" => erp[Subject(h)] > 0
  /\ mailing # None => mail[mailing][NextLevel(seen[mailing], cycleTime)] > 0

Honest == HonestDocuments /\ HonestCopies /\ HonestActors

LEMMA HonestInit == Init => Honest
<1> SUFFICES ASSUME Init PROVE Honest
  OBVIOUS
<1>1. HonestDocuments
  <2> SUFFICES ASSUME NEW a \in Albaran PROVE HonestNow(a, record[a])
    BY DEF HonestDocuments
  <2>1. record[a] = OrchestratorDocument("hitl_pending") \/ record[a] = NoDocument
    BY DEF Init
  <2>2. "hitl_pending" \in Status \ {"completed", "rejected"}
    BY DEF Status
  <2>3. HonestNow(a, OrchestratorDocument("hitl_pending")) /\ HonestNow(a, NoDocument)
    BY <2>2, TruthOfNewDocument DEF HonestNow
  <2> QED BY <2>1, <2>3
<1>2. HonestCopies
  BY TruthOfNewDocument DEF Init, HonestCopies, HonestNow, IdleRequest, IdleHandler
<1>3. HonestActors
  BY DEF Init, HonestActors, IdleHandler
<1> QED BY <1>1, <1>2, <1>3 DEF Honest

\* The documents in Cosmos: one step per action that writes one.
LEMMA DocumentsStep ==
  ASSUME Shape, Shape', Honest, [Next]_vars
  PROVE  HonestDocuments'
<1> USE DEF Shape
<1> DEFINE Written(a, d) == a \in Albaran /\ d \in Document /\ HonestNow(a, d) /\ Upsert(a, d)
<1>1. Extends(mail, erp, request, mail', erp', request')
  BY StepExtends
<1>2. ASSUME NEW a, NEW d, Written(a, d) PROVE HonestDocuments'
  <2>1. \A b \in Albaran : record'[b] \in Document /\ HonestNow(b, record'[b])
    BY <1>2 DEF Honest, HonestDocuments, Upsert, TypeOK
  <2> QED BY <1>1, <2>1, TruthLasts DEF HonestDocuments, HonestNow
<1>3. CASE UNCHANGED record
  BY <1>1, <1>3, TruthLasts DEF HonestDocuments, HonestNow, Honest, TypeOK
<1>4. ASSUME NEW a \in Albaran, OpenReview(a) \/ TrackInitial(a) PROVE HonestDocuments'
  <2> DEFINE d == [OrchestratorDocument("pending") EXCEPT !.createdAt = now]
  <2>1. d \in Document
    BY OrchestratorWritesADocument, UpdatedDocument DEF TypeOK, Status
  <2>2. HonestNow(a, d)
    BY TruthOfNewDocument DEF HonestNow, TypeOK, Status
  <2>3. Upsert(a, d)
    BY <1>4 DEF OpenReview, TrackInitial
  <2> QED BY <1>2, <2>1, <2>2, <2>3
<1>5. ASSUME NEW a \in Albaran, EndCancel(a) PROVE HonestDocuments'
  <2> DEFINE d == [cancelling[a] EXCEPT !.status = "cancelled"]
  <2>1. cancelling[a] \in Document /\ HonestNow(a, cancelling[a])
    BY DEF TypeOK, Honest, HonestCopies
  <2>2. d \in Document /\ HonestNow(a, d)
    BY <2>1, UpdatedDocument, TruthOfCopy DEF HonestNow, Status
  <2> QED BY <1>2, <1>5, <2>2 DEF EndCancel
<1>6. ASSUME NEW w \in Request, SaveDecision(w) PROVE HonestDocuments'
  <2> DEFINE a == request[w].albaran
             d == [request[w].copy EXCEPT !.status = "decided", !.decision = w]
  <2>1. /\ request[w].copy \in Document /\ a \in Albaran
        /\ HonestNow(a, request[w].copy) /\ request[w].pc # "idle"
    BY <1>6 DEF SaveDecision, TypeOK, RequestState, RequestsKnown, Honest, HonestCopies
  <2>2. d \in Document /\ HonestNow(a, d)
    BY <2>1, UpdatedDocument, TruthOfCopy, HitlAssumption DEF HonestNow, Status
  <2>3. Upsert(a, d)
    BY <1>6 DEF SaveDecision
  <2> QED BY <1>2, <2>1, <2>2, <2>3
<1>7. CASE TrackNotice
  <2> DEFINE level == NextLevel(seen[mailing], cycleTime)
             d == [seen[mailing] EXCEPT !.status = StatusForLevel[level], !.level = level]
  <2>1. mailing \in due /\ mailing \in Albaran /\ seen[mailing] \in Document
    BY <1>7 DEF TrackNotice, TypeOK
  <2>2. level \in Notice
    BY <2>1, NextLevelIsDue DEF SeenAreDue, DueLevels
  <2>3. level \in Level /\ StatusForLevel[level] \in Status \ {"completed", "rejected"}
    BY <2>2 DEF StatusForLevel, Notice, Level, Status
  <2>4. HonestNow(mailing, seen[mailing]) /\ mail[mailing][level] > 0
    BY <1>7, <2>1 DEF TrackNotice, Honest, HonestCopies, HonestActors
  <2>5. d \in Document
    BY <2>1, <2>3, UpdatedDocument
  <2>6. HonestNow(mailing, d)
    BY <2>1, <2>3, <2>4, TruthOfCopy DEF HonestNow
  <2>7. Upsert(mailing, d)
    BY <1>7 DEF TrackNotice
  <2> QED BY <1>2, <2>1, <2>5, <2>6, <2>7
<1>8. ASSUME NEW h \in Handler, WriteOutcome(h) PROVE HonestDocuments'
  <2> DEFINE w == handler[h].decision
             d == [handler[h].copy EXCEPT !.status = Outcome[handler[h].pc], !.decision = w]
  <2>1. /\ handler[h].copy \in Document /\ w \in Request /\ request[w].pc # "idle"
        /\ Subject(h) \in Albaran /\ HonestNow(Subject(h), handler[h].copy)
    BY <1>8 DEF WriteOutcome, Outcome, TypeOK, HandlerState, HandlersKnown, RequestsKnown,
                Honest, HonestCopies, Subject
  <2>2. Outcome[handler[h].pc] \in Status
    BY <1>8 DEF WriteOutcome, Outcome, Status
  <2>3. d \in Document
    BY <2>1, <2>2, UpdatedDocument, HitlAssumption
  <2>4. HonestNow(Subject(h), d)
    <3>1. CASE handler[h].pc = "posted"
      <4>1. Outcome[handler[h].pc] = "completed"
        BY <3>1 DEF Outcome
      <4>2. request[w].verdict \in Approving /\ erp[Subject(h)] > 0
        BY <3>1 DEF Honest, HonestActors
      <4> QED BY <2>1, <4>1, <4>2, TruthOfOutcome DEF HonestNow
    <3>2. CASE handler[h].pc = "refused"
      <4>1. Outcome[handler[h].pc] = "hitl_pending"
        BY <3>2 DEF Outcome
      <4> QED BY <2>1, <2>2, <4>1, TruthOfCopy DEF HonestNow
    <3>3. CASE handler[h].pc = "reject"
      <4>1. Outcome[handler[h].pc] = "rejected"
        BY <3>3 DEF Outcome
      <4>2. request[w].verdict = "reject"
        BY <3>3 DEF Honest, HonestActors
      <4> QED BY <2>1, <4>1, <4>2, TruthOfOutcome DEF HonestNow
    <3> QED BY <1>8, <3>1, <3>2, <3>3 DEF WriteOutcome, Outcome
  <2>5. Upsert(Subject(h), d)
    BY <1>8 DEF WriteOutcome
  <2> QED BY <1>2, <2>1, <2>3, <2>4, <2>5
<1>9. \/ UNCHANGED record \/ TrackNotice
      \/ \E a \in Albaran : OpenReview(a) \/ TrackInitial(a) \/ EndCancel(a)
      \/ \E w \in Request : SaveDecision(w)
      \/ \E h \in Handler : WriteOutcome(h)
  BY DEF Next, vars, Tick, BeginCancel, Decide, Timer, StartCycle, SendNotice, WebForm,
         PublishDecision, Callback, ReceiveDecision, PostInventory, SettleDecision, Failures,
         FailCycle, FailRequest, FailHandler, ExpireLock
<1> QED BY <1>3, <1>4, <1>5, <1>6, <1>7, <1>8, <1>9

\* The copies in the hands of the timer, the requests, the callbacks and the
\* operator: each is taken from a document, or put aside, or left as it is.
LEMMA CopiesStep ==
  ASSUME Shape, Shape', Honest, [Next]_vars
  PROVE  HonestCopies'
<1> USE DEF Shape
<1> DEFINE HonestNext(a, d) == TellsTruth(a, d, mail', erp', request')
<1>1. \A a \in Albaran, d \in Document : HonestNow(a, d) => HonestNext(a, d)
  BY StepExtends, TruthLasts DEF HonestNow
<1>2. \A a \in Albaran : HonestNext(a, NoDocument) /\ HonestNext(a, record[a])
  BY <1>1, TruthOfNewDocument DEF TypeOK, Honest, HonestDocuments
<1>3. \A a \in Albaran : HonestNext(a, seen'[a])
  <2>1. \A a \in Albaran : seen'[a] \in {seen[a], record[a], NoDocument}
    <3>1. CASE UNCHANGED seen
      BY <3>1
    <3>2. CASE StartCycle
      BY <3>2 DEF StartCycle
    <3>3. CASE TrackNotice
      BY <3>3 DEF TrackNotice, EndCycle, TypeOK
    <3>4. CASE FailCycle
      BY <3>4 DEF FailCycle, EndCycle
    <3>5. UNCHANGED seen \/ StartCycle \/ TrackNotice \/ FailCycle
      BY DEF Next, vars, timerVars, Tick, OpenReview, TrackInitial, BeginCancel, EndCancel,
             Decide, Timer, SendNotice, WebForm, SaveDecision, PublishDecision, Callback,
             ReceiveDecision, PostInventory, WriteOutcome, SettleDecision, Failures,
             FailRequest, FailHandler, ExpireLock
    <3> QED BY <3>1, <3>2, <3>3, <3>4, <3>5
  <2> QED BY <1>1, <1>2, <2>1 DEF TypeOK, Honest, HonestCopies
<1>4. \A a \in Albaran : HonestNext(a, cancelling'[a])
  <2>1. \A a \in Albaran : cancelling'[a] \in {cancelling[a], record[a], NoDocument}
    <3>1. ASSUME NEW a \in Albaran, BeginCancel(a) \/ EndCancel(a)
          PROVE  \A b \in Albaran : cancelling'[b] \in {cancelling[b], record[b], NoDocument}
      BY <3>1 DEF BeginCancel, EndCancel, TypeOK
    <3>2. UNCHANGED cancelling \/ \E a \in Albaran : BeginCancel(a) \/ EndCancel(a)
      BY DEF Next, vars, Tick, OpenReview, TrackInitial, Decide, Timer, StartCycle, SendNotice,
             TrackNotice, WebForm, SaveDecision, PublishDecision, Callback, ReceiveDecision,
             PostInventory, WriteOutcome, SettleDecision, Failures, FailCycle, FailRequest,
             FailHandler, ExpireLock
    <3> QED BY <3>1, <3>2
  <2> QED BY <1>1, <1>2, <2>1 DEF TypeOK, Honest, HonestCopies
<1>5. ASSUME NEW u \in Request, request'[u].pc = "save"
      PROVE  HonestNext(request'[u].albaran, request'[u].copy)
  <2>1. \/ request'[u] = request[u]
        \/ \E a \in Albaran : request'[u].albaran = a /\ request'[u].copy = record[a]
    <3>1. ASSUME NEW w \in Request, SaveDecision(w) \/ PublishDecision(w) \/ FailRequest(w)
          PROVE  request'[u] = request[u]
      <4>1. request'[w].pc # "save" /\ \A x \in Request \ {w} : request'[x] = request[x]
        BY <3>1 DEF SaveDecision, PublishDecision, FailRequest, TypeOK, RequestState
      <4> QED BY <1>5, <4>1
    <3>2. ASSUME NEW w \in Request, NEW a \in Albaran, NEW v \in Verdict, Decide(w, a, v)
          PROVE  \/ request'[u] = request[u]
                 \/ request'[u].albaran = a /\ request'[u].copy = record[a]
      BY <3>2 DEF Decide, TypeOK
    <3>3. \/ UNCHANGED request
          \/ \E w \in Request : SaveDecision(w) \/ PublishDecision(w) \/ FailRequest(w)
          \/ \E w \in Request, a \in Albaran, v \in Verdict : Decide(w, a, v)
      BY DEF Next, vars, Tick, OpenReview, TrackInitial, BeginCancel, EndCancel, Timer,
             StartCycle, SendNotice, TrackNotice, WebForm, Callback, ReceiveDecision,
             PostInventory, WriteOutcome, SettleDecision, Failures, FailCycle, FailHandler,
             ExpireLock
    <3> QED BY <3>1, <3>2, <3>3
  <2>2. CASE request'[u] = request[u]
    <3>1. /\ request[u].albaran \in Albaran /\ request[u].copy \in Document
          /\ HonestNow(request[u].albaran, request[u].copy)
      BY <1>5, <2>2 DEF TypeOK, RequestState, RequestsKnown, Honest, HonestCopies
    <3> QED BY <1>1, <2>2, <3>1
  <2>3. CASE \E a \in Albaran : request'[u].albaran = a /\ request'[u].copy = record[a]
    BY <1>2, <2>3
  <2> QED BY <2>1, <2>2, <2>3
<1>6. ASSUME NEW x \in Handler, handler'[x].pc # "idle"
      PROVE  HonestNext(Subject(x)', handler'[x].copy)
  <2>1. /\ handler'[x].decision \in Request /\ request'[handler'[x].decision].pc # "idle"
        /\ Subject(x)' \in Albaran
    BY <1>6 DEF HandlersKnown, RequestsKnown, Subject
  <2>2. \/ /\ handler[x].pc # "idle" /\ handler'[x].decision = handler[x].decision
           /\ handler'[x].copy \in {handler[x].copy, NoDocument}
        \/ \E w \in Request : ReceiveDecision(x, w)
    <3>1. ASSUME NEW h \in Handler, handler' = [handler EXCEPT ![h] = IdleHandler]
          PROVE  handler'[x] = handler[x]
      BY <1>6, <3>1 DEF IdleHandler, TypeOK
    <3>2. ASSUME NEW h \in Handler, NEW w \in Request, ReceiveDecision(h, w), h # x
          PROVE  handler'[x] = handler[x]
      BY <3>2 DEF ReceiveDecision, TypeOK
    <3>3. ASSUME NEW h \in Handler, handler[h].pc # "idle",
                 handler' = [handler EXCEPT ![h].holds = FALSE]
          PROVE  /\ handler'[x].pc = handler[x].pc /\ handler'[x].copy = handler[x].copy
                 /\ handler'[x].decision = handler[x].decision
      BY <3>3 DEF TypeOK, HandlerState
    <3>4. ASSUME NEW h \in Handler, handler[h].pc # "idle",
                 NEW pc \in {"posted", "refused"}, handler' = [handler EXCEPT ![h].pc = pc]
          PROVE  /\ handler[x].pc # "idle" /\ handler'[x].copy = handler[x].copy
                 /\ handler'[x].decision = handler[x].decision
      BY <1>6, <3>4 DEF TypeOK, HandlerState
    <3>5. ASSUME NEW h \in Handler, WriteOutcome(h)
          PROVE  /\ handler[x].pc # "idle" /\ handler'[x].copy \in {handler[x].copy, NoDocument}
                 /\ handler'[x].decision = handler[x].decision
      BY <1>6, <3>5 DEF WriteOutcome, Outcome, TypeOK, HandlerState
    <3>6. ASSUME NEW h \in Handler, PostInventory(h)
          PROVE  /\ handler[x].pc # "idle" /\ handler'[x].copy = handler[x].copy
                 /\ handler'[x].decision = handler[x].decision
      BY <3>4, <3>6 DEF PostInventory
    <3>7. ASSUME NEW h \in Handler, SettleDecision(h) \/ FailHandler(h) \/ ExpireLock(h)
          PROVE  /\ handler[x].pc # "idle" /\ handler'[x].copy = handler[x].copy
                 /\ handler'[x].decision = handler[x].decision
      BY <1>6, <3>1, <3>3, <3>7 DEF SettleDecision, FailHandler, ExpireLock
    <3>8. \/ UNCHANGED handler
          \/ \E h \in Handler, w \in Request : ReceiveDecision(h, w)
          \/ \E h \in Handler : \/ WriteOutcome(h) \/ PostInventory(h) \/ SettleDecision(h)
                                \/ FailHandler(h) \/ ExpireLock(h)
      BY DEF Next, vars, Tick, OpenReview, TrackInitial, BeginCancel, EndCancel, Decide, Timer,
             StartCycle, SendNotice, TrackNotice, WebForm, SaveDecision, PublishDecision,
             Callback, Failures, FailCycle, FailRequest
    <3> QED BY <1>6, <3>2, <3>5, <3>6, <3>7, <3>8
  <2>3. ASSUME handler[x].pc # "idle", handler'[x].decision = handler[x].decision,
               handler'[x].copy \in {handler[x].copy, NoDocument}
        PROVE  HonestNext(Subject(x)', handler'[x].copy)
    <3>1. Subject(x)' = Subject(x) /\ Subject(x) \in Albaran
      BY <2>3, StepExtends DEF Extends, Subject, HandlersKnown, RequestsKnown
    <3>2. handler[x].copy \in Document /\ HonestNow(Subject(x), handler[x].copy)
      BY <2>3 DEF TypeOK, HandlerState, Honest, HonestCopies
    <3> QED BY <1>1, <1>2, <2>3, <3>1, <3>2
  <2>4. ASSUME NEW w \in Request, ReceiveDecision(x, w)
        PROVE  HonestNext(Subject(x)', handler'[x].copy)
    <3>1. handler'[x].copy = record[request[w].albaran] /\ Subject(x)' = request[w].albaran
      BY <2>4 DEF ReceiveDecision, Subject, TypeOK
    <3>2. request[w].albaran \in Albaran
      BY <2>4 DEF ReceiveDecision, RequestsKnown
    <3> QED BY <1>2, <3>1, <3>2
  <2> QED BY <2>2, <2>3, <2>4
<1> QED BY <1>3, <1>4, <1>5, <1>6 DEF HonestCopies, HonestNow

\* What a callback is about to write follows from its decision, and what the
\* timer is about to track has been sent.
LEMMA ActorsStep ==
  ASSUME Shape, Shape', Honest, [Next]_vars
  PROVE  HonestActors'
<1> USE DEF Shape
<1>1. Extends(mail, erp, request, mail', erp', request')
  BY StepExtends
<1>2. ASSUME NEW x \in Handler, handler'[x].pc \notin {"idle", "settle"}
      PROVE  /\ handler'[x].pc \in {"post", "posted", "refused"} =>
                  request'[handler'[x].decision].verdict \in Approving
             /\ handler'[x].pc = "reject" =>
                  request'[handler'[x].decision].verdict = "reject"
             /\ handler'[x].pc = "posted" => erp'[Subject(x)'] > 0
  <2> DEFINE w == handler'[x].decision
             Sound == /\ handler'[x].pc \in {"post", "posted", "refused"} =>
                           request'[w].verdict \in Approving
                      /\ handler'[x].pc = "reject" => request'[w].verdict = "reject"
                      /\ handler'[x].pc = "posted" => erp'[Subject(x)'] > 0
  <2>1. ASSUME handler[x].pc # "idle", handler'[x].decision = handler[x].decision
        PROVE  /\ w \in Request /\ request'[w].verdict = request[w].verdict
               /\ Subject(x)' = Subject(x) /\ Subject(x) \in Albaran
    BY <1>1, <2>1 DEF Extends, Subject, HandlersKnown, RequestsKnown
  <2>2. ASSUME handler'[x].pc = handler[x].pc, handler'[x].decision = handler[x].decision
        PROVE  Sound
    <3>1. handler[x].pc # "idle"
      BY <1>2, <2>2
    <3> QED BY <1>1, <2>1, <2>2, <3>1 DEF Honest, HonestActors, Extends
  <2>3. ASSUME NEW h \in Handler, PostInventory(h) PROVE Sound
    <3>1. CASE h # x
      <4>1. handler'[x] = handler[x]
        BY <2>3, <3>1 DEF PostInventory, TypeOK
      <4> QED BY <2>2, <4>1
    <3>2. CASE h = x
      <4>1. /\ handler[x].pc = "post" /\ handler'[x].decision = handler[x].decision
            /\ \/ handler'[x].pc = "posted" /\ erp' = [erp EXCEPT ![Subject(x)] = @ + 1]
               \/ handler'[x].pc = "refused"
        <5>1. CASE handler' = [handler EXCEPT ![h].pc = "posted"]
          BY <2>3, <3>2, <5>1 DEF PostInventory, TypeOK, HandlerState
        <5>2. CASE handler' = [handler EXCEPT ![h].pc = "refused"]
          BY <2>3, <3>2, <5>2 DEF PostInventory, TypeOK, HandlerState
        <5> QED BY <2>3, <5>1, <5>2 DEF PostInventory
      <4>2. request[w].verdict \in Approving
        BY <4>1 DEF Honest, HonestActors
      <4>3. erp' = [erp EXCEPT ![Subject(x)] = @ + 1] => erp'[Subject(x)] > 0
        BY <2>1, <4>1 DEF TypeOK
      <4> QED BY <2>1, <4>1, <4>2, <4>3
    <3> QED BY <3>1, <3>2
  <2>4. ASSUME NEW h \in Handler, NEW u \in Request, ReceiveDecision(h, u) PROVE Sound
    <3>1. CASE h # x
      <4>1. handler'[x] = handler[x]
        BY <2>4, <3>1 DEF ReceiveDecision, TypeOK
      <4> QED BY <2>2, <4>1
    <3>2. CASE h = x
      <4>1. /\ w = u /\ request' = request
            /\ handler'[x].pc = IF request[u].verdict \in Approving THEN "post" ELSE "reject"
        BY <2>4, <3>2 DEF ReceiveDecision, TypeOK
      <4>2. request[u].verdict \in {"approve", "reject", "modify"}
        BY <2>4, HitlAssumption DEF ReceiveDecision, RequestsKnown
      <4> QED BY <4>1, <4>2 DEF Approving
    <3> QED BY <3>1, <3>2
  <2>5. ASSUME NEW h \in Handler, WriteOutcome(h) PROVE Sound
    <3>1. handler'[h].pc = "settle" /\ (h # x => handler'[x] = handler[x])
      BY <2>5 DEF WriteOutcome, TypeOK, HandlerState
    <3> QED BY <1>2, <2>2, <3>1
  <2>6. ASSUME NEW h \in Handler, SettleDecision(h) \/ FailHandler(h) \/ ExpireLock(h)
        PROVE  Sound
    <3>1. CASE handler' = [handler EXCEPT ![h] = IdleHandler]
      <4>1. handler'[x] = handler[x]
        BY <1>2, <3>1 DEF IdleHandler, TypeOK
      <4> QED BY <2>2, <4>1
    <3>2. CASE handler' = [handler EXCEPT ![h].holds = FALSE]
      <4>1. handler'[x].pc = handler[x].pc /\ handler'[x].decision = handler[x].decision
        BY <3>2 DEF TypeOK, HandlerState
      <4> QED BY <2>2, <4>1
    <3> QED BY <2>6, <3>1, <3>2 DEF SettleDecision, FailHandler, ExpireLock
  <2>7. \/ UNCHANGED handler
        \/ \E h \in Handler, u \in Request : ReceiveDecision(h, u)
        \/ \E h \in Handler : \/ WriteOutcome(h) \/ PostInventory(h) \/ SettleDecision(h)
                              \/ FailHandler(h) \/ ExpireLock(h)
    BY DEF Next, vars, Tick, OpenReview, TrackInitial, BeginCancel, EndCancel, Decide, Timer,
           StartCycle, SendNotice, TrackNotice, WebForm, SaveDecision, PublishDecision,
           Callback, Failures, FailCycle, FailRequest
  <2>8. CASE UNCHANGED handler
    BY <2>2, <2>8
  <2> QED BY <2>3, <2>4, <2>5, <2>6, <2>7, <2>8
<1>3. ASSUME mailing' # None
      PROVE  mail'[mailing'][NextLevel(seen'[mailing'], cycleTime')] > 0
  <2>1. ASSUME NEW a \in Albaran, SendNotice(a)
        PROVE  mail'[mailing'][NextLevel(seen'[mailing'], cycleTime')] > 0
    <3>1. NextLevel(seen[a], cycleTime) \in Level
      BY <2>1, NextLevelIsDue DEF SendNotice, SeenAreDue, DueLevels, Notice
    <3>2. mailing' = a /\ UNCHANGED <<seen, cycleTime>>
      BY <2>1 DEF SendNotice
    <3>3. mail'[a][NextLevel(seen[a], cycleTime)] > 0
      BY <2>1, <3>1 DEF SendNotice, SendMail, TypeOK
    <3> QED BY <3>2, <3>3
  <2>2. CASE UNCHANGED timerVars
    <3>1. mailing \in due /\ mailing \in Albaran
      BY <1>3, <2>2 DEF timerVars, TypeOK
    <3>2. NextLevel(seen[mailing], cycleTime) \in Level
      BY <3>1, NextLevelIsDue DEF SeenAreDue, DueLevels, Notice
    <3>3. mail[mailing][NextLevel(seen[mailing], cycleTime)] > 0
      BY <1>3, <2>2 DEF timerVars, Honest, HonestActors
    <3> QED BY <1>1, <2>2, <3>1, <3>2, <3>3 DEF timerVars, Extends
  <2>3. CASE StartCycle
    <3>1. mailing = None
      BY <2>3 DEF StartCycle, TypeOK
    <3> QED BY <1>3, <2>3, <3>1 DEF StartCycle
  <2>4. CASE TrackNotice \/ FailCycle
    BY <1>3, <2>4 DEF TrackNotice, FailCycle, EndCycle
  <2>5. \/ UNCHANGED timerVars \/ StartCycle \/ TrackNotice \/ FailCycle
        \/ \E a \in Albaran : SendNotice(a)
    BY DEF Next, vars, timerVars, Tick, OpenReview, TrackInitial, BeginCancel, EndCancel,
           Decide, Timer, WebForm, SaveDecision, PublishDecision, Callback, ReceiveDecision,
           PostInventory, WriteOutcome, SettleDecision, Failures, FailRequest, FailHandler,
           ExpireLock
  <2> QED BY <2>1, <2>2, <2>3, <2>4, <2>5
<1> QED BY <1>2, <1>3 DEF HonestActors

LEMMA HonestAlways == Spec => [](Shape /\ Honest)
<1>1. Init => Shape /\ Honest
  BY ShapeInit, HonestInit
<1>2. (Shape /\ Honest) /\ [Next]_vars => (Shape /\ Honest)'
  BY ShapeStep, DocumentsStep, CopiesStep, ActorsStep DEF Honest
<1> QED BY <1>1, <1>2, PTL DEF Spec

\* No document claims an escalation level whose notice was not sent: the timer
\* tracks what it has sent, and whoever writes an older copy back writes a
\* level whose notice is older still.
THEOREM HitlLevelWasNotified == Spec => []LevelWasNotified
<1>1. Shape /\ Honest => LevelWasNotified
  BY DEF Honest, HonestDocuments, HonestNow, TellsTruth, LevelWasNotified
<1> QED BY <1>1, HonestAlways, PTL

\* A completed review has an approving decision and its receipt in Business
\* Central, a rejected one a rejection, whatever copies the timer, the web form,
\* the operator and other callbacks wrote over each other's.
THEOREM HitlOutcomeMatchesDecision == Spec => []OutcomeMatchesDecision
<1>1. Shape /\ Honest => OutcomeMatchesDecision
  BY DEF Honest, HonestDocuments, HonestNow, TellsTruth, OutcomeMatchesDecision
<1> QED BY <1>1, HonestAlways, PTL

-----------------------------------------------------------------------------
(* One notice per level.  What makes it true is about the copies the timer  *)
(* may still act on: a document that is still in the escalation has, above  *)
(* its own level, only notices that a fault answers for, except the one     *)
(* that has just been sent and is not yet tracked.  Only the opening of a   *)
(* review and the timer write such documents, and a review that is being    *)
(* announced is younger than every threshold.                               *)

BeingTracked(a, l) == mailing = a /\ l = NextLevel(seen[a], cycleTime)

HigherUnsent(a, d) ==
  d.status \in PendingStatus =>
    /\ d.level # "final_72h"
    /\ \A l \in Notice : Rank[l] > Rank[d.level] =>
         mail[a][l] <= faults \/ (BeingTracked(a, l) /\ mail[a][l] <= 1 + faults)

Unannounced(a) ==
  /\ record[a].status \notin PendingStatus
  /\ a \notin due /\ a \notin opening
  /\ \A l \in Level : mail[a][l] = 0

JustOpened(a) ==
  /\ a \notin due
  /\ \A l \in Notice : mail[a][l] = 0
  /\ record[a].status \in PendingStatus => record[a].createdAt = now

NoticesKept ==
  /\ OneNoticePerLevel
  /\ \A a \in Albaran : HigherUnsent(a, record[a]) /\ HigherUnsent(a, seen[a])
  /\ \A a \in due : seen[a].status \in PendingStatus
  /\ \A a \in opening : JustOpened(a)
  /\ \A a \in handoff : Unannounced(a)

LEMMA Ranks ==
  /\ Rank["initial"] = 0 /\ Rank["reminder_24h"] = 1
  /\ Rank["escalation_48h"] = 2 /\ Rank["final_72h"] = 3
  BY DEF Rank, Level

\* From a level below the last one, every threshold leads further up.
LEMMA NextLevelIsHigher ==
  ASSUME NEW d \in Document, NEW time, DueLevels(d, time) # {}, d.level # "final_72h"
  PROVE  /\ NextLevel(d, time) \in Notice
         /\ Rank[NextLevel(d, time)] > Rank[d.level]
<1>1. PICK l : l = NextLevel(d, time)
  OBVIOUS
<1>2. l \in Notice /\ d.level \in From[l]
  BY <1>1, NextLevelIsDue DEF DueLevels
<1>3. l \in {"reminder_24h", "escalation_48h", "final_72h"}
  BY <1>2 DEF Notice, Level
<1>4. d.level \in {"initial", "reminder_24h", "escalation_48h"}
  BY DEF Document, Level
<1>5. /\ From["reminder_24h"] = {"initial"}
      /\ From["escalation_48h"] = {"initial", "reminder_24h"}
  BY DEF From, Notice, Level
<1>6. Rank[l] > Rank[d.level]
  BY <1>2, <1>3, <1>4, <1>5, Ranks
<1> QED BY <1>1, <1>2, <1>6

\* Nothing is due in a document created at this moment.
LEMMA NothingDueYet ==
  ASSUME ReminderAfter > 0, EscalationAfter > 0, FinalAfter > 0,
         NEW d, NEW time \in Nat, d.createdAt = time
  PROVE  DueLevels(d, time) = {}
<1>1. time - time = 0
  OBVIOUS
<1>2. ASSUME NEW l \in Notice PROVE After[l] > 0
  <2>1. l \in {"reminder_24h", "escalation_48h", "final_72h"}
    BY DEF Notice, Level
  <2> QED BY <2>1, HitlAssumption DEF After
<1>3. \A l \in Notice : After[l] \in Nat
  BY HitlAssumption DEF After, Notice, Level
<1> QED BY <1>1, <1>2, <1>3, HitlAssumption DEF DueLevels

LEMMA NoticesInit == Init => NoticesKept
<1> SUFFICES ASSUME Init PROVE NoticesKept
  OBVIOUS
<1>1. \A a \in Albaran : record[a].status \notin PendingStatus
  BY DEF Init, OrchestratorDocument, NoDocument, PendingStatus
<1>2. \A a \in Albaran : seen[a].status \notin PendingStatus
  BY DEF Init, NoDocument, PendingStatus
<1>3. OneNoticePerLevel
  BY DEF Init, OneNoticePerLevel
<1>4. \A a \in handoff : Unannounced(a)
  BY <1>1 DEF Init, Unannounced
<1> QED BY <1>1, <1>2, <1>3, <1>4 DEF Init, NoticesKept, HigherUnsent

\* A step that sends nothing, leaves the timer alone and writes no document
\* back into the escalation keeps the notices in order.
LEMMA QuietStep ==
  ASSUME Shape, NoticesKept, UNCHANGED <<mail, timerVars, opening, handoff, now>>,
         faults' \in Nat, faults <= faults',
         \A a \in Albaran : \/ record'[a] = record[a]
                            \/ record'[a].status \notin PendingStatus
  PROVE  NoticesKept'
<1> USE DEF Shape
<1>1. mail \in [Albaran -> [Level -> Nat]] /\ faults \in Nat /\ Notice \subseteq Level
  BY DEF TypeOK, Notice
<1>2. UNCHANGED <<mail, due, seen, cycleTime, mailing, opening, handoff, now>>
  BY DEF timerVars
<1>3. OneNoticePerLevel'
  BY <1>1, <1>2 DEF NoticesKept, OneNoticePerLevel
<1>4. ASSUME NEW a \in Albaran, NEW d, HigherUnsent(a, d) PROVE HigherUnsent(a, d)'
  BY <1>1, <1>2, <1>4 DEF HigherUnsent, BeingTracked
<1>5. \A a \in Albaran : HigherUnsent(a, record[a])' /\ HigherUnsent(a, seen[a])'
  BY <1>2, <1>4 DEF NoticesKept, HigherUnsent
<1>6. (\A a \in due : seen[a].status \in PendingStatus)'
  BY <1>2 DEF NoticesKept
<1>7. (\A a \in opening : JustOpened(a))' /\ (\A a \in handoff : Unannounced(a))'
  BY <1>2 DEF NoticesKept, JustOpened, Unannounced, TypeOK
<1> QED BY <1>3, <1>5, <1>6, <1>7 DEF NoticesKept

\* The thresholds of EscalationConfig that the theorem is about: a review that
\* is opened is not due in the same instant.
ThresholdsPositive == ReminderAfter > 0 /\ EscalationAfter > 0 /\ FinalAfter > 0

\* One step for every action that sends a notice, moves the timer or opens a
\* review; the others are quiet.
LEMMA NoticesStep ==
  ASSUME ThresholdsPositive, Shape, Shape', NoticesKept, [Next]_vars
  PROVE  NoticesKept'
<1> USE DEF Shape
<1>1. mail \in [Albaran -> [Level -> Nat]] /\ faults \in Nat /\ now \in Nat /\ Notice \subseteq Level
  BY DEF TypeOK, Notice
<1>2. "initial" \in Level \ Notice
  BY DEF Level, Notice
<1>3. NoDocument.status \notin PendingStatus
  BY DEF NoDocument, PendingStatus
<1>4. CASE Tick
  BY <1>4 DEF Tick, NoticesKept, OneNoticePerLevel, HigherUnsent, BeingTracked, Unannounced,
              timerVars
<1>5. ASSUME NEW a \in Albaran, OpenReview(a) PROVE NoticesKept'
  <2>0. PICK d : d = [OrchestratorDocument("pending") EXCEPT !.createdAt = now]
    OBVIOUS
  <2>1. d.level = "initial" /\ d.createdAt = now
    BY <2>0 DEF OrchestratorDocument, NoDocument
  <2>2. /\ record' = [record EXCEPT ![a] = d] /\ mail' = [mail EXCEPT ![a]["initial"] = @ + 1]
        /\ handoff' = handoff \ {a} /\ opening' = opening \cup {a} /\ a \in handoff
        /\ UNCHANGED <<now, due, seen, cycleTime, mailing, faults>>
    BY <1>5, <2>0 DEF OpenReview, Upsert, SendMail, timerVars
  <2>3. /\ record'[a] = d
        /\ \A b \in Albaran : b # a => record'[b] = record[b] /\ mail'[b] = mail[b]
        /\ mail'[a]["initial"] = mail[a]["initial"] + 1
        /\ \A b \in Albaran, l \in Notice : mail'[b][l] = mail[b][l]
    BY <1>1, <1>2, <2>2 DEF TypeOK
  <2>4. Unannounced(a)
    BY <2>2 DEF NoticesKept
  <2>5. OneNoticePerLevel'
    <3>1. ASSUME NEW b \in Albaran, NEW l \in Level PROVE mail'[b][l] <= 1 + faults
      <4>1. CASE b = a /\ l = "initial"
        BY <1>1, <2>3, <2>4, <4>1 DEF Unannounced
      <4>2. CASE b # a \/ l # "initial"
        BY <1>1, <1>2, <2>3, <4>2 DEF NoticesKept, OneNoticePerLevel, Notice
      <4> QED BY <4>1, <4>2
    <3> QED BY <2>2, <3>1 DEF OneNoticePerLevel
  <2>6. \A b \in Albaran : HigherUnsent(b, seen[b])'
    BY <1>1, <2>2, <2>3 DEF NoticesKept, HigherUnsent, BeingTracked
  <2>7. \A b \in Albaran : HigherUnsent(b, record[b])'
    <3>1. HigherUnsent(a, record[a])'
      BY <1>1, <2>1, <2>2, <2>3, <2>4 DEF Unannounced, HigherUnsent
    <3>2. ASSUME NEW b \in Albaran, b # a PROVE HigherUnsent(b, record[b])'
      BY <1>1, <2>2, <2>3, <3>2 DEF NoticesKept, HigherUnsent, BeingTracked
    <3> QED BY <3>1, <3>2
  <2>8. (\A b \in opening : JustOpened(b))'
    <3>1. JustOpened(a)'
      BY <1>1, <2>1, <2>2, <2>3, <2>4 DEF Unannounced, JustOpened
    <3>2. ASSUME NEW b \in opening, b # a PROVE JustOpened(b)'
      BY <1>1, <2>2, <2>3, <3>2 DEF NoticesKept, JustOpened, TypeOK
    <3> QED BY <2>2, <3>1, <3>2
  <2>9. (\A b \in handoff : Unannounced(b))'
    BY <2>2, <2>3 DEF NoticesKept, Unannounced, TypeOK
  <2> QED BY <2>2, <2>5, <2>6, <2>7, <2>8, <2>9 DEF NoticesKept
<1>6. ASSUME NEW a \in Albaran, TrackInitial(a) PROVE NoticesKept'
  <2>0. PICK d : d = [OrchestratorDocument("pending") EXCEPT !.createdAt = now]
    OBVIOUS
  <2>1. d.level = "initial" /\ d.createdAt = now
    BY <2>0 DEF OrchestratorDocument, NoDocument
  <2>2. /\ record' = [record EXCEPT ![a] = d] /\ a \in opening /\ opening' = opening \ {a}
        /\ UNCHANGED <<mail, handoff, now, due, seen, cycleTime, mailing, faults>>
    BY <1>6, <2>0 DEF TrackInitial, Upsert, timerVars
  <2>3. record'[a] = d /\ \A b \in Albaran : b # a => record'[b] = record[b]
    BY <2>2 DEF TypeOK
  <2>4. JustOpened(a) /\ a \notin handoff
    BY <2>2 DEF NoticesKept, Unannounced
  <2>5. \A b \in Albaran : HigherUnsent(b, record[b])'
    <3>1. HigherUnsent(a, record[a])'
      BY <1>1, <2>1, <2>2, <2>3, <2>4 DEF JustOpened, HigherUnsent
    <3>2. ASSUME NEW b \in Albaran, b # a PROVE HigherUnsent(b, record[b])'
      BY <2>2, <2>3, <3>2 DEF NoticesKept, HigherUnsent, BeingTracked
    <3> QED BY <3>1, <3>2
  <2>6. (\A b \in opening : JustOpened(b))' /\ (\A b \in handoff : Unannounced(b))'
    BY <2>2, <2>3, <2>4 DEF NoticesKept, JustOpened, Unannounced, TypeOK
  <2> QED BY <2>2, <2>5, <2>6 DEF NoticesKept, OneNoticePerLevel, HigherUnsent, BeingTracked
<1>7. CASE StartCycle
  <2>1. PICK S \in SUBSET Albaran :
          /\ S \subseteq Pending
          /\ due' = {a \in S : DueLevels(record[a], now) # {}}
          /\ seen' = [a \in Albaran |-> IF a \in due' THEN record[a] ELSE NoDocument]
    BY <1>7 DEF StartCycle, Listing
  <2>2. mailing = None /\ mailing' = None /\ None \notin Albaran
    BY <1>7, HitlAssumption DEF StartCycle, TypeOK
  <2>3. UNCHANGED <<record, mail, handoff, opening, now, faults>>
    BY <1>7 DEF StartCycle
  <2>4. ASSUME NEW a \in Albaran PROVE HigherUnsent(a, record[a])' /\ HigherUnsent(a, seen[a])'
    <3>1. HigherUnsent(a, record[a])'
      BY <2>2, <2>3 DEF NoticesKept, HigherUnsent, BeingTracked
    <3>2. seen'[a] = record'[a] \/ seen'[a] = NoDocument
      BY <2>1, <2>3
    <3> QED BY <1>3, <3>1, <3>2 DEF HigherUnsent
  <2>5. ASSUME NEW a \in due' PROVE seen'[a].status \in PendingStatus
    BY <2>1 DEF Pending
  <2>6. ASSUME NEW a \in opening PROVE JustOpened(a)'
    <3>1. JustOpened(a) /\ a \in Albaran
      BY DEF NoticesKept, TypeOK
    <3>2. a \notin due'
      BY <1>1, <2>1, <3>1, NothingDueYet DEF Pending, JustOpened, ThresholdsPositive
    <3> QED BY <2>3, <3>1, <3>2 DEF JustOpened
  <2>7. ASSUME NEW a \in handoff PROVE Unannounced(a)'
    BY <2>1, <2>3 DEF NoticesKept, Unannounced, Pending
  <2> QED BY <2>3, <2>4, <2>5, <2>6, <2>7 DEF NoticesKept, OneNoticePerLevel
<1>8. ASSUME NEW a \in Albaran, SendNotice(a) PROVE NoticesKept'
  <2>1. PICK l : l = NextLevel(seen[a], cycleTime)
    OBVIOUS
  <2>2. /\ mailing = None /\ a \in due /\ mailing' = a
        /\ mail' = [mail EXCEPT ![a][l] = @ + 1]
        /\ UNCHANGED <<record, now, handoff, opening, due, seen, cycleTime, faults>>
    BY <1>8, <2>1 DEF SendNotice, SendMail
  <2>3. None \notin Albaran
    BY HitlAssumption
  <2>4. /\ seen[a] \in Document /\ seen[a].status \in PendingStatus
        /\ seen[a].level # "final_72h" /\ DueLevels(seen[a], cycleTime) # {}
    BY <2>2 DEF NoticesKept, HigherUnsent, TypeOK, SeenAreDue
  <2>5. l \in Notice /\ Rank[l] > Rank[seen[a].level]
    BY <2>1, <2>4, NextLevelIsHigher
  <2>6. mail[a][l] <= faults
    BY <2>2, <2>3, <2>4, <2>5 DEF NoticesKept, HigherUnsent, BeingTracked
  <2>7. /\ mail'[a][l] = mail[a][l] + 1
        /\ \A b \in Albaran, k \in Level : (b # a \/ k # l) => mail'[b][k] = mail[b][k]
    BY <1>1, <2>2, <2>5
  <2>8. OneNoticePerLevel'
    BY <1>1, <2>2, <2>6, <2>7 DEF NoticesKept, OneNoticePerLevel
  <2>9. ASSUME NEW b \in Albaran, NEW d, HigherUnsent(b, d) PROVE HigherUnsent(b, d)'
    <3>1. ~BeingTracked(b, l) /\ \A k \in Notice : ~BeingTracked(b, k)
      BY <2>2, <2>3 DEF BeingTracked
    <3>2. BeingTracked(a, l)'
      BY <2>1, <2>2 DEF BeingTracked
    <3> QED BY <1>1, <2>2, <2>5, <2>6, <2>7, <2>9, <3>1, <3>2 DEF HigherUnsent
  <2>10. \A b \in Albaran : HigherUnsent(b, record[b])' /\ HigherUnsent(b, seen[b])'
    BY <2>2, <2>9 DEF NoticesKept, HigherUnsent
  <2>11. (\A b \in opening : JustOpened(b))' /\ (\A b \in handoff : Unannounced(b))'
    BY <1>1, <2>2, <2>7 DEF NoticesKept, JustOpened, Unannounced, TypeOK
  <2> QED BY <2>2, <2>8, <2>10, <2>11 DEF NoticesKept
<1>9. CASE TrackNotice
  <2>1. PICK a, l : a = mailing /\ l = NextLevel(seen[a], cycleTime)
    OBVIOUS
  <2> DEFINE d == [seen[a] EXCEPT !.status = StatusForLevel[l], !.level = l]
  <2>2. a \in due /\ a \in Albaran /\ None \notin Albaran /\ seen[a] \in Document
    BY <1>9, <2>1, HitlAssumption DEF TrackNotice, TypeOK
  <2>3. /\ record' = [record EXCEPT ![a] = d] /\ due' = due \ {a} /\ mailing' = None
        /\ \A b \in Albaran : seen'[b] = NoDocument \/ seen'[b] = seen[b]
        /\ \A b \in due' : seen'[b] = seen[b]
        /\ UNCHANGED <<mail, handoff, opening, now, faults>>
    <3> HIDE DEF d
    <3>1. CASE due = {a}
      BY <1>9, <2>1, <2>2, <3>1 DEF TrackNotice, EndCycle, Upsert, d
    <3>2. CASE due # {a}
      BY <1>9, <2>1, <2>2, <3>2 DEF TrackNotice, Upsert, TypeOK, d
    <3> QED BY <3>1, <3>2
  <2>4. /\ seen[a].status \in PendingStatus /\ seen[a].level # "final_72h"
        /\ DueLevels(seen[a], cycleTime) # {} /\ HigherUnsent(a, seen[a])
    BY <2>2 DEF NoticesKept, HigherUnsent, SeenAreDue
  <2>5. l \in Notice /\ Rank[l] > Rank[seen[a].level]
    BY <2>1, <2>2, <2>4, NextLevelIsHigher
  <2>6. ASSUME NEW b \in Albaran, b # a, NEW e, HigherUnsent(b, e) PROVE HigherUnsent(b, e)'
    BY <2>1, <2>3, <2>6 DEF HigherUnsent, BeingTracked
  <2>7. \A k \in Notice : Rank[k] > Rank[l] => mail[a][k] <= faults
    <3>1. ASSUME NEW k \in Notice, Rank[k] > Rank[l] PROVE mail[a][k] <= faults
      <4>1. Rank[l] \in Nat /\ Rank[k] \in Nat /\ Rank[seen[a].level] \in Nat
        BY <2>2, <2>5 DEF Rank, Notice, Level, Document
      <4>2. Rank[k] > Rank[seen[a].level] /\ k # l
        BY <2>5, <3>1, <4>1
      <4> QED BY <2>1, <2>4, <4>2 DEF HigherUnsent, BeingTracked
    <3> QED BY <3>1
  <2>8. record'[a] = d /\ \A b \in Albaran : b # a => record'[b] = record[b]
    <3> HIDE DEF d
    <3> QED BY <2>2, <2>3 DEF TypeOK
  <2>9. HigherUnsent(a, record[a])'
    <3>1. d.level = l /\ d.status = StatusForLevel[l]
      BY <2>2 DEF Document
    <3>2. l = "final_72h" => StatusForLevel[l] \notin PendingStatus
      BY DEF StatusForLevel, PendingStatus, Level
    <3> HIDE DEF d
    <3> QED BY <2>3, <2>7, <2>8, <3>1, <3>2 DEF HigherUnsent
  <2>10. ASSUME NEW b \in Albaran PROVE HigherUnsent(b, record[b])' /\ HigherUnsent(b, seen[b])'
    <3>1. HigherUnsent(b, NoDocument)'
      BY <1>3 DEF HigherUnsent
    <3>2. seen'[a] = NoDocument
      <4>1. CASE due = {a}
        BY <1>9, <2>1, <2>2, <4>1 DEF TrackNotice, EndCycle
      <4>2. CASE due # {a}
        BY <1>9, <2>1, <2>2, <4>2 DEF TrackNotice, TypeOK
      <4> QED BY <4>1, <4>2
    <3>3. CASE b = a
      BY <2>9, <3>1, <3>2, <3>3 DEF HigherUnsent
    <3>4. CASE b # a
      BY <2>3, <2>6, <2>8, <3>1, <3>4 DEF NoticesKept, HigherUnsent
    <3> QED BY <3>3, <3>4
  <2>11. (\A b \in opening : JustOpened(b))' /\ (\A b \in handoff : Unannounced(b))'
    <3>1. a \notin opening /\ a \notin handoff
      BY <2>2 DEF NoticesKept, JustOpened, Unannounced
    <3> QED BY <2>3, <2>8, <3>1 DEF NoticesKept, JustOpened, Unannounced, TypeOK
  <2>12. (\A b \in due : seen[b].status \in PendingStatus)' /\ OneNoticePerLevel'
    BY <2>3 DEF NoticesKept, OneNoticePerLevel
  <2> QED BY <2>10, <2>11, <2>12 DEF NoticesKept
<1>10. CASE FailCycle
  <2>1. /\ due' = {} /\ seen' = [a \in Albaran |-> NoDocument] /\ mailing' = None
        /\ faults' = faults + 1 /\ UNCHANGED <<record, mail, handoff, opening, now>>
    BY <1>10 DEF FailCycle, Fault, EndCycle
  <2>2. ASSUME NEW a \in Albaran PROVE HigherUnsent(a, record[a])' /\ HigherUnsent(a, seen[a])'
    <3>1. HigherUnsent(a, record[a])'
      BY <1>1, <2>1 DEF NoticesKept, HigherUnsent
    <3>2. HigherUnsent(a, seen[a])'
      BY <1>3, <2>1 DEF HigherUnsent
    <3> QED BY <3>1, <3>2
  <2>3. OneNoticePerLevel'
    BY <1>1, <2>1 DEF NoticesKept, OneNoticePerLevel
  <2>4. (\A b \in opening : JustOpened(b))' /\ (\A b \in handoff : Unannounced(b))'
    BY <2>1 DEF NoticesKept, JustOpened, Unannounced
  <2> QED BY <2>1, <2>2, <2>3, <2>4 DEF NoticesKept
<1>11. ASSUME NEW a \in Albaran, BeginCancel(a) \/ EndCancel(a) PROVE NoticesKept'
  <2>1. [cancelling[a] EXCEPT !.status = "cancelled"].status \notin PendingStatus
    BY DEF TypeOK, Document, PendingStatus
  <2>2. \A b \in Albaran : record'[b] = record[b] \/ record'[b].status \notin PendingStatus
    BY <1>11, <2>1 DEF BeginCancel, EndCancel, Upsert, TypeOK
  <2> QED BY <1>1, <1>11, <2>2, QuietStep DEF BeginCancel, EndCancel
<1>12. ASSUME NEW w \in Request, SaveDecision(w) PROVE NoticesKept'
  <2>1. [request[w].copy EXCEPT !.status = "decided", !.decision = w].status \notin PendingStatus
    BY DEF TypeOK, RequestState, Document, PendingStatus
  <2>2. \A b \in Albaran : record'[b] = record[b] \/ record'[b].status \notin PendingStatus
    BY <1>12, <2>1 DEF SaveDecision, Upsert, TypeOK
  <2> QED BY <1>1, <1>12, <2>2, QuietStep DEF SaveDecision
<1>13. ASSUME NEW h \in Handler, WriteOutcome(h) PROVE NoticesKept'
  <2>1. Outcome[handler[h].pc] \notin PendingStatus /\ handler[h].copy \in Document
    BY <1>13 DEF WriteOutcome, Outcome, PendingStatus, TypeOK, HandlerState
  <2>2. [handler[h].copy EXCEPT !.status = Outcome[handler[h].pc],
                                !.decision = handler[h].decision].status \notin PendingStatus
    BY <2>1 DEF Document
  <2>3. \A b \in Albaran : record'[b] = record[b] \/ record'[b].status \notin PendingStatus
    BY <1>13, <2>2 DEF WriteOutcome, Upsert, TypeOK
  <2> QED BY <1>1, <1>13, <2>3, QuietStep DEF WriteOutcome
<1>14. CASE \/ \E w \in Request, a \in Albaran, v \in Verdict : Decide(w, a, v)
            \/ \E w \in Request : PublishDecision(w)
            \/ \E h \in Handler, w \in Request : ReceiveDecision(h, w)
            \/ \E h \in Handler : PostInventory(h) \/ SettleDecision(h)
            \/ UNCHANGED vars
  <2>1. UNCHANGED <<record, mail, timerVars, opening, handoff, now, faults>>
    BY <1>14 DEF Decide, PublishDecision, ReceiveDecision, PostInventory, SettleDecision, vars,
                 timerVars
  <2> QED BY <1>1, <2>1, QuietStep
<1>15. CASE \/ \E w \in Request : FailRequest(w)
            \/ \E h \in Handler : FailHandler(h) \/ ExpireLock(h)
  <2>1. UNCHANGED <<record, mail, timerVars, opening, handoff, now>> /\ faults' = faults + 1
    BY <1>15 DEF FailRequest, FailHandler, ExpireLock, Fault, timerVars
  <2> QED BY <1>1, <2>1, QuietStep
<1> QED BY <1>4, <1>5, <1>6, <1>7, <1>8, <1>9, <1>10, <1>11, <1>12, <1>13, <1>14, <1>15
        DEF Next, Timer, WebForm, Callback, Failures

\* A notice of a level goes out once per review and once more for each fault at
\* most.  The thresholds are positive: with one at zero hours, which
\* EscalationConfig does not exclude, the upsert that tracks the initial notice
\* can erase a level the timer tracked before it, and the level is sent again.
THEOREM HitlOneNoticePerLevel ==
  ASSUME ThresholdsPositive
  PROVE  Spec => []OneNoticePerLevel
<1>1. Init => Shape /\ NoticesKept
  BY ShapeInit, NoticesInit
<1>2. (Shape /\ NoticesKept) /\ [Next]_vars => (Shape /\ NoticesKept)'
  BY ShapeStep, NoticesStep
<1>3. NoticesKept => OneNoticePerLevel
  BY DEF NoticesKept
<1> QED BY <1>1, <1>2, <1>3, PTL DEF Spec

-----------------------------------------------------------------------------
(* The receipts.  A published approving decision is good for one receipt at *)
(* a time: it waits on the topic, or a callback is about to post it, or it  *)
(* is spent, and only a fault puts it back on the topic.  The balance of an *)
(* albaran counts the receipts posted and those that may still be.          *)

Published(a) == {w \in Request : /\ topic[w] # "none"
                                /\ request[w].albaran = a
                                /\ request[w].verdict \in Approving}
Waiting(a) == {w \in Published(a) : topic[w] = "queued"}
Posting(a) == {h \in Handler : handler[h].pc = "post" /\ Subject(h) = a}

Balance(a) ==
  /\ IsFiniteSet(Published(a)) /\ IsFiniteSet(Posting(a))
  /\ erp[a] + Cardinality(Waiting(a)) + Cardinality(Posting(a))
       <= faults + Cardinality(Published(a))

\* A request that is not answered has published nothing.
UnpublishedBefore ==
  \A w \in Request : request[w].pc \in {"idle", "save", "publish"} => topic[w] = "none"

ReceiptsKept == UnpublishedBefore /\ \A a \in Albaran : Balance(a)

\* How far one element can move the size of a set.
LEMMA OneMore ==
  ASSUME NEW S, IsFiniteSet(S), NEW e, NEW T, T \subseteq S \cup {e}
  PROVE  /\ IsFiniteSet(T) /\ Cardinality(T) \in Nat /\ Cardinality(S) \in Nat
         /\ Cardinality(T) <= Cardinality(S) + 1
         /\ T \subseteq S => Cardinality(T) <= Cardinality(S)
<1>1. /\ IsFiniteSet(S \cup {e}) /\ Cardinality(S) \in Nat /\ Cardinality(S \cup {e}) \in Nat
      /\ Cardinality(S \cup {e}) <= Cardinality(S) + 1
  BY FS_AddElement, FS_CardinalityType
<1>2. /\ IsFiniteSet(T) /\ Cardinality(T) \in Nat
      /\ Cardinality(T) <= Cardinality(S \cup {e})
  BY <1>1, FS_Subset, FS_CardinalityType
<1>3. T \subseteq S => Cardinality(T) <= Cardinality(S)
  BY FS_Subset
<1> QED BY <1>1, <1>2, <1>3

LEMMA OneLess ==
  ASSUME NEW S, IsFiniteSet(S), NEW e \in S, NEW T, T \subseteq S \ {e}
  PROVE  /\ IsFiniteSet(T) /\ Cardinality(T) \in Nat /\ Cardinality(S) \in Nat
         /\ Cardinality(T) + 1 <= Cardinality(S)
<1>1. /\ IsFiniteSet(S \ {e}) /\ Cardinality(S \ {e}) = Cardinality(S) - 1
      /\ Cardinality(S) \in Nat
  BY FS_RemoveElement, FS_CardinalityType
<1>2. /\ IsFiniteSet(T) /\ Cardinality(T) \in Nat /\ Cardinality(T) <= Cardinality(S \ {e})
  BY <1>1, FS_Subset, FS_CardinalityType
<1> QED BY <1>1, <1>2

LEMMA ReceiptsInit == Init => ReceiptsKept
<1> SUFFICES ASSUME Init PROVE ReceiptsKept
  OBVIOUS
<1>1. \A a \in Albaran : Published(a) = {} /\ Waiting(a) = {} /\ Posting(a) = {}
  BY DEF Init, Published, Waiting, Posting, IdleHandler
<1>2. \A a \in Albaran : Balance(a)
  <2>1. IsFiniteSet({}) /\ Cardinality({}) = 0
    BY FS_EmptySet
  <2>2. faults = 0 /\ \A a \in Albaran : erp[a] = 0
    BY DEF Init
  <2>3. ASSUME NEW a \in Albaran PROVE Balance(a)
    BY <1>1, <2>1, <2>2 DEF Balance
  <2> QED BY <2>3
<1> QED BY <1>2 DEF Init, ReceiptsKept, UnpublishedBefore

\* A step that publishes nothing, posts nothing and puts at most one decision
\* back, and then by a fault.
LEMMA BalanceOfRequeue ==
  ASSUME Shape, Shape', NEW a \in Albaran, Balance(a), erp' = erp, NEW e,
         Published(a)' = Published(a), Posting(a)' \subseteq Posting(a),
         \/ Waiting(a)' \subseteq Waiting(a) /\ faults <= faults'
         \/ Waiting(a)' \subseteq Waiting(a) \cup {e} /\ faults' = faults + 1
  PROVE  Balance(a)'
<1>1. faults \in Nat /\ faults' \in Nat /\ erp[a] \in Nat /\ erp'[a] = erp[a]
  BY DEF Shape, TypeOK
<1>2. IsFiniteSet(Published(a)) /\ IsFiniteSet(Waiting(a)) /\ IsFiniteSet(Posting(a))
  BY FS_Subset DEF Balance, Waiting
<1>3. Cardinality(Published(a)) \in Nat
  BY <1>2, FS_CardinalityType
<1>4. PICK p, p1, q, q1, c :
        p = Posting(a) /\ p1 = Posting(a)' /\ q = Waiting(a) /\ q1 = Waiting(a)'
        /\ c = Published(a)
  OBVIOUS
<1>5. /\ IsFiniteSet(p1) /\ Cardinality(p1) \in Nat /\ Cardinality(p) \in Nat
      /\ Cardinality(p1) <= Cardinality(p)
  BY <1>2, <1>4, OneMore
<1>6. /\ Cardinality(q1) \in Nat /\ Cardinality(q) \in Nat
      /\ Cardinality(q1) <= Cardinality(q) + 1
      /\ q1 \subseteq q => Cardinality(q1) <= Cardinality(q)
  BY <1>2, <1>4, OneMore
<1>7. erp[a] + Cardinality(q) + Cardinality(p) <= faults + Cardinality(c)
  BY <1>4 DEF Balance
<1>8. erp[a] + Cardinality(q1) + Cardinality(p1) <= faults' + Cardinality(c)
  BY <1>1, <1>3, <1>4, <1>5, <1>6, <1>7
<1> QED BY <1>1, <1>2, <1>4, <1>5, <1>8 DEF Balance

\* A step that publishes decision w.
LEMMA BalanceOfPublish ==
  ASSUME Shape, Shape', NEW a \in Albaran, Balance(a), erp' = erp, faults <= faults', NEW w,
         Posting(a)' = Posting(a),
         \/ Published(a)' = Published(a) /\ Waiting(a)' = Waiting(a)
         \/ /\ Published(a)' = Published(a) \cup {w} /\ w \notin Published(a)
            /\ Waiting(a)' = Waiting(a) \cup {w}
  PROVE  Balance(a)'
<1>1. faults \in Nat /\ faults' \in Nat /\ erp[a] \in Nat /\ erp'[a] = erp[a]
  BY DEF Shape, TypeOK
<1>2. IsFiniteSet(Published(a)) /\ IsFiniteSet(Waiting(a)) /\ IsFiniteSet(Posting(a))
  BY FS_Subset DEF Balance, Waiting
<1>3. PICK p, c, c1, q, q1 :
        p = Posting(a) /\ q = Waiting(a) /\ q1 = Waiting(a)'
        /\ c = Published(a) /\ c1 = Published(a)'
  OBVIOUS
<1>4. Cardinality(p) \in Nat /\ Cardinality(c) \in Nat /\ Cardinality(q) \in Nat
  BY <1>2, <1>3, FS_CardinalityType
<1>5. erp[a] + Cardinality(q) + Cardinality(p) <= faults + Cardinality(c)
  BY <1>3 DEF Balance
<1>6. \/ q1 = q /\ c1 = c
      \/ /\ c1 = c \cup {w} /\ w \notin c /\ q1 = q \cup {w}
  BY <1>3
<1>7. /\ IsFiniteSet(c1)
      /\ \/ Cardinality(q1) = Cardinality(q) /\ Cardinality(c1) = Cardinality(c)
         \/ /\ Cardinality(q1) <= Cardinality(q) + 1 /\ Cardinality(c1) = Cardinality(c) + 1
            /\ Cardinality(q1) \in Nat
  <2>1. CASE q1 = q /\ c1 = c
    BY <1>2, <1>3, <2>1
  <2>2. CASE c1 = c \cup {w} /\ w \notin c /\ q1 = q \cup {w}
    <3>1. IsFiniteSet(c1) /\ Cardinality(c1) = Cardinality(c) + 1
      BY <1>2, <1>3, <2>2, FS_AddElement
    <3>2. Cardinality(q1) <= Cardinality(q) + 1 /\ Cardinality(q1) \in Nat
      BY <1>2, <1>3, <2>2, OneMore
    <3> QED BY <3>1, <3>2
  <2> QED BY <1>6, <2>1, <2>2
<1>8. erp[a] + Cardinality(q1) + Cardinality(p) <= faults' + Cardinality(c1)
  BY <1>1, <1>4, <1>5, <1>7
<1> QED BY <1>1, <1>2, <1>3, <1>7, <1>8 DEF Balance

\* A delivery takes a decision off the topic and, if it approves, a callback is
\* about to post it; a posting spends it, whether the receipt was made or not.
LEMMA BalanceOfDelivery ==
  ASSUME Shape, Shape', NEW a \in Albaran, Balance(a), erp' = erp, faults' = faults,
         Published(a)' = Published(a), NEW w, NEW h,
         \/ w \in Waiting(a) /\ Waiting(a)' \subseteq Waiting(a) \ {w}
            /\ Posting(a)' \subseteq Posting(a) \cup {h}
         \/ Waiting(a)' \subseteq Waiting(a) /\ Posting(a)' \subseteq Posting(a)
  PROVE  Balance(a)'
<1>1. faults \in Nat /\ erp[a] \in Nat
  BY DEF Shape, TypeOK
<1>2. IsFiniteSet(Published(a)) /\ IsFiniteSet(Waiting(a)) /\ IsFiniteSet(Posting(a))
  BY FS_Subset DEF Balance, Waiting
<1>3. PICK p, p1, q, q1, c :
        p = Posting(a) /\ p1 = Posting(a)' /\ q = Waiting(a) /\ q1 = Waiting(a)'
        /\ c = Published(a)
  OBVIOUS
<1>4. Cardinality(p) \in Nat /\ Cardinality(c) \in Nat /\ Cardinality(q) \in Nat
  BY <1>2, <1>3, FS_CardinalityType
<1>5. erp[a] + Cardinality(q) + Cardinality(p) <= faults + Cardinality(c)
  BY <1>3 DEF Balance
<1>6. IsFiniteSet(p1) /\ erp[a] + Cardinality(q1) + Cardinality(p1) <= faults + Cardinality(c)
  <2>1. CASE w \in q /\ q1 \subseteq q \ {w} /\ p1 \subseteq p \cup {h}
    <3>1. Cardinality(q1) \in Nat /\ Cardinality(q1) + 1 <= Cardinality(q)
      BY <1>2, <1>3, <2>1, OneLess
    <3>2. IsFiniteSet(p1) /\ Cardinality(p1) \in Nat /\ Cardinality(p1) <= Cardinality(p) + 1
      BY <1>2, <1>3, <2>1, OneMore
    <3> QED BY <1>1, <1>4, <1>5, <3>1, <3>2
  <2>2. CASE q1 \subseteq q /\ p1 \subseteq p
    <3>1. Cardinality(q1) \in Nat /\ Cardinality(q1) <= Cardinality(q)
      BY <1>2, <1>3, <2>2, OneMore
    <3>2. IsFiniteSet(p1) /\ Cardinality(p1) \in Nat /\ Cardinality(p1) <= Cardinality(p)
      BY <1>2, <1>3, <2>2, OneMore
    <3> QED BY <1>1, <1>4, <1>5, <3>1, <3>2
  <2> QED BY <1>3, <2>1, <2>2
<1> QED BY <1>2, <1>3, <1>6 DEF Balance

LEMMA BalanceOfPosting ==
  ASSUME Shape, Shape', NEW a \in Albaran, Balance(a), faults' = faults,
         Published(a)' = Published(a), Waiting(a)' = Waiting(a), NEW h,
         \/ /\ h \in Posting(a) /\ Posting(a)' \subseteq Posting(a) \ {h}
            /\ erp'[a] <= erp[a] + 1
         \/ Posting(a)' \subseteq Posting(a) /\ erp'[a] = erp[a]
  PROVE  Balance(a)'
<1>1. faults \in Nat /\ erp[a] \in Nat /\ erp'[a] \in Nat
  BY DEF Shape, TypeOK
<1>2. IsFiniteSet(Published(a)) /\ IsFiniteSet(Waiting(a)) /\ IsFiniteSet(Posting(a))
  BY FS_Subset DEF Balance, Waiting
<1>3. PICK p, p1, q, c, e, e1 :
        p = Posting(a) /\ p1 = Posting(a)' /\ q = Waiting(a) /\ c = Published(a)
        /\ e = erp[a] /\ e1 = erp'[a]
  OBVIOUS
<1>4. Cardinality(p) \in Nat /\ Cardinality(c) \in Nat /\ Cardinality(q) \in Nat
  BY <1>2, <1>3, FS_CardinalityType
<1>5. e + Cardinality(q) + Cardinality(p) <= faults + Cardinality(c)
  BY <1>3 DEF Balance
<1>6. IsFiniteSet(p1) /\ e1 + Cardinality(q) + Cardinality(p1) <= faults + Cardinality(c)
  <2>1. CASE h \in p /\ p1 \subseteq p \ {h} /\ e1 <= e + 1
    <3>1. IsFiniteSet(p1) /\ Cardinality(p1) \in Nat /\ Cardinality(p1) + 1 <= Cardinality(p)
      BY <1>2, <1>3, <2>1, OneLess
    <3> QED BY <1>1, <1>3, <1>4, <1>5, <2>1, <3>1
  <2>2. CASE p1 \subseteq p /\ e1 = e
    <3>1. IsFiniteSet(p1) /\ Cardinality(p1) \in Nat /\ Cardinality(p1) <= Cardinality(p)
      BY <1>2, <1>3, <2>2, OneMore
    <3> QED BY <1>1, <1>3, <1>4, <1>5, <2>2, <3>1
  <2> QED BY <1>3, <2>1, <2>2
<1> QED BY <1>2, <1>3, <1>6 DEF Balance

\* A callback that is about to post has its decision on the topic, and the
\* request that made it is answered: no later request changes its albaran.
LEMMA PostingStays ==
  ASSUME Shape, [Next]_vars, NEW h \in Handler, handler[h].pc = "post"
  PROVE  /\ Subject(h) = request[handler[h].decision].albaran
         /\ handler[h].decision \in Request
         /\ request'[handler[h].decision].albaran = request[handler[h].decision].albaran
<1>1. handler[h].decision \in Request /\ request[handler[h].decision].pc # "idle"
  BY DEF Shape, HandlersKnown, RequestsKnown
<1> QED BY <1>1, StepExtends DEF Extends, Subject

\* What is published and what is about to be posted change only with the topic
\* and the callbacks: the request of a published decision is settled.
LEMMA SamePublished ==
  ASSUME Shape, [Next]_vars, NEW a \in Albaran,
         \A w \in Request : topic'[w] = "none" <=> topic[w] = "none"
  PROVE  Published(a)' = Published(a)
<1>1. \A w \in Request : topic[w] # "none" =>
        request'[w].albaran = request[w].albaran /\ request'[w].verdict = request[w].verdict
  BY StepExtends DEF Extends, Shape, RequestsKnown
<1> QED BY <1>1 DEF Published

LEMMA FewerPosting ==
  ASSUME Shape, [Next]_vars, NEW a \in Albaran, NEW H \in SUBSET Handler,
         \A h \in H : handler'[h].pc = "post" =>
             handler[h].pc = "post" /\ handler'[h].decision = handler[h].decision
  PROVE  \A h \in H : h \in Posting(a)' => h \in Posting(a)
<1>1. ASSUME NEW h \in H, h \in Posting(a)' PROVE h \in Posting(a)
  <2>1. h \in Handler /\ handler'[h].pc = "post" /\ request'[handler'[h].decision].albaran = a
    BY <1>1 DEF Posting, Subject
  <2>2. handler[h].pc = "post" /\ handler'[h].decision = handler[h].decision
    BY <2>1
  <2> QED BY <2>1, <2>2, PostingStays DEF Posting
<1> QED BY <1>1

LEMMA ReceiptsStep ==
  ASSUME Shape, Shape', ReceiptsKept, [Next]_vars
  PROVE  ReceiptsKept'
<1>1. /\ request \in [Request -> RequestState] /\ topic \in [Request -> {"none", "queued", "locked", "done"}]
      /\ handler \in [Handler -> HandlerState] /\ faults \in Nat /\ erp \in [Albaran -> Nat]
      /\ UnpublishedBefore /\ \A a \in Albaran : Balance(a)
  BY DEF Shape, TypeOK, ReceiptsKept
<1>2. CASE UNCHANGED <<topic, handler, erp>> /\ faults' \in {faults, faults + 1}
  <2>1. ASSUME NEW a \in Albaran PROVE Balance(a)'
    <3>1. Published(a)' = Published(a) /\ Waiting(a)' = Waiting(a)
      BY <1>2, SamePublished DEF Waiting
    <3>2. Posting(a)' \subseteq Posting(a)
      BY <1>2, FewerPosting DEF Posting
    <3>3. faults <= faults'
      BY <1>1, <1>2
    <3> QED BY <1>1, <1>2, <3>1, <3>2, <3>3, BalanceOfRequeue
  <2>2. UnpublishedBefore'
    <3>1. ASSUME NEW u \in Request, request'[u].pc \in {"idle", "save", "publish"}
          PROVE  request[u].pc \in {"idle", "save", "publish"}
      <4>1. CASE UNCHANGED request
        BY <3>1, <4>1
      <4>2. ASSUME NEW w \in Request, NEW a \in Albaran, NEW v \in Verdict, Decide(w, a, v)
            PROVE  request[u].pc \in {"idle", "save", "publish"}
        BY <1>1, <3>1, <4>2 DEF Decide
      <4>3. ASSUME NEW w \in Request, SaveDecision(w)
            PROVE  request[u].pc \in {"idle", "save", "publish"}
        BY <1>1, <3>1, <4>3 DEF SaveDecision, RequestState
      <4>4. ASSUME NEW w \in Request, PublishDecision(w) \/ FailRequest(w)
            PROVE  request[u].pc \in {"idle", "save", "publish"}
        BY <1>1, <3>1, <4>4 DEF PublishDecision, FailRequest, RequestState
      <4>5. \/ UNCHANGED request
            \/ \E w \in Request : SaveDecision(w) \/ PublishDecision(w) \/ FailRequest(w)
            \/ \E w \in Request, a \in Albaran, v \in Verdict : Decide(w, a, v)
        BY DEF Next, vars, Tick, OpenReview, TrackInitial, BeginCancel, EndCancel, Timer,
               StartCycle, SendNotice, TrackNotice, WebForm, Callback, ReceiveDecision,
               PostInventory, WriteOutcome, SettleDecision, Failures, FailCycle, FailHandler,
               ExpireLock
      <4> QED BY <4>1, <4>2, <4>3, <4>4, <4>5
    <3> QED BY <1>1, <1>2, <3>1 DEF UnpublishedBefore
  <2> QED BY <2>1, <2>2 DEF ReceiptsKept
<1>3. ASSUME NEW w \in Request, request[w].pc = "publish",
             topic' = [topic EXCEPT ![w] = "queued"], UNCHANGED <<handler, erp>>,
             faults' \in {faults, faults + 1},
             \/ request' = [request EXCEPT ![w].pc = "accepted"]
             \/ request' = [request EXCEPT ![w].pc = "failed", ![w].copy = NoDocument]
      PROVE  ReceiptsKept'
  <2>1. /\ request'[w].pc \notin {"idle", "save", "publish"}
        /\ \A u \in Request : /\ request'[u].albaran = request[u].albaran
                              /\ request'[u].verdict = request[u].verdict
                              /\ u # w => request'[u] = request[u]
    <3>1. CASE request' = [request EXCEPT ![w].pc = "accepted"]
      BY <1>1, <3>1 DEF RequestState
    <3>2. CASE request' = [request EXCEPT ![w].pc = "failed", ![w].copy = NoDocument]
      BY <1>1, <3>2 DEF RequestState
    <3> QED BY <1>3, <3>1, <3>2
  <2>2. topic[w] = "none" /\ topic'[w] = "queued" /\ \A u \in Request : u # w => topic'[u] = topic[u]
    BY <1>1, <1>3 DEF UnpublishedBefore
  <2>3. UnpublishedBefore'
    BY <1>1, <2>1, <2>2 DEF UnpublishedBefore
  <2>4. \A x \in Handler : handler[x].pc = "post" => Subject(x)' = Subject(x)
    BY <1>3, PostingStays DEF Subject
  <2>5. ASSUME NEW a \in Albaran PROVE Balance(a)'
    <3>1. CASE request[w].albaran = a /\ request[w].verdict \in Approving
      <4>1. /\ Published(a)' = Published(a) \cup {w} /\ w \notin Published(a)
            /\ Waiting(a)' = Waiting(a) \cup {w}
        BY <2>1, <2>2, <3>1 DEF Published, Waiting
      <4>2. Posting(a)' = Posting(a)
        BY <1>3, <2>4 DEF Posting
      <4>3. faults <= faults'
        BY <1>1, <1>3
      <4> QED BY <1>1, <1>3, <4>1, <4>2, <4>3, BalanceOfPublish
    <3>2. CASE ~(request[w].albaran = a /\ request[w].verdict \in Approving)
      <4>1. Published(a)' = Published(a) /\ Waiting(a)' = Waiting(a)
        BY <2>1, <2>2, <3>2 DEF Published, Waiting
      <4>2. Posting(a)' = Posting(a)
        BY <1>3, <2>4 DEF Posting
      <4>3. faults <= faults'
        BY <1>1, <1>3
      <4> QED BY <1>1, <1>3, <4>1, <4>2, <4>3, BalanceOfPublish
    <3> QED BY <3>1, <3>2
  <2> QED BY <2>3, <2>5 DEF ReceiptsKept
<1>4. ASSUME NEW h \in Handler, NEW w \in Request, ReceiveDecision(h, w) PROVE ReceiptsKept'
  <2>1. /\ topic[w] = "queued" /\ topic' = [topic EXCEPT ![w] = "locked"]
        /\ handler'[h].decision = w /\ UNCHANGED <<request, erp, faults>>
        /\ handler'[h].pc = "post" => request[w].verdict \in Approving
        /\ \A x \in Handler \ {h} : handler'[x] = handler[x]
    BY <1>1, <1>4 DEF ReceiveDecision
  <2>2. UnpublishedBefore'
    BY <1>1, <2>1 DEF UnpublishedBefore
  <2>3. ASSUME NEW a \in Albaran PROVE Balance(a)'
    <3>1. Published(a)' = Published(a)
      BY <1>1, <2>1, SamePublished
    <3>2. \A x \in Handler \ {h} : x \in Posting(a)' => x \in Posting(a)
      BY <2>1, FewerPosting
    <3>3. CASE handler'[h].pc = "post" /\ request[w].albaran = a
      <4>1. w \in Waiting(a) /\ Waiting(a)' \subseteq Waiting(a) \ {w}
        BY <1>1, <2>1, <3>1, <3>3 DEF Waiting, Published
      <4>2. Posting(a)' \subseteq Posting(a) \cup {h}
        BY <3>2 DEF Posting
      <4> QED BY <1>1, <2>1, <3>1, <4>1, <4>2, BalanceOfDelivery
    <3>4. CASE ~(handler'[h].pc = "post" /\ request[w].albaran = a)
      <4>1. Waiting(a)' \subseteq Waiting(a)
        BY <1>1, <2>1, <3>1 DEF Waiting
      <4>2. h \notin Posting(a)'
        BY <2>1, <3>4 DEF Posting, Subject
      <4>3. Posting(a)' \subseteq Posting(a)
        BY <3>2, <4>2 DEF Posting
      <4> QED BY <1>1, <2>1, <3>1, <4>1, <4>3, BalanceOfDelivery
    <3> QED BY <3>3, <3>4
  <2> QED BY <2>2, <2>3 DEF ReceiptsKept
<1>5. ASSUME NEW h \in Handler, PostInventory(h) PROVE ReceiptsKept'
  <2>1. /\ handler[h].pc = "post" /\ UNCHANGED <<request, topic, faults>>
        /\ erp' = erp \/ erp' = [erp EXCEPT ![Subject(h)] = @ + 1]
    BY <1>5 DEF PostInventory
  <2>2. handler'[h].pc # "post" /\ \A x \in Handler \ {h} : handler'[x] = handler[x]
    BY <1>1, <1>5 DEF PostInventory, HandlerState
  <2>3. UnpublishedBefore'
    BY <1>1, <2>1 DEF UnpublishedBefore
  <2>4. ASSUME NEW a \in Albaran PROVE Balance(a)'
    <3>1. Published(a)' = Published(a) /\ Waiting(a)' = Waiting(a)
      BY <2>1, SamePublished DEF Waiting
    <3>2. Posting(a)' \subseteq Posting(a) \ {h}
      BY <2>1, <2>2 DEF Posting, Subject
    <3>3. CASE Subject(h) = a
      <4>1. h \in Posting(a)
        BY <2>1, <3>3 DEF Posting
      <4>2. erp'[a] <= erp[a] + 1
        BY <1>1, <2>1, <3>3
      <4> QED BY <1>1, <2>1, <3>1, <3>2, <4>1, <4>2, BalanceOfPosting
    <3>4. CASE Subject(h) # a
      <4>1. erp'[a] = erp[a]
        BY <1>1, <2>1, <3>4
      <4> QED BY <1>1, <2>1, <3>1, <3>2, <4>1, BalanceOfPosting
    <3> QED BY <3>3, <3>4
  <2> QED BY <2>3, <2>4 DEF ReceiptsKept
<1>6. ASSUME NEW h \in Handler, WriteOutcome(h) PROVE ReceiptsKept'
  <2>1. /\ \A x \in Handler : handler'[x].pc = "post" => handler'[x] = handler[x]
        /\ UNCHANGED <<request, topic, erp, faults>>
    BY <1>1, <1>6 DEF WriteOutcome, HandlerState
  <2>2. ASSUME NEW a \in Albaran PROVE Balance(a)'
    <3>1. Published(a)' = Published(a) /\ Waiting(a)' = Waiting(a)
      BY <2>1, SamePublished DEF Waiting
    <3>2. Posting(a)' \subseteq Posting(a)
      BY <2>1 DEF Posting, Subject
    <3> QED BY <1>1, <2>1, <3>1, <3>2, BalanceOfRequeue
  <2>3. UnpublishedBefore'
    BY <1>1, <2>1 DEF UnpublishedBefore
  <2> QED BY <2>2, <2>3 DEF ReceiptsKept
<1>7. ASSUME NEW h \in Handler, SettleDecision(h) \/ FailHandler(h) \/ ExpireLock(h)
      PROVE  ReceiptsKept'
  <2>1. UNCHANGED <<request, erp>>
    BY <1>7 DEF SettleDecision, FailHandler, ExpireLock
  <2>2. /\ handler[h].decision \in Request /\ topic[handler[h].decision] # "none"
    BY <1>7 DEF SettleDecision, FailHandler, ExpireLock, Shape, HandlersKnown
  <2>3. \A x \in Handler : handler'[x].pc = "post" =>
           handler[x].pc = "post" /\ handler'[x].decision = handler[x].decision
    <3>1. CASE handler' = [handler EXCEPT ![h] = IdleHandler]
      BY <1>1, <3>1 DEF IdleHandler
    <3>2. CASE handler' = [handler EXCEPT ![h].holds = FALSE]
      BY <1>1, <3>2 DEF HandlerState
    <3> QED BY <1>7, <3>1, <3>2 DEF SettleDecision, FailHandler, ExpireLock
  <2>4. \/ topic' = topic /\ faults' \in {faults, faults + 1}
        \/ topic' = [topic EXCEPT ![handler[h].decision] = "done"] /\ faults' = faults
        \/ topic' = [topic EXCEPT ![handler[h].decision] = "queued"] /\ faults' = faults + 1
    BY <1>7 DEF SettleDecision, FailHandler, ExpireLock, Fault
  <2>5. \A w \in Request : topic'[w] = "none" <=> topic[w] = "none"
    BY <1>1, <2>2, <2>4
  <2>6. ASSUME NEW a \in Albaran PROVE Balance(a)'
    <3>1. Published(a)' = Published(a)
      BY <2>5, SamePublished
    <3>2. Posting(a)' \subseteq Posting(a)
      BY <2>1, <2>3 DEF Posting, Subject
    <3>3. \/ Waiting(a)' \subseteq Waiting(a) /\ faults <= faults'
          \/ /\ Waiting(a)' \subseteq Waiting(a) \cup {handler[h].decision}
             /\ faults' = faults + 1
      <4>1. Published(a) \subseteq Request
        BY DEF Published
      <4>2. CASE topic' = topic /\ faults' \in {faults, faults + 1}
        BY <1>1, <3>1, <4>2 DEF Waiting
      <4>3. CASE topic' = [topic EXCEPT ![handler[h].decision] = "done"] /\ faults' = faults
        BY <1>1, <2>2, <3>1, <4>1, <4>3 DEF Waiting
      <4>4. CASE topic' = [topic EXCEPT ![handler[h].decision] = "queued"] /\ faults' = faults + 1
        BY <1>1, <2>2, <3>1, <4>1, <4>4 DEF Waiting
      <4> QED BY <2>4, <4>2, <4>3, <4>4
    <3> QED BY <1>1, <2>1, <3>1, <3>2, <3>3, BalanceOfRequeue
  <2>7. UnpublishedBefore'
    BY <1>1, <2>1, <2>5 DEF UnpublishedBefore
  <2> QED BY <2>6, <2>7 DEF ReceiptsKept
<1>8. ASSUME NEW w \in Request, FailRequest(w) PROVE ReceiptsKept'
  <2>1. CASE UNCHANGED topic
    BY <1>2, <1>8, <2>1 DEF FailRequest, Fault
  <2>2. CASE request[w].pc = "publish" /\ topic' = [topic EXCEPT ![w] = "queued"]
    BY <1>3, <1>8, <2>2 DEF FailRequest, Fault
  <2> QED BY <1>8, <2>1, <2>2 DEF FailRequest
<1>9. ASSUME NEW w \in Request, PublishDecision(w) PROVE ReceiptsKept'
  BY <1>3, <1>9 DEF PublishDecision
<1>10. \/ UNCHANGED <<topic, handler, erp>> /\ faults' \in {faults, faults + 1}
       \/ \E w \in Request : PublishDecision(w) \/ FailRequest(w)
       \/ \E h \in Handler, w \in Request : ReceiveDecision(h, w)
       \/ \E h \in Handler : \/ PostInventory(h) \/ WriteOutcome(h) \/ SettleDecision(h)
                              \/ FailHandler(h) \/ ExpireLock(h)
  BY DEF Next, vars, Tick, OpenReview, TrackInitial, BeginCancel, EndCancel, Decide, Timer,
         StartCycle, SendNotice, TrackNotice, WebForm, SaveDecision, Callback, Failures,
         FailCycle, Fault
<1> QED BY <1>2, <1>4, <1>5, <1>6, <1>7, <1>8, <1>9, <1>10

\* Every receipt in Business Central is accounted for by an approving decision
\* that was published, or by a fault that made one be delivered again: however
\* many callbacks run at a time, none posts a decision that another has.
THEOREM HitlReceiptsAccountedFor == Spec => []ReceiptsAccountedFor
<1>1. Init => Shape /\ ReceiptsKept
  BY ShapeInit, ReceiptsInit
<1>2. (Shape /\ ReceiptsKept) /\ [Next]_vars => (Shape /\ ReceiptsKept)'
  BY ShapeStep, ReceiptsStep
<1>3. Shape /\ ReceiptsKept => ReceiptsAccountedFor
  <2> SUFFICES ASSUME Shape, ReceiptsKept, NEW a \in Albaran
               PROVE  erp[a] <= faults + Cardinality(Published(a))
    BY DEF ReceiptsAccountedFor, Published
  <2>1. /\ IsFiniteSet(Published(a)) /\ IsFiniteSet(Waiting(a)) /\ IsFiniteSet(Posting(a))
        /\ erp[a] + Cardinality(Waiting(a)) + Cardinality(Posting(a))
             <= faults + Cardinality(Published(a))
    BY FS_Subset DEF ReceiptsKept, Balance, Waiting
  <2>2. /\ Cardinality(Published(a)) \in Nat /\ Cardinality(Waiting(a)) \in Nat
        /\ Cardinality(Posting(a)) \in Nat
    BY <2>1, FS_CardinalityType
  <2>3. erp[a] \in Nat /\ faults \in Nat
    BY DEF Shape, TypeOK
  <2> QED BY <2>1, <2>2, <2>3
<1> QED BY <1>1, <1>2, <1>3, PTL DEF Spec
=============================================================================
