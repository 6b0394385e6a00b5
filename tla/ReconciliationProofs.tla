------------------------ MODULE ReconciliationProofs ------------------------
(***************************************************************************)
(* The daily job for any documents, totals, days and faults: its types, no *)
(* false alarm about a completed document, every decision in some listing, *)
(* and a report for every day.  A document is followed by Story, which     *)
(* says what its record, its receipt and the decision under way have to do *)
(* with each other; a run by what it has listed and how late it started.   *)
(***************************************************************************)
EXTENDS Reconciliation, FiniteSetTheorems, TLAPS

TotalLists == {<<>>} \cup {<<None, total>> : total \in Amount} \cup {<<total>> : total \in Amount}
Stamp == Nat \cup {None}
RecordSet == [status : Statuses, created : Stamp, updated : Stamp, totals : TotalLists]
Decision == [outcome : Outcome \cup {None}, stamp : Nat]

\* What a run has listed may be anything.
JobRecord(K, C, D) ==
  [pc : {"idle", "records", "receipts", "agent", "send"}, attempt : {0, 1, 2}, now : Nat,
   cut : K, cosmos : C, drifts : D]

Typed ==
  /\ clock \in 0..MaxTime /\ next \in Nat /\ reports \in Nat /\ faults \in 0..MaxFaults
  /\ record \in [Doc -> RecordSet]
  /\ receipt \in [Doc -> Receipt \cup {None}]
  /\ deciding \in [Doc -> Decision]
  /\ \E K, C, D : job \in JobRecord(K, C, D)
  /\ listed \subseteq Doc /\ straddled \subseteq Doc

\* A record, its receipt and the decision under way at a time: stamps are not in
\* the future, a decision is about a record that waits for it, and a document
\* that is completed was posted, not before any stamp of its record.
Story(r, p, k, time) ==
  /\ r.created # None => r.created <= time
  /\ r.updated # None => r.updated <= time
  /\ p # None => p.at <= time
  /\ k.stamp <= time
  /\ r.status \in {"absent", "processing"} =>
       r.created = None /\ r.updated = None /\ k = NoDecision
  /\ k # NoDecision =>
       /\ r.status \in {"hitl_pending", "pending"} /\ k.outcome # None
       /\ r.created # None => r.created <= k.stamp
  /\ k.outcome = "completed" => p # None /\ p.at >= k.stamp
  /\ r.status = "completed" =>
       /\ p # None /\ k = NoDecision
       /\ r.created # None => p.at >= r.created
       /\ r.updated # None => p.at >= r.updated

Stories == \A d \in Doc : Story(record[d], receipt[d], deciding[d], clock)

Times ==
  /\ next >= Day /\ job.now <= clock
  /\ job.pc # "idle" => job.now >= Day /\ job.attempt \in {1, 2}
  /\ faults = 0 => clock <= next /\ job.now = next - Day

Completed(d) == record[d].status = "completed"

\* What a run has listed as completed is so, and was stamped in its window.
ListedIsCompleted ==
  job.pc = "receipts" =>
    \A n \in DOMAIN job.cosmos : job.cosmos[n].status = "completed" =>
      \E d \in Doc : CosmosName(d) = n /\ Completed(d) /\ InWindow(d)

Missing(drift) == drift.type = "missing_in_bc" /\ drift.status = "completed"

AlarmIsTrue(drift) ==
  \E d \in Doc : CosmosName(d) = drift.albaran /\ Completed(d) /\ receipt[d] # None /\ d \notin Posted

DriftTypes == \A drift \in job.drifts : drift.type \in Type /\ drift.action \in Action

AlarmsAreTrue == \A drift \in job.drifts : Missing(drift) => job.cut \/ AlarmIsTrue(drift)

Runs == next \div Day - 1

Counted ==
  /\ ReportRecipients = <<>> => reports = 0
  /\ job.pc = "idle" => reports <= Runs + faults
  /\ job.pc # "idle" => Runs >= 1 /\ reports <= Runs - 1 + faults
  /\ ReportRecipients # <<>> =>
       /\ job.pc = "idle" => 2 * (Runs - reports) <= faults
       /\ job.pc # "idle" => 2 * (Runs - 1 - reports) <= faults
       /\ job.pc # "idle" /\ job.attempt = 2 => 2 * (Runs - 1 - reports) + 1 <= faults

\* The two sides name each document alike.
NamesAgree == \A d \in Doc : CosmosName(d) = ReceiptName(d)

USE ReconciliationAssumption

-----------------------------------------------------------------------------
(* Arithmetic.                                                             *)

LEMMA DayLater == \A t \in Nat : (t + Day) \div Day = t \div Day + 1
  BY SMTT(30)

LEMMA DaysInOrder == \A t, u \in Nat : t >= u => t \div Day >= u \div Day
  BY SMTT(30)

LEMMA DayNumbers == \A t \in Nat : t \div Day \in Nat
  BY SMTT(30)

LEMMA Halves == \A n \in Nat : n \div 2 \in Nat /\ n <= 2 * (n \div 2) + 1
  BY SMTT(30)

-----------------------------------------------------------------------------
(* The life of a document.                                                 *)

LEMMA Initially == Init => Typed /\ Stories /\ Times
<1> SUFFICES ASSUME Init PROVE Typed /\ Stories /\ Times
  OBVIOUS
<1>1. NoRecord \in RecordSet /\ NoDecision \in Decision
  BY DEF NoRecord, RecordSet, Statuses, TotalLists, Stamp, NoDecision, Decision
<1>2. \A C, D : <<>> \in C /\ {} \in D => Idle \in JobRecord({FALSE}, C, D)
  BY DEF Idle, JobRecord
<1>3. \E K, C, D : job \in JobRecord(K, C, D)
  <2>1. Idle \in JobRecord({FALSE}, {<<>>}, {{}})
    BY <1>2
  <2> QED
    BY <2>1 DEF Init
<1>4. Typed
  <2>1. record \in [Doc -> RecordSet] /\ deciding \in [Doc -> Decision]
    BY <1>1 DEF Init
  <2>2. receipt \in [Doc -> Receipt \cup {None}]
    BY DEF Init
  <2>3. /\ clock \in 0..MaxTime /\ next \in Nat /\ reports \in Nat /\ faults \in 0..MaxFaults
        /\ listed \subseteq Doc /\ straddled \subseteq Doc
    BY DEF Init
  <2> QED
    BY <1>3, <2>1, <2>2, <2>3 DEF Typed
<1>5. Stories
  BY DEF Init, Stories, Story, NoRecord, NoDecision, Outcome
<1>6. Times
  BY DEF Init, Times, Idle
<1> QED
  BY <1>4, <1>5, <1>6

\* What a step of a document does: to the document, to the others, to what runs remember.
DocumentStep(d) ==
  /\ record' \in [Doc -> RecordSet] /\ receipt' \in [Doc -> Receipt \cup {None}]
  /\ deciding' \in [Doc -> Decision]
  /\ \A e \in Doc \ {d} :
       record'[e] = record[e] /\ receipt'[e] = receipt[e] /\ deciding'[e] = deciding[e]
  /\ Story(record'[d], receipt'[d], deciding'[d], clock)
  /\ Completed(d) =>
       /\ record'[d] = record[d]
       /\ receipt'[d] = receipt[d] \/ (receipt'[d] # None /\ ~receipt'[d].kept)
  /\ UNCHANGED <<clock, next, job, reports, faults>>
  /\ listed' \subseteq Doc /\ straddled' \subseteq Doc
  /\ \A e \in Doc \ {d} : (e \in listed' <=> e \in listed) /\ (e \in straddled' <=> e \in straddled)
  /\ \/ record'[d].updated = None
     \/ record'[d].updated = record[d].updated /\ listed' = listed /\ straddled' = straddled
     \/ record'[d].updated >= job.now
     \/ d \in straddled'

\* Replacing fields of records, receipts and decisions.
LEMMA StatusSet ==
  ASSUME NEW r \in RecordSet, NEW status \in Statuses
  PROVE  LET s == [r EXCEPT !.status = status]
         IN  s \in RecordSet /\ s.status = status /\ s.created = r.created /\ s.updated = r.updated
  BY DEF RecordSet

LEMMA DecisionFields ==
  ASSUME NEW k \in Decision, NEW outcome \in Outcome
  PROVE  LET s == [k EXCEPT !.outcome = outcome]
         IN  s \in Decision /\ s.outcome = outcome /\ s.stamp = k.stamp /\ s # NoDecision
  BY DEF Decision, NoDecision

LEMMA ReceiptFields ==
  ASSUME NEW p \in Receipt
  PROVE  LET s == [p EXCEPT !.kept = FALSE]
         IN  s \in Receipt /\ s.at = p.at /\ ~s.kept /\ s # None
<1>1. [p EXCEPT !.kept = FALSE] \in Receipt
  BY DEF Receipt
<1>2. [p EXCEPT !.kept = FALSE] # None
  BY <1>1
<1> QED
  BY <1>1, <1>2 DEF Receipt

\* Posting makes a receipt of now.
LEMMA Posting ==
  ASSUME Typed, NEW d \in Doc, Post(d)
  PROVE  /\ receipt' \in [Doc -> Receipt \cup {None}]
         /\ \A e \in Doc \ {d} : receipt'[e] = receipt[e]
         /\ receipt'[d] # None /\ receipt'[d].at = clock
<1>1. PICK total \in Amount : receipt' = [receipt EXCEPT ![d] = [at |-> clock, total |-> total, kept |-> TRUE]]
  BY DEF Post
<1>2. [at |-> clock, total |-> total, kept |-> TRUE] \in Receipt
  BY DEF Receipt, Typed
<1>3. receipt \in [Doc -> Receipt \cup {None}]
  BY DEF Typed
<1> QED
  BY <1>1, <1>2, <1>3

LEMMA Upserting ==
  ASSUME Typed, NEW d \in Doc, NEW r \in RecordSet, Upsert(d, r)
  PROVE  /\ record' \in [Doc -> RecordSet] /\ record'[d] = r
         /\ \A e \in Doc \ {d} : record'[e] = record[e]
  BY DEF Upsert, Typed

LEMMA OrchestratorSteps ==
  ASSUME Typed, Stories, Times, NEW d \in Doc, Process(d) \/ PostDirectly(d) \/ WriteResult(d)
  PROVE  DocumentStep(d)
<1>0. /\ clock \in Nat /\ record[d] \in RecordSet /\ Story(record[d], receipt[d], deciding[d], clock)
      /\ receipt \in [Doc -> Receipt \cup {None}] /\ deciding \in [Doc -> Decision]
      /\ record \in [Doc -> RecordSet] /\ listed \subseteq Doc /\ straddled \subseteq Doc
  BY DEF Typed, Stories
<1>1. CASE Process(d)
  <2>1. PICK total \in Amount : Upsert(d, OrchestratorRecord("processing", total))
    BY <1>1 DEF Process
  <2>2. PICK r : r = OrchestratorRecord("processing", total)
    OBVIOUS
  <2>3. r \in RecordSet /\ r.status = "processing" /\ r.created = None /\ r.updated = None
    BY <2>2 DEF OrchestratorRecord, RecordSet, Statuses, Stamp, TotalLists
  <2>4. /\ record' \in [Doc -> RecordSet] /\ record'[d] = r
        /\ \A e \in Doc \ {d} : record'[e] = record[e]
    BY <2>1, <2>2, <2>3, Upserting
  <2>5. record[d].status = "absent"
        /\ UNCHANGED <<clock, receipt, deciding, next, job, reports, listed, straddled, faults>>
    BY <1>1 DEF Process
  <2>6. Story(r, receipt[d], deciding[d], clock)
    BY <1>0, <2>3, <2>5 DEF Story
  <2> QED
    BY <1>0, <2>3, <2>4, <2>5, <2>6 DEF DocumentStep, Completed
<1>2. CASE PostDirectly(d)
  <2>1. /\ receipt' \in [Doc -> Receipt \cup {None}] /\ receipt'[d] # None /\ receipt'[d].at = clock
        /\ \A e \in Doc \ {d} : receipt'[e] = receipt[e]
    BY <1>2, Posting DEF PostDirectly
  <2>2. record[d].status = "processing"
        /\ UNCHANGED <<clock, record, deciding, next, job, reports, listed, straddled, faults>>
    BY <1>2 DEF PostDirectly
  <2>3. Story(record[d], receipt'[d], deciding[d], clock)
    <3>1. deciding[d] = NoDecision /\ record[d].created = None /\ record[d].updated = None
      BY <1>0, <2>2 DEF Story
    <3>2. deciding[d].outcome # "completed" /\ deciding[d].stamp <= clock
      BY <1>0, <3>1 DEF NoDecision, Outcome
    <3> QED
      BY <1>0, <2>1, <2>2, <3>1, <3>2 DEF Story
  <2> QED
    BY <1>0, <2>1, <2>2, <2>3 DEF DocumentStep, Completed
<1>3. CASE WriteResult(d)
  <2>1. PICK status \in {"failed", "completed", "hitl_pending"} :
          /\ Upsert(d, [record[d] EXCEPT !.status = status])
          /\ status = "completed" => d \in Posted
    BY <1>3 DEF WriteResult
  <2>2. PICK old \in RecordSet : old = record[d]
    BY <1>0
  <2> DEFINE r == [old EXCEPT !.status = status]
  <2>3. /\ r \in RecordSet /\ r.status = status /\ r.created = record[d].created
        /\ r.updated = record[d].updated
    <3>1. status \in Statuses
      BY DEF Statuses
    <3> QED
      BY <2>2, <3>1, StatusSet
  <2> HIDE DEF r
  <2>7. Upsert(d, r)
    BY <2>1, <2>2 DEF r
  <2>4. /\ record' \in [Doc -> RecordSet] /\ record'[d] = r
        /\ \A e \in Doc \ {d} : record'[e] = record[e]
    BY <2>3, <2>7, Upserting
  <2>5. record[d].status = "processing"
        /\ UNCHANGED <<clock, receipt, deciding, next, job, reports, listed, straddled, faults>>
    BY <1>3 DEF WriteResult
  <2>6. Story(r, receipt[d], deciding[d], clock)
    BY <1>0, <2>1, <2>3, <2>5 DEF Story, Posted
  <2> QED
    BY <1>0, <2>3, <2>4, <2>5, <2>6 DEF DocumentStep, Completed
<1> QED
  BY <1>1, <1>2, <1>3

LEMMA ReviewSteps ==
  ASSUME Typed, Stories, Times, NEW d \in Doc, OpenReview(d) \/ Cancel(d) \/ TakeBack(d)
  PROVE  DocumentStep(d)
<1>0. /\ clock \in Nat /\ record[d] \in RecordSet /\ Story(record[d], receipt[d], deciding[d], clock)
      /\ receipt \in [Doc -> Receipt \cup {None}] /\ deciding \in [Doc -> Decision]
      /\ record \in [Doc -> RecordSet] /\ listed \subseteq Doc /\ straddled \subseteq Doc
      /\ job.now <= clock
  BY DEF Typed, Stories, Times
<1>1. CASE OpenReview(d)
  <2>1. PICK total \in Amount :
          Upsert(d, [status |-> "pending", created |-> clock, updated |-> None, totals |-> <<total>>])
    BY <1>1 DEF OpenReview
  <2>2. PICK r : r = [status |-> "pending", created |-> clock, updated |-> None, totals |-> <<total>>]
    OBVIOUS
  <2>3. r \in RecordSet /\ r.status = "pending" /\ r.created = clock /\ r.updated = None
    BY <1>0, <2>2 DEF RecordSet, Statuses, Stamp, TotalLists
  <2>4. /\ record' \in [Doc -> RecordSet] /\ record'[d] = r
        /\ \A e \in Doc \ {d} : record'[e] = record[e]
    BY <2>1, <2>2, <2>3, Upserting
  <2>5. record[d].status = "hitl_pending" /\ deciding[d] = NoDecision
        /\ UNCHANGED <<clock, receipt, deciding, next, job, reports, listed, straddled, faults>>
    BY <1>1 DEF OpenReview
  <2>6. Story(r, receipt[d], deciding[d], clock)
    BY <1>0, <2>3, <2>5 DEF Story
  <2> QED
    BY <1>0, <2>3, <2>4, <2>5, <2>6 DEF DocumentStep, Completed
<1>2. CASE Cancel(d)
  <2>1. PICK old \in RecordSet : old = record[d]
    BY <1>0
  <2> DEFINE r == [old EXCEPT !.status = "cancelled", !.updated = clock]
  <2>2. r \in RecordSet /\ r.status = "cancelled" /\ r.created = record[d].created /\ r.updated = clock
    <3>1. "cancelled" \in Statuses
      BY DEF Statuses
    <3> QED
      BY <1>0, <2>1, <3>1 DEF RecordSet, Stamp
  <2>3. /\ record[d].status \in {"hitl_pending", "pending"} /\ deciding[d] = NoDecision
        /\ Upsert(d, r) /\ listed' = listed \ {d} /\ straddled' = straddled \ {d}
        /\ UNCHANGED <<clock, receipt, deciding, next, job, reports, faults>>
    BY <1>2, <2>1 DEF Cancel
  <2> HIDE DEF r
  <2>4. /\ record' \in [Doc -> RecordSet] /\ record'[d] = r
        /\ \A e \in Doc \ {d} : record'[e] = record[e]
    BY <2>2, <2>3, Upserting
  <2>5. Story(r, receipt[d], deciding[d], clock)
    BY <1>0, <2>2, <2>3 DEF Story
  <2> QED
    BY <1>0, <2>2, <2>3, <2>4, <2>5 DEF DocumentStep, Completed
<1>3. CASE TakeBack(d)
  <2>1. PICK p \in Receipt : p = receipt[d]
    BY <1>0, <1>3 DEF TakeBack, Posted
  <2>2. PICK q : q = [p EXCEPT !.kept = FALSE]
    OBVIOUS
  <2>3. q \in Receipt /\ q.at = p.at /\ ~q.kept /\ q # None
    BY <2>2, ReceiptFields
  <2>4. receipt' = [receipt EXCEPT ![d] = q]
        /\ UNCHANGED <<clock, record, deciding, next, job, reports, listed, straddled, faults>>
    BY <1>3, <2>1, <2>2 DEF TakeBack
  <2>5. /\ receipt' \in [Doc -> Receipt \cup {None}] /\ receipt'[d] = q
        /\ \A e \in Doc \ {d} : receipt'[e] = receipt[e]
    BY <1>0, <2>3, <2>4
  <2>6. Story(record[d], q, deciding[d], clock)
    BY <1>0, <2>1, <2>3 DEF Story
  <2> QED
    BY <1>0, <2>3, <2>4, <2>5, <2>6 DEF DocumentStep, Completed
<1> QED
  BY <1>1, <1>2, <1>3

LEMMA DecisionSteps ==
  ASSUME Typed, Stories, Times, NEW d \in Doc,
         BeginDecision(d) \/ PostApproved(d) \/ WriteDecision(d)
  PROVE  DocumentStep(d)
<1>0. /\ clock \in Nat /\ record[d] \in RecordSet /\ Story(record[d], receipt[d], deciding[d], clock)
      /\ receipt \in [Doc -> Receipt \cup {None}] /\ deciding \in [Doc -> Decision]
      /\ record \in [Doc -> RecordSet] /\ listed \subseteq Doc /\ straddled \subseteq Doc
      /\ deciding[d] \in Decision /\ deciding[d].stamp \in Nat
  BY DEF Typed, Stories, Decision
<1>1. CASE BeginDecision(d)
  <2>1. PICK verdict \in {"approve", "rejected"} :
          deciding' = [deciding EXCEPT ![d] = [outcome |-> verdict, stamp |-> clock]]
    BY <1>1 DEF BeginDecision
  <2>2. PICK k : k = [outcome |-> verdict, stamp |-> clock]
    OBVIOUS
  <2>3. k \in Decision /\ k.outcome = verdict /\ k.stamp = clock /\ k.outcome # None
    BY <1>0, <2>2 DEF Decision, Outcome
  <2>4. deciding' \in [Doc -> Decision] /\ deciding'[d] = k
        /\ \A e \in Doc \ {d} : deciding'[e] = deciding[e]
    BY <1>0, <2>1, <2>2, <2>3
  <2>5. record[d].status \in {"hitl_pending", "pending"}
        /\ UNCHANGED <<clock, record, receipt, next, job, reports, listed, straddled, faults>>
    BY <1>1 DEF BeginDecision
  <2>6. Story(record[d], receipt[d], k, clock)
    BY <1>0, <2>3, <2>5 DEF Story
  <2> QED
    BY <1>0, <2>4, <2>5, <2>6 DEF DocumentStep, Completed
<1>2. CASE PostApproved(d)
  <2>1. /\ deciding[d].outcome = "approve" /\ deciding[d] # NoDecision
        /\ UNCHANGED <<clock, record, next, job, reports, listed, straddled, faults>>
    BY <1>2 DEF PostApproved, NoDecision, Outcome
  <2>2. record[d].status \in {"hitl_pending", "pending"}
    BY <1>0, <2>1 DEF Story
  <2>3. ASSUME NEW outcome \in {"completed", "hitl_pending"},
               deciding' = [deciding EXCEPT ![d].outcome = outcome],
               receipt' \in [Doc -> Receipt \cup {None}],
               \A e \in Doc \ {d} : receipt'[e] = receipt[e],
               \/ outcome = "completed" /\ receipt'[d] # None /\ receipt'[d].at = clock
               \/ outcome = "hitl_pending" /\ receipt'[d] = receipt[d]
        PROVE  DocumentStep(d)
    <3>1. PICK old \in Decision : old = deciding[d]
      BY <1>0
    <3> DEFINE k == [old EXCEPT !.outcome = outcome]
    <3>2. k \in Decision /\ k.outcome = outcome /\ k.stamp = deciding[d].stamp /\ k.outcome # None
      BY <3>1, DecisionFields DEF Outcome
    <3>5. deciding' = [deciding EXCEPT ![d] = k]
      BY <1>0, <2>3, <3>1
    <3> HIDE DEF k
    <3>3. deciding' \in [Doc -> Decision] /\ deciding'[d] = k
          /\ \A e \in Doc \ {d} : deciding'[e] = deciding[e]
      BY <1>0, <3>2, <3>5
    <3>4. Story(record[d], receipt'[d], k, clock)
      BY <1>0, <2>1, <2>2, <2>3, <3>2 DEF Story
    <3> QED
      BY <1>0, <2>1, <2>2, <2>3, <3>3, <3>4 DEF DocumentStep, Completed
  <2>4. CASE Post(d) /\ deciding' = [deciding EXCEPT ![d].outcome = "completed"]
    BY <2>3, <2>4, Posting
  <2>5. CASE UNCHANGED receipt /\ deciding' = [deciding EXCEPT ![d].outcome = "hitl_pending"]
    BY <1>0, <2>3, <2>5
  <2> QED
    BY <1>2, <2>4, <2>5 DEF PostApproved
<1>3. CASE WriteDecision(d)
  <2>1. PICK k \in Decision : k = deciding[d]
    BY <1>0
  <2>2. /\ k.outcome \in {"completed", "hitl_pending", "rejected"} /\ k # NoDecision
        /\ UNCHANGED <<clock, receipt, next, job, reports, faults>>
        /\ deciding' = [deciding EXCEPT ![d] = NoDecision]
        /\ Upsert(d, [record[d] EXCEPT !.status = k.outcome, !.updated = k.stamp])
        /\ listed' = listed \ {d}
        /\ straddled' = IF k.stamp < job.now THEN straddled \cup {d} ELSE straddled \ {d}
    BY <1>3, <2>1 DEF WriteDecision, NoDecision, Outcome
  <2>3. PICK old \in RecordSet : old = record[d]
    BY <1>0
  <2> DEFINE r == [old EXCEPT !.status = k.outcome, !.updated = k.stamp]
  <2>4. r \in RecordSet /\ r.status = k.outcome /\ r.created = record[d].created /\ r.updated = k.stamp
    <3>1. k.outcome \in Statuses /\ k.stamp \in Nat
      BY <1>0, <2>1, <2>2 DEF Statuses
    <3> QED
      BY <2>3, <3>1 DEF RecordSet, Stamp
  <2>11. Upsert(d, r)
    BY <2>2, <2>3
  <2> HIDE DEF r
  <2>5. /\ record' \in [Doc -> RecordSet] /\ record'[d] = r
        /\ \A e \in Doc \ {d} : record'[e] = record[e]
    BY <2>4, <2>11, Upserting
  <2>6. NoDecision \in Decision /\ NoDecision.stamp = 0 /\ NoDecision.outcome = None
    BY DEF NoDecision, Decision
  <2>7. deciding' \in [Doc -> Decision] /\ deciding'[d] = NoDecision
        /\ \A e \in Doc \ {d} : deciding'[e] = deciding[e]
    BY <1>0, <2>2, <2>6
  <2>8. Story(r, receipt[d], NoDecision, clock)
    <3>1. k.outcome = "completed" => receipt[d] # None /\ receipt[d].at >= k.stamp
      BY <1>0, <2>1 DEF Story
    <3>2. /\ record[d].created # None => record[d].created \in Nat /\ record[d].created <= k.stamp
          /\ receipt[d] # None => receipt[d].at \in Nat /\ receipt[d].at <= clock
          /\ k.stamp \in Nat /\ k.stamp <= clock
      BY <1>0, <2>1, <2>2 DEF Story, RecordSet, Stamp, Receipt
    <3> QED
      BY <1>0, <2>2, <2>4, <2>6, <3>1, <3>2 DEF Story, Outcome
  <2>9. record[d].status # "completed"
    BY <1>0, <2>1, <2>2 DEF Story
  <2>10. k.stamp >= job.now \/ d \in straddled'
    BY <1>0, <2>1, <2>2 DEF Typed, JobRecord
  <2> QED
    BY <1>0, <2>2, <2>4, <2>5, <2>7, <2>8, <2>9, <2>10 DEF DocumentStep, Completed
<1> QED
  BY <1>1, <1>2, <1>3

LEMMA Documents ==
  ASSUME Typed, Stories, Times, NEW d \in Doc, Document(d)
  PROVE  DocumentStep(d)
  BY OrchestratorSteps, ReviewSteps, DecisionSteps DEF Document

-----------------------------------------------------------------------------
(* The clock and the job.                                                  *)

Basic == Typed /\ Stories /\ Times

\* Documents wait while time passes.
LEMMA StoriesLast ==
  ASSUME Typed, Stories, UNCHANGED documents, clock' \in Nat, clock' >= clock
  PROVE  Stories'
<1> SUFFICES ASSUME NEW d \in Doc
             PROVE  Story(record[d], receipt[d], deciding[d], clock')
  BY DEF Stories, documents
<1>1. /\ record[d] \in RecordSet /\ receipt[d] \in Receipt \cup {None} /\ deciding[d] \in Decision
      /\ Story(record[d], receipt[d], deciding[d], clock) /\ clock \in Nat
  BY DEF Typed, Stories
<1>2. /\ record[d].created # None => record[d].created \in Nat
      /\ record[d].updated # None => record[d].updated \in Nat
      /\ receipt[d] # None => receipt[d].at \in Nat
      /\ deciding[d].stamp \in Nat
  BY <1>1 DEF RecordSet, Stamp, Receipt, Decision
<1> QED
  BY <1>1, <1>2 DEF Story

\* What the run under way is when a step begins.
LEMMA JobFields ==
  ASSUME Typed
  PROVE  \E K, C, D :
           /\ job \in JobRecord(K, C, D) /\ job.now \in Nat
           /\ job.cut \in K /\ job.cosmos \in C /\ job.drifts \in D
  BY DEF Typed, JobRecord

\* A new run, and a run that has ended.
LEMMA NewJob ==
  ASSUME NEW place \in {"idle", "records"}, NEW n \in {0, 1, 2}, NEW time \in Nat
  PROVE  LET j == [Idle EXCEPT !.pc = place, !.attempt = n, !.now = time]
         IN  /\ \A K, C, D : FALSE \in K /\ <<>> \in C /\ {} \in D => j \in JobRecord(K, C, D)
             /\ j.pc = place /\ j.attempt = n /\ j.now = time /\ j.drifts = {}
  BY DEF Idle, JobRecord

LEMMA EndedJob ==
  ASSUME NEW time \in Nat
  PROVE  LET j == [Idle EXCEPT !.now = time]
         IN  /\ \A K, C, D : FALSE \in K /\ <<>> \in C /\ {} \in D => j \in JobRecord(K, C, D)
             /\ j.pc = "idle" /\ j.now = time /\ j.drifts = {}
  BY DEF Idle, JobRecord

LEMMA RunEnds ==
  ASSUME Typed, EndRun
  PROVE  /\ \E K, C, D : job' \in JobRecord(K, C, D)
         /\ job'.pc = "idle" /\ job'.now = job.now /\ job'.drifts = {}
<1>1. job.now \in Nat
  BY JobFields
<1> DEFINE j == [Idle EXCEPT !.now = job.now]
<1>2. /\ \A K, C, D : FALSE \in K /\ <<>> \in C /\ {} \in D => j \in JobRecord(K, C, D)
      /\ j.pc = "idle" /\ j.now = job.now /\ j.drifts = {}
  BY <1>1, EndedJob
<1>3. job' = j
  BY DEF EndRun
<1> HIDE DEF j
<1>4. j \in JobRecord({FALSE}, {<<>>}, {{}})
  BY <1>2
<1> QED
  BY <1>2, <1>3, <1>4

\* The next stage of a run.
SameRun(j, k) == j.now = k.now /\ j.attempt = k.attempt

\* What a listing of Cosmos says of each name is of a document with that name.
IsListing(cosmos, S) ==
  \A n \in DOMAIN cosmos : \E d \in S : CosmosName(d) = n /\ cosmos[n] = CosmosSide(d)

LEMMA KeyedRecord ==
  ASSUME NEW S, NEW cosmos \in Keyed(S, CosmosName, CosmosSide)
  PROVE  IsListing(cosmos, S)
<1>1. PICK choice \in {c \in [{CosmosName(d) : d \in S} -> S] : \A m \in DOMAIN c : CosmosName(c[m]) = m} :
        cosmos = [m \in DOMAIN choice |-> CosmosSide(choice[m])]
  BY Zenon DEF Keyed
<1>2. \A n \in DOMAIN cosmos :
        n \in {CosmosName(d) : d \in S} /\ CosmosName(choice[n]) = n /\ cosmos[n] = CosmosSide(choice[n])
  BY <1>1
<1> QED
  BY <1>1, <1>2 DEF IsListing

LEMMA RecordsAreListed ==
  ASSUME Typed, ListRecords
  PROVE  /\ job.pc = "records" /\ job'.pc = "receipts" /\ SameRun(job', job)
         /\ \E K, C, D : job' \in JobRecord(K, C, D)
         /\ job'.drifts = job.drifts /\ job'.cut = job.cut
         /\ \E S \in SUBSET {d \in Doc : InWindow(d)} :
              /\ S = {d \in Doc : InWindow(d)} \/ Cardinality(S) = Batch
              /\ listed' = listed \cup S
              /\ IsListing(job'.cosmos, S)
<1>1. PICK K, C, D : job \in JobRecord(K, C, D)
  BY JobFields
<1>2. PICK S \in SUBSET {d \in Doc : InWindow(d)} :
        /\ S = {d \in Doc : InWindow(d)} \/ Cardinality(S) = Batch
        /\ listed' = listed \cup S
        /\ \E cosmos \in Keyed(S, CosmosName, CosmosSide) :
             job' = [job EXCEPT !.pc = "receipts", !.cosmos = cosmos]
  BY DEF ListRecords
<1>3. PICK cosmos \in Keyed(S, CosmosName, CosmosSide) :
        job' = [job EXCEPT !.pc = "receipts", !.cosmos = cosmos]
  BY <1>2
<1>4. PICK old \in JobRecord(K, C, D) : old = job
  BY <1>1
<1> DEFINE j == [old EXCEPT !.pc = "receipts", !.cosmos = cosmos]
<1>5. /\ j \in JobRecord(K, {cosmos}, D) /\ j.pc = "receipts" /\ j.now = old.now
      /\ j.attempt = old.attempt /\ j.drifts = old.drifts /\ j.cut = old.cut /\ j.cosmos = cosmos
  BY DEF JobRecord
<1>6. job' = j
  BY <1>3, <1>4
<1> HIDE DEF j
<1>7. job.pc = "records"
  BY DEF ListRecords
<1>8. IsListing(cosmos, S)
  BY KeyedRecord
<1> QED
  BY <1>2, <1>4, <1>5, <1>6, <1>7, <1>8 DEF SameRun

LEMMA ReceiptsAreListed ==
  ASSUME Typed, ListReceipts
  PROVE  /\ job.pc = "receipts" /\ job'.pc = "agent" /\ SameRun(job', job)
         /\ \E K, C, D : job' \in JobRecord(K, C, D)
         /\ faults' = faults \/ Fault
         /\ \E S : \E bc \in Keyed({d \in S : IsRecent(d)}, ReceiptName, ReceiptSide) :
              /\ job'.cut = (S # Posted)
              /\ job'.drifts = CandidateDrifts(job.cosmos, bc)
<1>1. PICK K, C, D : job \in JobRecord(K, C, D)
  BY JobFields
<1>2. PICK receipts : UseReceipts(receipts)
  BY DEF ListReceipts
<1>3. PICK S : \E bc \in Keyed({d \in S : IsRecent(d)}, ReceiptName, ReceiptSide) :
        job' = [job EXCEPT !.pc = "agent", !.cut = (S # Posted),
                           !.drifts = CandidateDrifts(job.cosmos, bc)]
  BY <1>2 DEF UseReceipts
<1>4. PICK bc \in Keyed({d \in S : IsRecent(d)}, ReceiptName, ReceiptSide) :
        job' = [job EXCEPT !.pc = "agent", !.cut = (S # Posted),
                           !.drifts = CandidateDrifts(job.cosmos, bc)]
  BY <1>3
<1>5. PICK old \in JobRecord(K, C, D) : old = job
  BY <1>1
<1>6. PICK cut \in BOOLEAN : cut = (S # Posted)
  BY Zenon
<1>7. PICK drifts : drifts = CandidateDrifts(job.cosmos, bc)
  OBVIOUS
<1> DEFINE j == [old EXCEPT !.pc = "agent", !.cut = cut, !.drifts = drifts]
<1>8. /\ j \in JobRecord(BOOLEAN, C, {drifts}) /\ j.pc = "agent" /\ j.now = old.now
      /\ j.attempt = old.attempt /\ j.drifts = drifts
  BY DEF JobRecord
<1>9. j.cut = cut
  BY DEF JobRecord
<1>10. job' = j
  <2>1. job' = [job EXCEPT !.pc = "agent", !.cut = cut, !.drifts = drifts]
    BY <1>4, <1>6, <1>7, Zenon
  <2> QED
    BY <1>5, <2>1, Zenon
<1> HIDE DEF j
<1>11. job.pc = "receipts" /\ (faults' = faults \/ Fault)
  BY Zenon DEF ListReceipts
<1>12. job'.cut = (S # Posted) /\ job'.drifts = CandidateDrifts(job.cosmos, bc)
  BY <1>6, <1>7, <1>8, <1>9, <1>10, Zenon
<1>13. /\ job'.pc = "agent" /\ SameRun(job', job)
       /\ \E M, N, O : job' \in JobRecord(M, N, O)
  BY <1>5, <1>8, <1>10 DEF SameRun
<1> QED
  BY <1>4, <1>11, <1>12, <1>13, Zenon

LEMMA AgentIsAsked ==
  ASSUME Typed, AskAgent
  PROVE  /\ job.pc = "agent" /\ job'.pc = "send" /\ SameRun(job', job)
         /\ \E K, C, D : job' \in JobRecord(K, C, D)
         /\ job'.cut = job.cut /\ job'.drifts \subseteq job.drifts
<1>1. PICK K, C, D : job \in JobRecord(K, C, D)
  BY JobFields
<1>2. PICK answer \in (SUBSET job.drifts) \cup {None} :
        job' = [job EXCEPT !.pc = "send", !.drifts = Edited(answer)]
  BY DEF AskAgent
<1>3. PICK old \in JobRecord(K, C, D) : old = job
  BY <1>1
<1>4. PICK drifts : drifts = Edited(answer)
  OBVIOUS
<1>5. drifts \subseteq job.drifts
  <2>1. CASE answer \in {None, {}}
    BY <1>4, <2>1, Zenon DEF Edited
  <2>2. CASE answer \notin {None, {}}
    <3>1. drifts = answer
      BY <1>4, <2>2, Zenon DEF Edited
    <3>2. answer \in SUBSET job.drifts
      BY <2>2, Zenon
    <3> QED
      BY <3>1, <3>2
  <2> QED
    BY <2>1, <2>2
<1> DEFINE j == [old EXCEPT !.pc = "send", !.drifts = drifts]
<1>6. /\ j \in JobRecord(K, C, {drifts}) /\ j.pc = "send" /\ j.now = old.now
      /\ j.attempt = old.attempt /\ j.drifts = drifts /\ j.cut = old.cut
  BY DEF JobRecord
<1>7. job' = j
  BY <1>2, <1>3, <1>4
<1> HIDE DEF j
<1>8. job.pc = "agent"
  BY Zenon DEF AskAgent
<1> QED
  BY <1>3, <1>5, <1>6, <1>7, <1>8 DEF SameRun

LEMMA RunStarts ==
  ASSUME Typed, StartRun
  PROVE  /\ job.pc = "idle" /\ job'.pc = "records" /\ job'.attempt = 1 /\ job'.now = clock
         /\ \E K, C, D : job' \in JobRecord(K, C, D)
         /\ job'.drifts = {}
<1>1. clock \in Nat
  BY DEF Typed
<1> DEFINE j == [Idle EXCEPT !.pc = "records", !.attempt = 1, !.now = clock]
<1>2. /\ \A K, C, D : FALSE \in K /\ <<>> \in C /\ {} \in D => j \in JobRecord(K, C, D)
      /\ j.pc = "records" /\ j.attempt = 1 /\ j.now = clock /\ j.drifts = {}
  BY <1>1, NewJob
<1>3. job' = j /\ job.pc = "idle"
  BY DEF StartRun
<1> HIDE DEF j
<1>4. j \in JobRecord({FALSE}, {<<>>}, {{}})
  BY <1>2
<1> QED
  BY <1>2, <1>3, <1>4

\* A run that fails is started again once.
LEMMA RunFails ==
  ASSUME Typed, FailRun
  PROVE  /\ job.pc # "idle" /\ Fault
         /\ \E K, C, D : job' \in JobRecord(K, C, D)
         /\ job'.drifts = {}
         /\ IF job.attempt = 1
            THEN job'.pc = "records" /\ job'.attempt = 2 /\ job'.now = clock
            ELSE job'.pc = "idle" /\ job'.now = job.now
<1>1. clock \in Nat
  BY DEF Typed
<1>2. CASE job.attempt = 1
  <2> DEFINE j == [Idle EXCEPT !.pc = "records", !.attempt = 2, !.now = clock]
  <2>1. /\ \A K, C, D : FALSE \in K /\ <<>> \in C /\ {} \in D => j \in JobRecord(K, C, D)
        /\ j.pc = "records" /\ j.attempt = 2 /\ j.now = clock /\ j.drifts = {}
    BY <1>1, NewJob
  <2>2. job' = j /\ job.pc # "idle" /\ Fault
    BY <1>2 DEF FailRun
  <2> HIDE DEF j
  <2>3. j \in JobRecord({FALSE}, {<<>>}, {{}})
    BY <2>1
  <2> QED
    BY <1>2, <2>1, <2>2, <2>3
<1>3. CASE job.attempt # 1
  <2>1. EndRun /\ job.pc # "idle" /\ Fault
    BY <1>3 DEF FailRun
  <2> QED
    BY <1>3, <2>1, RunEnds
<1> QED
  BY <1>2, <1>3

\* One disjunct of Next that is no step of a document.
JobStep == StartRun \/ ListRecords \/ ListReceipts \/ AskAgent \/ SendReport \/ FailRun

LEMMA BasicDocument ==
  ASSUME Basic, NEW d \in Doc, DocumentStep(d)
  PROVE  Basic'
<1>1. Typed'
  BY DEF Basic, Typed, DocumentStep
<1>2. Stories'
  BY DEF Basic, Stories, DocumentStep
<1>3. Times'
  BY DEF Basic, Times, DocumentStep
<1> QED
  BY <1>1, <1>2, <1>3 DEF Basic

LEMMA BasicClock ==
  ASSUME Basic, Tick \/ StartsLate
  PROVE  Basic'
<1>1. /\ UNCHANGED documents /\ UNCHANGED <<next, job, reports, listed, straddled>>
      /\ job.pc = "idle" /\ clock < MaxTime /\ clock' = clock + 1
      /\ \/ clock < next /\ faults' = faults
         \/ Fault
  BY DEF Tick, StartsLate
<1>2. /\ clock \in 0..MaxTime /\ faults \in 0..MaxFaults /\ next \in Nat /\ job.now \in Nat
  BY JobFields DEF Basic, Typed
<1>3. clock' \in 0..MaxTime /\ faults' \in 0..MaxFaults
  BY <1>1, <1>2 DEF Fault
<1>4. Typed'
  BY <1>1, <1>3 DEF Basic, Typed, documents
<1>5. Stories'
  BY <1>1, <1>2, StoriesLast DEF Basic
<1>6. Times'
  BY <1>1, <1>2 DEF Basic, Times, Fault
<1> QED
  BY <1>4, <1>5, <1>6 DEF Basic

\* Reports are counted, and faults are.
LEMMA JobCounters ==
  ASSUME Typed, JobStep
  PROVE  /\ reports' \in Nat /\ faults' \in 0..MaxFaults /\ next' \in Nat
         /\ listed' \subseteq Doc
         /\ UNCHANGED <<clock, documents, straddled>>
         /\ (faults' = faults) \/ Fault
         /\ next' = next \/ StartRun
         /\ ~ListRecords => listed' = listed
<1>1. faults \in 0..MaxFaults /\ reports \in Nat /\ next \in Nat /\ listed \subseteq Doc
  BY DEF Typed
<1>2. CASE StartRun
  BY <1>1, <1>2 DEF StartRun
<1>3. CASE ListRecords
  <2>1. listed' \subseteq Doc
    BY <1>1, <1>3, RecordsAreListed
  <2> QED
    BY <1>1, <1>3, <2>1 DEF ListRecords
<1>4. CASE ListReceipts
  <2>1. UNCHANGED <<clock, documents, next, reports, listed, straddled>>
    BY <1>4 DEF ListReceipts
  <2>2. (faults' = faults) \/ Fault
    BY <1>4, ReceiptsAreListed
  <2> QED
    BY <1>1, <2>1, <2>2 DEF Fault
<1>5. CASE AskAgent
  BY <1>1, <1>5 DEF AskAgent
<1>6. CASE SendReport
  BY <1>1, <1>6 DEF SendReport, Reports
<1>7. CASE FailRun
  <2>1. /\ UNCHANGED <<clock, documents, next, listed, straddled>> /\ Fault
        /\ reports' = reports \/ \E mail : Reports(mail)
    BY <1>1, <1>7, Zenon DEF FailRun
  <2> QED
    BY <1>1, <2>1 DEF Fault, Reports
<1> QED
  BY <1>2, <1>3, <1>4, <1>5, <1>6, <1>7 DEF JobStep

\* What the run under way becomes.
LEMMA JobTyped ==
  ASSUME Typed, JobStep
  PROVE  \E K, C, D : job' \in JobRecord(K, C, D)
<1>1. CASE SendReport
  BY <1>1, RunEnds DEF SendReport
<1> QED
  BY <1>1, RunStarts, RecordsAreListed, ReceiptsAreListed, AgentIsAsked, RunFails DEF JobStep

LEMMA BasicJob ==
  ASSUME Basic, JobStep
  PROVE  Basic'
<1>1. Typed /\ Stories /\ Times
  BY DEF Basic
<1>2. /\ reports' \in Nat /\ faults' \in 0..MaxFaults /\ next' \in Nat
      /\ listed' \subseteq Doc /\ UNCHANGED <<clock, documents, straddled>>
      /\ (faults' = faults) \/ Fault
      /\ next' = next \/ StartRun
  BY <1>1, JobCounters
<1>3. clock \in Nat /\ next \in Nat /\ job.now \in Nat /\ faults \in Nat
  BY <1>1, JobFields DEF Typed
<1>4. Typed'
  BY <1>1, <1>2, JobTyped DEF Typed, documents
<1>5. Stories'
  BY <1>1, <1>2, <1>3, StoriesLast
<1>6. CASE StartRun
  <2>1. next' = next + Day /\ clock >= next /\ faults' = faults
    BY <1>6 DEF StartRun
  <2> QED
    BY <1>1, <1>2, <1>3, <1>4, <1>5, <1>6, <2>1, RunStarts DEF Times, Basic
<1>7. CASE ListRecords
  BY <1>1, <1>2, <1>3, <1>4, <1>5, <1>7, RecordsAreListed DEF Times, Basic, SameRun, ListRecords
<1>8. CASE ListReceipts
  <2>1. /\ job.pc = "receipts" /\ SameRun(job', job) /\ next' = next
        /\ faults' = faults \/ faults' = faults + 1
    BY <1>1, <1>2, <1>8, ReceiptsAreListed DEF ListReceipts, Fault
  <2> QED
    BY <1>1, <1>2, <1>3, <1>4, <1>5, <2>1 DEF Times, Basic, SameRun
<1>9. CASE AskAgent
  BY <1>1, <1>2, <1>3, <1>4, <1>5, <1>9, AgentIsAsked DEF Times, Basic, SameRun, AskAgent
<1>10. CASE SendReport
  BY <1>1, <1>2, <1>3, <1>4, <1>5, <1>10, RunEnds DEF Times, Basic, SendReport
<1>11. CASE FailRun
  <2>1. faults' = faults + 1 /\ next' = next /\ job.pc # "idle"
    BY <1>1, <1>11, RunFails DEF Fault, FailRun
  <2> QED
    BY <1>1, <1>2, <1>3, <1>4, <1>5, <1>11, <2>1, RunFails DEF Times, Basic
<1> QED
  BY <1>6, <1>7, <1>8, <1>9, <1>10, <1>11 DEF JobStep

LEMMA BasicNext ==
  ASSUME Basic, [Next]_vars
  PROVE  Basic'
<1>1. CASE UNCHANGED vars
  BY <1>1 DEF vars, Basic, Typed, Stories, Times
<1>2. CASE \E d \in Doc : Document(d)
  BY <1>2, Documents, BasicDocument DEF Basic
<1> QED
  BY <1>1, <1>2, BasicClock, BasicJob DEF Next, Run, JobStep

\* A document's record, receipt and decision agree, and so do the times of the job.
THEOREM Foundation == Spec => []Basic
<1>1. Init => Basic
  BY Initially DEF Basic
<1>2. Basic /\ [Next]_vars => Basic'
  BY BasicNext
<1> QED
  BY <1>1, <1>2, PTL DEF Spec

-----------------------------------------------------------------------------
(* A report for every day.                                                 *)

LEMMA RunNumbers ==
  ASSUME Typed, Times
  PROVE  Runs \in Int /\ Runs >= 0 /\ (next' = next + Day => Runs' = Runs + 1)
<1>1. next \in Nat /\ next >= Day
  BY DEF Typed, Times
<1>2. \A t \in Nat : t >= Day => t \div Day >= 1
  BY SMTT(30)
<1>3. next \div Day \in Nat /\ next \div Day >= 1
  BY <1>1, <1>2, DayNumbers
<1>4. ASSUME next' = next + Day PROVE Runs' = Runs + 1
  <2>1. next' \div Day = next \div Day + 1
    BY <1>1, <1>4, DayLater, Zenon
  <2>2. PICK q \in Nat : q = next \div Day
    BY <1>3
  <2>3. Runs = q - 1 /\ Runs' = (q + 1) - 1
    BY <2>1, <2>2, Zenon DEF Runs
  <2> QED
    BY <2>2, <2>3
<1> QED
  BY <1>3, <1>4 DEF Runs

\* A mail with an identifier is sent if it is for anybody; one without is not known to be.
LEMMA MailIsSent ==
  ReportRecipients # <<>> /\ ~Send(<<"id">>).failed => Send(<<"id">>).sent
<1> SUFFICES ASSUME ReportRecipients # <<>>, ~Send(<<"id">>).failed
             PROVE  Send(<<"id">>).sent
  OBVIOUS
<1> DEFINE to == NormalizeRecipients(ReportRecipients)
<1>1. PICK sent, failed : /\ sent = (to # <<>>)
                          /\ failed = ~(to # <<>> /\ HasMessageId(<<"id">>))
  BY Zenon
<1>2. Send(<<"id">>) = [sent |-> sent, failed |-> failed]
  BY <1>1, Zenon DEF Send, SendEmail
<1>3. Send(<<"id">>).sent = sent /\ Send(<<"id">>).failed = failed
  BY <1>2
<1> QED
  BY <1>1, <1>3, Zenon

LEMMA NobodyIsMailed ==
  \A ids : ReportRecipients = <<>> => ~Send(ids).sent
  BY DEF Send

LEMMA CountedInitially == Init => Counted
<1> SUFFICES ASSUME Init PROVE Counted
  OBVIOUS
<1>1. Runs = 0
  <2>1. Day \div Day = 1
    BY SMTT(30)
  <2> QED
    BY <2>1 DEF Init, Runs
<1> QED
  BY <1>1 DEF Init, Counted, Idle

LEMMA CountedJob ==
  ASSUME Typed, Times, Counted, JobStep
  PROVE  Counted'
<1>1. reports \in Nat /\ faults \in Nat /\ Runs \in Int /\ Runs >= 0
  BY RunNumbers DEF Typed
<1>2. job.pc # "idle" => job.attempt \in {1, 2}
  BY DEF Times
<1>3. CASE StartRun
  <2>1. next' = next + Day /\ reports' = reports /\ faults' = faults
    BY <1>3 DEF StartRun
  <2> QED
    BY <1>1, <1>3, <2>1, RunNumbers, RunStarts DEF Counted
<1>4. ASSUME ListRecords \/ ListReceipts \/ AskAgent PROVE Counted'
  <2>1. next' = next /\ reports' = reports /\ (faults' = faults \/ faults' = faults + 1)
    BY <1>4, JobCounters, ReceiptsAreListed DEF ListRecords, ListReceipts, AskAgent, Fault
  <2>2. job.pc # "idle" /\ job'.pc # "idle" /\ job'.attempt = job.attempt
    BY <1>4, RecordsAreListed, ReceiptsAreListed, AgentIsAsked DEF SameRun
  <2>3. Runs' = Runs
    BY <2>1 DEF Runs
  <2> QED
    BY <1>1, <2>1, <2>2, <2>3 DEF Counted
<1>5. CASE SendReport
  <2>1. /\ next' = next /\ faults' = faults /\ job.pc # "idle" /\ job'.pc = "idle"
        /\ ~Send(<<"id">>).failed /\ reports' = IF Send(<<"id">>).sent THEN reports + 1 ELSE reports
    BY <1>5, RunEnds DEF SendReport, Reports
  <2>2. Runs' = Runs
    BY <2>1 DEF Runs
  <2>3. ReportRecipients # <<>> => reports' = reports + 1
    BY <2>1, MailIsSent
  <2>4. ReportRecipients = <<>> => reports' = reports
    BY <2>1, NobodyIsMailed
  <2> QED
    BY <1>1, <1>2, <2>1, <2>2, <2>3, <2>4 DEF Counted
<1>6. CASE FailRun
  <2>1. next' = next /\ faults' = faults + 1 /\ job.pc # "idle"
    BY <1>6, RunFails DEF FailRun, Fault
  <2>2. reports' = reports \/ reports' = IF Send(<<"">>).sent THEN reports + 1 ELSE reports
    BY <1>6 DEF FailRun, Reports
  <2>3. Runs' = Runs
    BY <2>1 DEF Runs
  <2>4. reports' = reports \/ (reports' = reports + 1 /\ ReportRecipients # <<>>)
    BY <2>2, NobodyIsMailed
  <2>5. IF job.attempt = 1 THEN job'.pc = "records" /\ job'.attempt = 2 ELSE job'.pc = "idle"
    BY <1>6, RunFails
  <2> QED
    BY <1>1, <1>2, <2>1, <2>3, <2>4, <2>5 DEF Counted
<1> QED
  BY <1>3, <1>4, <1>5, <1>6 DEF JobStep

LEMMA CountedNext ==
  ASSUME Basic, Counted, [Next]_vars
  PROVE  Counted'
<1>1. reports \in Nat /\ faults \in Nat
  BY DEF Basic, Typed
<1>2. ASSUME UNCHANGED <<next, job, reports>>, faults' = faults \/ faults' = faults + 1
      PROVE  Counted'
  BY <1>1, <1>2, RunNumbers DEF Counted, Runs, Basic
<1>3. CASE UNCHANGED vars
  BY <1>2, <1>3 DEF vars
<1>4. CASE \E d \in Doc : Document(d)
  BY <1>2, <1>4, Documents DEF DocumentStep, Basic
<1>5. CASE Tick \/ StartsLate
  BY <1>2, <1>5 DEF Tick, StartsLate, Fault
<1> QED
  BY <1>3, <1>4, <1>5, CountedJob DEF Next, Run, JobStep, Basic

\* Every day has its report, whatever documents do meanwhile: a fault may cost
\* half a report, or cause one more.
THEOREM Reported == Spec => []DailyReport
<1>1. Init => Counted
  BY CountedInitially
<1>2. Basic /\ Counted /\ [Next]_vars => Counted'
  BY CountedNext
<1>3. Basic /\ Counted => DailyReport
  <2> SUFFICES ASSUME Basic, Counted PROVE DailyReport
    OBVIOUS
  <2>1. reports \in Nat /\ faults \in Nat /\ Runs \in Int
    BY RunNumbers DEF Basic, Typed
  <2>2. faults \div 2 \in Nat /\ faults <= 2 * (faults \div 2) + 1
    BY <2>1, Halves
  <2>3. reports <= Runs + faults
    BY <2>1 DEF Counted
  <2>4. job.pc = "idle" /\ ReportRecipients # <<>> => reports >= Runs - faults \div 2
    BY <2>1, <2>2 DEF Counted
  <2> QED
    BY <2>3, <2>4 DEF DailyReport, Counted, Runs
<1> QED
  BY <1>1, <1>2, <1>3, Foundation, PTL DEF Spec

-----------------------------------------------------------------------------
(* Every decision in some listing.                                         *)

Bound == IF job.pc = "records" THEN Since ELSE next - Day

\* What a run has not listed yet of a document.
Waiting(d) == record[d].updated # None /\ d \notin listed \cup straddled

OnTime == faults = 0 /\ Cardinality(Doc) <= Batch

\* A listing with room for all documents has all that are in the window.
LEMMA AllAreListed ==
  ASSUME Typed, Cardinality(Doc) <= Batch, NEW S \in SUBSET {d \in Doc : InWindow(d)},
         S = {d \in Doc : InWindow(d)} \/ Cardinality(S) = Batch
  PROVE  S = {d \in Doc : InWindow(d)}
<1> SUFFICES ASSUME Cardinality(S) = Batch PROVE S = Doc
  OBVIOUS
<1>1. S \subseteq Doc /\ IsFiniteSet(Doc)
  OBVIOUS
<1>2. IsFiniteSet(S) /\ Cardinality(S) <= Cardinality(Doc) /\ (Cardinality(S) = Cardinality(Doc) => S = Doc)
  BY <1>1, FS_Subset
<1>3. Cardinality(S) \in Nat /\ Cardinality(Doc) \in Nat
  BY <1>1, <1>2, FS_CardinalityType
<1> QED
  BY <1>2, <1>3

LEMMA ListedDocument ==
  ASSUME Basic, DecisionsAreListed, NEW d \in Doc, DocumentStep(d)
  PROVE  DecisionsAreListed'
<1> SUFFICES ASSUME OnTime, NEW e \in Doc, Waiting(e)'
             PROVE  record'[e].updated >= Bound
  BY DEF DecisionsAreListed, OnTime, Waiting, Bound, Since, DocumentStep
<1>1. job.now = next - Day /\ job.now \in Nat /\ next \in Nat
  BY JobFields DEF Basic, Times, OnTime, Typed
<1>2. Bound <= job.now /\ Bound \in Int
  BY <1>1 DEF Bound, Since
<1>3. Waiting(e) => record[e].updated >= Bound
  BY DEF DecisionsAreListed, OnTime, Waiting, Bound
<1>4. CASE e # d
  BY <1>3, <1>4 DEF DocumentStep, Waiting
<1>5. CASE e = d
  <2>1. record'[d].updated \in Nat
    BY <1>5 DEF DocumentStep, RecordSet, Stamp, Waiting
  <2>2. CASE record'[d].updated = record[d].updated /\ listed' = listed /\ straddled' = straddled
    BY <1>3, <1>5, <2>2 DEF Waiting
  <2>3. CASE record'[d].updated >= job.now
    BY <1>1, <1>2, <1>5, <2>1, <2>3
  <2> QED
    BY <1>5, <2>2, <2>3 DEF DocumentStep, Waiting
<1> QED
  BY <1>4, <1>5

LEMMA ListedJob ==
  ASSUME Basic, DecisionsAreListed, JobStep
  PROVE  DecisionsAreListed'
<1> SUFFICES ASSUME faults' = 0, Cardinality(Doc) <= Batch, NEW e \in Doc, Waiting(e)'
             PROVE  record'[e].updated >= Bound'
  BY DEF DecisionsAreListed, Waiting, Bound
<1>1. Typed /\ Times
  BY DEF Basic
<1>2. record' = record /\ straddled' = straddled /\ faults' = faults /\ OnTime
      /\ (~ListRecords => listed' = listed) /\ ~FailRun
  BY <1>1, JobCounters, RunFails DEF documents, Fault, OnTime, Typed
<1>3. job.now = next - Day /\ job.now \in Nat /\ next \in Nat /\ clock <= next /\ clock \in Nat
  BY <1>1, <1>2, JobFields DEF Times, OnTime, Typed
<1>4. Waiting(e) => record[e].updated >= Bound
  BY <1>2 DEF DecisionsAreListed, OnTime, Waiting, Bound
<1>5. CASE StartRun
  <2>1. job'.pc = "records" /\ job'.now = clock /\ clock >= next /\ job.pc = "idle"
    BY <1>1, <1>5, RunStarts DEF StartRun
  <2>2. Waiting(e) /\ Bound' = next - Day /\ Bound = next - Day
    BY <1>2, <1>3, <1>5, <2>1 DEF Waiting, Bound, Since, StartRun, ListRecords
  <2> QED
    BY <1>2, <1>4, <2>2
<1>6. CASE ListRecords
  <2>1. PICK S \in SUBSET {d \in Doc : InWindow(d)} :
          /\ S = {d \in Doc : InWindow(d)} \/ Cardinality(S) = Batch
          /\ listed' = listed \cup S
    BY <1>1, <1>6, RecordsAreListed
  <2>2. S = {d \in Doc : InWindow(d)}
    BY <1>1, <2>1, AllAreListed
  <2>3. Waiting(e) /\ ~InWindow(e)
    BY <1>2, <2>1, <2>2 DEF Waiting
  <2>4. job.pc = "records"
    BY <1>6 DEF ListRecords
  <2>5. record[e].updated >= Since
    BY <1>4, <2>3, <2>4 DEF Bound
  <2> QED
    BY <2>3, <2>5 DEF InWindow, Waiting
<1>7. ASSUME ListReceipts \/ AskAgent \/ SendReport PROVE record'[e].updated >= Bound'
  <2>1. job.pc # "records" /\ job'.pc # "records" /\ next' = next /\ listed' = listed
    BY <1>1, <1>7, ReceiptsAreListed, AgentIsAsked, RunEnds DEF SendReport, ListReceipts, AskAgent
  <2> QED
    BY <1>2, <1>4, <2>1 DEF Waiting, Bound
<1> QED
  BY <1>2, <1>5, <1>6, <1>7 DEF JobStep

LEMMA ListedNext ==
  ASSUME Basic, DecisionsAreListed, [Next]_vars
  PROVE  DecisionsAreListed'
<1>1. ASSUME UNCHANGED <<record, next, job, listed, straddled>>, faults' = faults \/ faults' = faults + 1
      PROVE  DecisionsAreListed'
  <2>1. faults \in Nat
    BY DEF Basic, Typed
  <2> QED
    BY <1>1, <2>1 DEF DecisionsAreListed, Since
<1>2. CASE UNCHANGED vars
  BY <1>1, <1>2 DEF vars
<1>3. CASE \E d \in Doc : Document(d)
  BY <1>3, Documents, ListedDocument DEF Basic
<1>4. CASE Tick \/ StartsLate
  BY <1>1, <1>4 DEF Tick, StartsLate, Fault, documents
<1> QED
  BY <1>2, <1>3, <1>4, ListedJob DEF Next, Run, JobStep

\* A decision reaches the listing of a run, at the latest the next one, if runs
\* start on time and do not fail, a query has room for all records, and no run
\* started between the stamp of the decision and its write.
THEOREM Listed == Spec => []DecisionsAreListed
<1>1. Init => DecisionsAreListed
  BY DEF Init, DecisionsAreListed, NoRecord
<1>2. Basic /\ DecisionsAreListed /\ [Next]_vars => DecisionsAreListed'
  BY ListedNext
<1> QED
  BY <1>1, <1>2, Foundation, PTL DEF Spec

-----------------------------------------------------------------------------
(* What the drifts say.                                                    *)

LEMMA DriftIsTyped ==
  ASSUME NEW name, NEW type \in Type, NEW status, NEW difference
  PROVE  LET drift == Drift(name, type, status, difference)
         IN  /\ drift.type = type /\ drift.action \in Action
             /\ drift.albaran = name /\ drift.status = status
<1>1. SuggestedAction(type, status, difference) \in Action
  BY DEF SuggestedAction, Action, Type
<1> QED
  BY <1>1 DEF Drift

LEMMA ComparedIsTyped ==
  ASSUME NEW name, NEW cosmos, NEW bc, NEW drift \in Compared(name, cosmos, bc)
  PROVE  drift.type \in Type \ {"missing_in_bc"} /\ drift.action \in Action
<1>1. \/ \E apart : drift = Drift(name, "amount_mismatch", cosmos.status, apart)
      \/ drift = Drift(name, "status_mismatch", cosmos.status, 0)
  BY Zenon DEF Compared
<1>2. CASE \E apart : drift = Drift(name, "amount_mismatch", cosmos.status, apart)
  <2>1. PICK apart : drift = Drift(name, "amount_mismatch", cosmos.status, apart)
    BY <1>2
  <2> QED
    BY <2>1, DriftIsTyped DEF Type
<1>3. CASE drift = Drift(name, "status_mismatch", cosmos.status, 0)
  BY <1>3, DriftIsTyped DEF Type
<1> QED
  BY <1>1, <1>2, <1>3

LEMMA CandidatesAreTyped ==
  ASSUME NEW cosmos, NEW bc, NEW drift \in CandidateDrifts(cosmos, bc)
  PROVE  /\ drift.type \in Type /\ drift.action \in Action
         /\ drift.type = "missing_in_bc" =>
              \E n \in (DOMAIN cosmos) \ DOMAIN bc :
                drift.albaran = n /\ drift.status = cosmos[n].status
<1>1. \/ \E n \in (DOMAIN cosmos) \ DOMAIN bc : drift = Drift(n, "missing_in_bc", cosmos[n].status, 0)
      \/ \E n \in (DOMAIN bc) \ DOMAIN cosmos : drift = Drift(n, "missing_in_cosmos", None, 0)
      \/ \E n : drift \in Compared(n, cosmos[n], bc[n])
  BY Zenon DEF CandidateDrifts
<1>2. CASE \E n \in (DOMAIN cosmos) \ DOMAIN bc : drift = Drift(n, "missing_in_bc", cosmos[n].status, 0)
  <2>1. PICK n \in (DOMAIN cosmos) \ DOMAIN bc : drift = Drift(n, "missing_in_bc", cosmos[n].status, 0)
    BY <1>2
  <2> QED
    BY <2>1, DriftIsTyped DEF Type
<1>3. CASE \E n \in (DOMAIN bc) \ DOMAIN cosmos : drift = Drift(n, "missing_in_cosmos", None, 0)
  <2>1. PICK n \in (DOMAIN bc) \ DOMAIN cosmos : drift = Drift(n, "missing_in_cosmos", None, 0)
    BY <1>3
  <2> QED
    BY <2>1, DriftIsTyped DEF Type
<1>4. CASE \E n : drift \in Compared(n, cosmos[n], bc[n])
  BY <1>4, ComparedIsTyped
<1> QED
  BY <1>1, <1>2, <1>3, <1>4

LEMMA DriftTypesNext ==
  ASSUME Basic, DriftTypes, [Next]_vars
  PROVE  DriftTypes'
<1>1. Typed
  BY DEF Basic
<1>2. CASE job' = job
  BY <1>2 DEF DriftTypes
<1>3. CASE job'.drifts \subseteq job.drifts
  BY <1>3 DEF DriftTypes
<1>4. CASE ListReceipts
  <2>1. PICK bc : job'.drifts = CandidateDrifts(job.cosmos, bc)
    BY <1>1, <1>4, ReceiptsAreListed
  <2> QED
    BY <2>1, CandidatesAreTyped DEF DriftTypes
<1>5. CASE JobStep /\ ~ListReceipts
  BY <1>1, <1>3, <1>5, RunStarts, RecordsAreListed, AgentIsAsked, RunEnds, RunFails DEF JobStep, SendReport
<1>6. CASE \E d \in Doc : Document(d)
  BY <1>2, <1>6, Documents DEF DocumentStep, Basic
<1>7. CASE UNCHANGED vars \/ Tick \/ StartsLate
  BY <1>2, <1>7 DEF vars, Tick, StartsLate
<1> QED
  BY <1>4, <1>5, <1>6, <1>7 DEF Next, Run, JobStep

\* A report has no drift without a type and an action.
THEOREM Drifting == Spec => []DriftTypes
<1>1. Init => DriftTypes
  BY DEF Init, DriftTypes, Idle
<1>2. Basic /\ DriftTypes /\ [Next]_vars => DriftTypes'
  BY DriftTypesNext
<1> QED
  BY <1>1, <1>2, Foundation, PTL DEF Spec

\* Type correctness: no stamp is in the future, and every drift has its action.
THEOREM Types == Spec => []TypeOK
<1>1. Basic /\ DriftTypes => TypeOK
  <2> SUFFICES ASSUME Basic, DriftTypes PROVE TypeOK
    OBVIOUS
  <2>1. ASSUME NEW d \in Doc
        PROVE  /\ record[d].status \in Statuses
               /\ {record[d].created, record[d].updated} \subseteq 0..clock \cup {None}
               /\ receipt[d] \in [at : 0..clock, total : Amount, kept : BOOLEAN] \cup {None}
               /\ deciding[d].stamp \in 0..clock
    <3>1. /\ record[d] \in RecordSet /\ receipt[d] \in Receipt \cup {None} /\ deciding[d] \in Decision
          /\ Story(record[d], receipt[d], deciding[d], clock) /\ clock \in Nat
      BY DEF Basic, Typed, Stories
    <3>2. /\ record[d].status \in Statuses
          /\ {record[d].created, record[d].updated} \subseteq 0..clock \cup {None}
          /\ deciding[d].stamp \in 0..clock
      BY <3>1 DEF RecordSet, Stamp, Decision, Story
    <3>3. receipt[d] # None => receipt[d].at \in 0..clock
      BY <3>1 DEF Receipt, Story
    <3>4. \A p \in Receipt : p.at \in 0..clock => p \in [at : 0..clock, total : Amount, kept : BOOLEAN]
      BY DEF Receipt
    <3> QED
      BY <3>1, <3>2, <3>3, <3>4
  <2>2. job.pc \in {"idle", "records", "receipts", "agent", "send"} /\ job.now <= clock
    BY DEF Basic, Typed, JobRecord, Times
  <2> QED
    BY <2>1, <2>2 DEF TypeOK, Basic, Typed, DriftTypes
<1> QED
  BY <1>1, Foundation, Drifting, PTL

-----------------------------------------------------------------------------
(* No false alarm.                                                         *)

LEMMA KeyedReceipt ==
  ASSUME NEW S, NEW bc \in Keyed(S, ReceiptName, ReceiptSide), NEW d \in S
  PROVE  ReceiptName(d) \in DOMAIN bc
<1>1. PICK choice \in {c \in [{ReceiptName(e) : e \in S} -> S] : \A m \in DOMAIN c : ReceiptName(c[m]) = m} :
        bc = [m \in DOMAIN choice |-> ReceiptSide(choice[m])]
  BY Zenon DEF Keyed
<1> QED
  BY <1>1

\* The receipt of a completed document of the window is not dropped as old: it
\* was posted after a stamp of the window.
LEMMA ReceiptIsRecent ==
  ASSUME Basic, job.pc # "idle", NEW d \in Doc, Completed(d), InWindow(d)
  PROVE  receipt[d] # None /\ IsRecent(d)
<1>1. /\ record[d] \in RecordSet /\ receipt[d] \in Receipt \cup {None}
      /\ Story(record[d], receipt[d], deciding[d], clock)
      /\ job.now \in Nat /\ job.now >= Day
  BY JobFields DEF Basic, Typed, Stories, Times
<1>2. PICK stamp \in {record[d].created, record[d].updated} \ {None} : stamp >= Since
  BY DEF InWindow
<1>3. receipt[d] # None /\ receipt[d].at \in Nat /\ receipt[d].at >= stamp /\ stamp \in Nat
  BY <1>1, <1>2 DEF Story, Completed, Receipt, RecordSet, Stamp
<1>4. Since \in Nat
  BY <1>1 DEF Since
<1>5. PICK t \in Nat, u \in Nat : t = receipt[d].at + CronAt /\ u = Since + CronAt
  BY <1>3, <1>4
<1>6. t >= u
  BY <1>2, <1>3, <1>4, <1>5
<1>7. t \div Day >= u \div Day
  BY <1>6, DaysInOrder
<1> QED
  BY <1>3, <1>5, <1>7, Zenon DEF IsRecent, DayOf

Alarms == ListedIsCompleted /\ AlarmsAreTrue

LEMMA AlarmsDocument ==
  ASSUME Basic, Alarms, NEW d \in Doc, DocumentStep(d)
  PROVE  Alarms'
<1>1. job' = job
  BY DEF DocumentStep
<1>2. ASSUME NEW e \in Doc, Completed(e)
      PROVE  /\ record'[e] = record[e]
             /\ receipt'[e] = receipt[e] \/ (receipt'[e] # None /\ ~receipt'[e].kept)
  BY <1>2 DEF DocumentStep
<1>3. ListedIsCompleted'
  <2> SUFFICES ASSUME job.pc = "receipts", NEW n \in DOMAIN job.cosmos, job.cosmos[n].status = "completed"
               PROVE  \E e \in Doc : CosmosName(e) = n /\ Completed(e)' /\ InWindow(e)'
    BY <1>1 DEF ListedIsCompleted
  <2>1. PICK e \in Doc : CosmosName(e) = n /\ Completed(e) /\ InWindow(e)
    BY DEF Alarms, ListedIsCompleted
  <2>2. record'[e] = record[e]
    BY <1>2, <2>1
  <2>3. Completed(e)' /\ InWindow(e)'
    BY <1>1, <2>1, <2>2 DEF Completed, InWindow, Since
  <2> QED
    BY <2>1, <2>3
<1>4. AlarmsAreTrue'
  <2> SUFFICES ASSUME NEW drift \in job.drifts, Missing(drift), ~job.cut
               PROVE  AlarmIsTrue(drift)'
    BY <1>1 DEF AlarmsAreTrue
  <2>1. PICK e \in Doc : /\ CosmosName(e) = drift.albaran /\ Completed(e)
                         /\ receipt[e] # None /\ e \notin Posted
    BY DEF Alarms, AlarmsAreTrue, AlarmIsTrue
  <2>2. Completed(e)'
    BY <1>2, <2>1 DEF Completed
  <2>3. receipt'[e] # None /\ ~receipt'[e].kept
    BY <1>2, <2>1 DEF Posted
  <2>4. e \notin Posted'
    BY <2>3 DEF Posted
  <2> QED
    BY <2>1, <2>2, <2>3, <2>4 DEF AlarmIsTrue
<1> QED
  BY <1>3, <1>4 DEF Alarms

\* What is listed of Cosmos.
LEMMA AlarmsRecords ==
  ASSUME Basic, Alarms, ListRecords
  PROVE  Alarms'
<1>1. /\ job'.pc = "receipts" /\ SameRun(job', job) /\ job'.drifts = job.drifts /\ job'.cut = job.cut
  BY RecordsAreListed DEF Basic
<1>2. PICK S \in SUBSET {d \in Doc : InWindow(d)} : IsListing(job'.cosmos, S)
  BY RecordsAreListed DEF Basic
<1>3. UNCHANGED documents
  BY DEF ListRecords
<1>4. ListedIsCompleted'
  <2> SUFFICES ASSUME NEW n \in DOMAIN job'.cosmos, job'.cosmos[n].status = "completed"
               PROVE  \E d \in Doc : CosmosName(d) = n /\ Completed(d)' /\ InWindow(d)'
    BY DEF ListedIsCompleted
  <2>1. PICK d \in S : CosmosName(d) = n /\ job'.cosmos[n] = CosmosSide(d)
    BY <1>2 DEF IsListing
  <2>2. job'.cosmos[n].status = record[d].status
    BY <2>1 DEF CosmosSide
  <2>3. d \in Doc /\ InWindow(d) /\ Completed(d)
    BY <2>2 DEF Completed
  <2>4. InWindow(d)' /\ Completed(d)'
    BY <1>1, <1>3, <2>3 DEF InWindow, Completed, Since, SameRun, documents
  <2> QED
    BY <2>1, <2>3, <2>4
<1>5. AlarmsAreTrue'
  BY <1>1, <1>3 DEF Alarms, AlarmsAreTrue, AlarmIsTrue, Completed, Posted, documents
<1> QED
  BY <1>4, <1>5 DEF Alarms

\* A document that is listed as completed and not found among the receipts.
LEMMA AlarmsReceipts ==
  ASSUME NamesAgree, Basic, Alarms, ListReceipts
  PROVE  Alarms'
<1>1. job.pc = "receipts" /\ job'.pc = "agent"
  BY ReceiptsAreListed DEF Basic
<1>2. PICK S : \E bc \in Keyed({d \in S : IsRecent(d)}, ReceiptName, ReceiptSide) :
        job'.cut = (S # Posted) /\ job'.drifts = CandidateDrifts(job.cosmos, bc)
  BY ReceiptsAreListed DEF Basic
<1>3. PICK bc \in Keyed({d \in S : IsRecent(d)}, ReceiptName, ReceiptSide) :
        job'.cut = (S # Posted) /\ job'.drifts = CandidateDrifts(job.cosmos, bc)
  BY <1>2
<1>4. UNCHANGED documents
  BY DEF ListReceipts
<1>5. AlarmsAreTrue'
  <2> SUFFICES ASSUME NEW drift \in job'.drifts, Missing(drift), ~job'.cut
               PROVE  AlarmIsTrue(drift)'
    BY DEF AlarmsAreTrue
  <2>1. PICK n \in (DOMAIN job.cosmos) \ DOMAIN bc :
          drift.albaran = n /\ drift.status = job.cosmos[n].status
    BY <1>3, CandidatesAreTyped DEF Missing
  <2>2. job.cosmos[n].status = "completed"
    BY <2>1 DEF Missing
  <2>3. PICK d \in Doc : CosmosName(d) = n /\ Completed(d) /\ InWindow(d)
    BY <1>1, <2>1, <2>2 DEF Alarms, ListedIsCompleted
  <2>4. receipt[d] # None /\ IsRecent(d)
    BY <1>1, <2>3, ReceiptIsRecent
  <2>5. S = Posted
    BY <1>3, Zenon
  <2>6. d \notin Posted
    <3> SUFFICES ASSUME d \in Posted PROVE FALSE
      OBVIOUS
    <3>1. d \in {e \in S : IsRecent(e)}
      BY <2>4, <2>5
    <3>2. ReceiptName(d) \in DOMAIN bc
      BY <1>3, <3>1, KeyedReceipt
    <3>3. ReceiptName(d) = n
      BY <2>3 DEF NamesAgree
    <3> QED
      BY <2>1, <3>2, <3>3
  <2>7. Completed(d)' /\ receipt'[d] # None /\ d \notin Posted'
    BY <1>4, <2>3, <2>4, <2>6 DEF Completed, Posted, documents
  <2> QED
    BY <2>1, <2>3, <2>7 DEF AlarmIsTrue
<1> QED
  BY <1>1, <1>5 DEF Alarms, ListedIsCompleted

LEMMA AlarmsNext ==
  ASSUME NamesAgree, Basic, Alarms, [Next]_vars
  PROVE  Alarms'
<1>1. Typed
  BY DEF Basic
<1>2. ASSUME UNCHANGED documents, job'.drifts \subseteq job.drifts, job'.drifts = {} \/ job'.cut = job.cut,
             job'.pc # "receipts" \/ job' = job
      PROVE  Alarms'
  BY <1>2 DEF Alarms, ListedIsCompleted, AlarmsAreTrue, AlarmIsTrue, Completed, Posted, InWindow, Since, documents
<1>3. CASE \E d \in Doc : Document(d)
  BY <1>3, Documents, AlarmsDocument DEF Basic
<1>4. CASE UNCHANGED vars \/ Tick \/ StartsLate
  BY <1>2, <1>4 DEF vars, documents, Tick, StartsLate
<1>5. CASE StartRun \/ SendReport \/ FailRun
  <2>1. UNCHANGED documents
    BY <1>5 DEF StartRun, SendReport, FailRun
  <2>2. job'.drifts = {} /\ job'.pc # "receipts"
    BY <1>1, <1>5, RunStarts, RunEnds, RunFails DEF SendReport
  <2> QED
    BY <1>2, <2>1, <2>2
<1>6. CASE AskAgent
  BY <1>1, <1>2, <1>6, AgentIsAsked DEF AskAgent
<1> QED
  BY <1>3, <1>4, <1>5, <1>6, AlarmsRecords, AlarmsReceipts DEF Next, Run

\* A document listed as completed that is called missing in Business Central
\* has lost its receipt, or the client used a cut listing, if the two sides name
\* each document alike; of documents listed with another status nothing is said.
THEOREM CompletedIsNotMissing ==
  ASSUME NamesAgree
  PROVE  Spec => []NoFalseMissing
<1>1. Init => Alarms
  BY DEF Init, Alarms, ListedIsCompleted, AlarmsAreTrue, Idle
<1>2. Basic /\ Alarms /\ [Next]_vars => Alarms'
  BY AlarmsNext
<1>3. Alarms => NoFalseMissing
  BY DEF Alarms, AlarmsAreTrue, NoFalseMissing, Missing, AlarmIsTrue
<1> QED
  BY <1>1, <1>2, <1>3, Foundation, PTL DEF Spec
=============================================================================
