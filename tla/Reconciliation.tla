--------------------------- MODULE Reconciliation ---------------------------
(***************************************************************************)
(* The daily reconciliation job: it lists the records of the last day in   *)
(* Cosmos, then the receipts of Business Central, compares them, lets an   *)
(* agent edit the drifts, and mails a report.  Meanwhile documents move    *)
(* on: the orchestrator writes records without a time stamp, a decision    *)
(* callback takes its stamp before it posts, and an operator may take a    *)
(* receipt back.  How these services race with each other is the subject   *)
(* of Orchestrator and HitlReview; here each document has one writer at a  *)
(* time.                                                                   *)
(***************************************************************************)
EXTENDS Drifts, Mail, FiniteSets

CONSTANTS
  NotJSON, NotAnObject, Failed, ToolName,  \* see BusinessCentral
  Recipients,      \* the items of RECONCILIATION_REPORT_RECIPIENTS
  Doc,             \* documents
  CosmosNames,     \* what can name a document in its record, in the code's order
  ReceiptNames,    \* and in its receipt
  Amount,          \* totals
  OlderReceipts,   \* receipts in Business Central that are no document's of Doc
  Batch,           \* query_batch_size
  Day,             \* the ticks of a day, and of the window of a run
  CronAt,          \* the ticks from midnight to the run, which is at tick 0
  MaxTime, MaxFaults

BC == INSTANCE BusinessCentral

Outcome == {"approve", "rejected", "completed", "hitl_pending"}
Receipt == [at : Nat, total : Amount, kept : BOOLEAN]

ASSUME ReconciliationAssumption ==
  /\ IsFiniteSet(Doc)
  /\ None \notin Outcome /\ None \notin Receipt
  /\ DOMAIN ToolName = BC!Operations
  /\ \A o \in BC!Operations : ToolName[o] # Failed
  /\ None \notin Doc \cup Amount \cup Nat
  /\ Amount \subseteq Nat /\ Unreadable \notin Nat
  /\ OlderReceipts \in Nat /\ Batch \in Nat \ {0} /\ Day \in Nat \ {0}
  /\ CronAt \in 0..(Day - 1)
  /\ None \notin {Failed, NotAnObject}
  /\ Tolerance \in Nat /\ MaxTime \in Nat /\ MaxFaults \in Nat
  /\ \A d \in Doc : NameIn(CosmosNames[d]) # None /\ NameIn(ReceiptNames[d]) # None

VARIABLES
  clock,
  record,     \* the record of each document in Cosmos
  receipt,    \* its receipt in Business Central
  deciding,   \* the callback at work on it
  next,       \* when the job is due
  job,        \* the run under way
  reports,    \* reports mailed so far
  listed,     \* documents whose last stamped write a run has listed
  straddled,  \* documents a run started between the stamp and the write of
  faults

vars == <<clock, record, receipt, deciding, next, job, reports, listed, straddled, faults>>
documents == <<record, receipt, deciding>>

NoRecord == [status |-> "absent", created |-> None, updated |-> None, totals |-> <<>>]
Idle == [pc |-> "idle", attempt |-> 0, now |-> 0, cut |-> FALSE, cosmos |-> <<>>,
         drifts |-> {}]
NoDecision == [outcome |-> None, stamp |-> 0]

Init ==
  /\ clock = 0
  /\ record = [d \in Doc |-> NoRecord]
  /\ receipt = [d \in Doc |-> None]
  /\ deciding = [d \in Doc |-> NoDecision]
  /\ next = Day
  /\ job = Idle
  /\ reports = 0
  /\ listed = {}
  /\ straddled = {}
  /\ faults = 0

Fault == faults < MaxFaults /\ faults' = faults + 1

-----------------------------------------------------------------------------
(* The life of a document.                                                 *)

Upsert(d, r) == record' = [record EXCEPT ![d] = r]
Post(d) == \E total \in Amount : 
  receipt' = [receipt EXCEPT ![d] = [at |-> clock, total |-> total, kept |-> TRUE]]
Posted == {d \in Doc : receipt[d] # None /\ receipt[d].kept}

\* process_document: a record that is processing, a receipt if the pipeline
\* posts, and a record of the result.  None of its records has a time stamp or
\* a total of its own; the totals are inside the metadata and the extraction.
OrchestratorRecord(status, total) ==
  [status |-> status, created |-> None, updated |-> None, totals |-> <<None, total>>]

Process(d) ==
  /\ record[d].status = "absent"
  /\ \E total \in Amount : Upsert(d, OrchestratorRecord("processing", total))
  /\ UNCHANGED <<clock, receipt, deciding, next, job, reports, listed, straddled, faults>>

PostDirectly(d) ==
  /\ record[d].status = "processing" /\ d \notin Posted
  /\ Post(d)
  /\ UNCHANGED <<clock, record, deciding, next, job, reports, listed, straddled, faults>>

WriteResult(d) ==
  /\ record[d].status = "processing"
  /\ \E status \in {"failed"} \cup IF d \in Posted THEN {"completed"} ELSE {"hitl_pending"} :
       Upsert(d, [record[d] EXCEPT !.status = status])
  /\ UNCHANGED <<clock, receipt, deciding, next, job, reports, listed, straddled, faults>>

\* What opens a review is not in src/; the end-to-end tests seed a pending
\* record with created_at and a total.
OpenReview(d) ==
  /\ record[d].status = "hitl_pending" /\ record[d].created = None
  /\ deciding[d] = NoDecision
  /\ \E total \in Amount :
       Upsert(d, [status |-> "pending", created |-> clock, updated |-> None,
                  totals |-> <<total>>])
  /\ UNCHANGED <<clock, receipt, deciding, next, job, reports, listed, straddled, faults>>

\* handle_decision reads the record and the clock ...
BeginDecision(d) ==
  /\ record[d].status \in {"hitl_pending", "pending"}
  /\ deciding[d] = NoDecision
  /\ \E verdict \in {"approve", "rejected"} :
       deciding' = [deciding EXCEPT ![d] = [outcome |-> verdict, stamp |-> clock]]
  /\ UNCHANGED <<clock, record, receipt, next, job, reports, listed, straddled, faults>>

\* ... posts the receipt if the decision approves, or fails to ...
PostApproved(d) ==
  /\ deciding[d].outcome = "approve"
  /\ \/ Post(d) /\ deciding' = [deciding EXCEPT ![d].outcome = "completed"]
     \/ UNCHANGED receipt /\ deciding' = [deciding EXCEPT ![d].outcome = "hitl_pending"]
  /\ UNCHANGED <<clock, record, next, job, reports, listed, straddled, faults>>

\* Mutant of WriteDecision: the posting is not waited for.
WriteDecisionAtOnce(d) ==
  /\ deciding[d] # NoDecision
  /\ Upsert(d, [record[d] EXCEPT !.status = deciding[d].outcome,
                                 !.updated = deciding[d].stamp])
  /\ deciding' = [deciding EXCEPT ![d] = NoDecision]
  /\ listed' = listed \ {d}
  /\ UNCHANGED <<clock, receipt, next, job, reports, straddled, faults>>

\* ... and writes the outcome with the stamp it took at the beginning.
WriteDecision(d) ==
  /\ deciding[d].outcome \in {"completed", "hitl_pending", "rejected"}
  /\ Upsert(d, [record[d] EXCEPT !.status = deciding[d].outcome,
                                 !.updated = deciding[d].stamp])
  /\ deciding' = [deciding EXCEPT ![d] = NoDecision]
  /\ listed' = listed \ {d}
  /\ straddled' = IF deciding[d].stamp < job.now THEN straddled \cup {d}
                  ELSE straddled \ {d}
  /\ UNCHANGED <<clock, receipt, next, job, reports, faults>>

\* cancel_review, whose stamp is of the write.
Cancel(d) ==
  /\ record[d].status \in {"hitl_pending", "pending"}
  /\ deciding[d] = NoDecision
  /\ Upsert(d, [record[d] EXCEPT !.status = "cancelled", !.updated = clock])
  /\ listed' = listed \ {d}
  /\ straddled' = straddled \ {d}
  /\ UNCHANGED <<clock, receipt, deciding, next, job, reports, faults>>

\* An operator takes the receipt back in Business Central.
TakeBack(d) ==
  /\ d \in Posted
  /\ receipt' = [receipt EXCEPT ![d].kept = FALSE]
  /\ UNCHANGED <<clock, record, deciding, next, job, reports, listed, straddled, faults>>

-----------------------------------------------------------------------------
(* The job.                                                                *)

\* A day of ticks; hours do not pass while a run that is due waits or works.
Tick ==
  /\ clock < MaxTime
  /\ job.pc = "idle" /\ clock < next
  /\ clock' = clock + 1
  /\ UNCHANGED <<documents, next, job, reports, listed, straddled, faults>>

\* The scheduler starts a run late.
StartsLate ==
  /\ clock < MaxTime
  /\ job.pc = "idle" /\ clock >= next
  /\ Fault
  /\ clock' = clock + 1
  /\ UNCHANGED <<documents, next, job, reports, listed, straddled>>

\* run reads the clock; the window is the day before.
StartRun ==
  /\ job.pc = "idle" /\ clock >= next
  /\ next' = next + Day
  /\ job' = [Idle EXCEPT !.pc = "records", !.attempt = 1, !.now = clock]
  /\ UNCHANGED <<clock, documents, reports, listed, straddled, faults>>

\* Mutant of Since: a write at the last instant of the day before is left out.
SinceExcluding == job.now - Day + 1

Since == job.now - Day

\* The query has a third stamp, last_updated, which no service writes.
InWindow(d) == \E stamp \in {record[d].created, record[d].updated} \ {None} : stamp >= Since

\* Of several records with one name the dict keeps one.
Keyed(S, Name(_), Value(_)) ==
  {[n \in DOMAIN choice |-> Value(choice[n])] :
     choice \in {c \in [{Name(d) : d \in S} -> S] : \A n \in DOMAIN c : Name(c[n]) = n}}

CosmosName(d) == NameIn(CosmosNames[d])
ReceiptName(d) == NameIn(ReceiptNames[d])
CosmosSide(d) == [status |-> record[d].status, total |-> TotalIn(record[d].totals)]

\* The records with a stamp in the window, at most Batch of them: which ones, when
\* there are more, is left open.
ListRecords ==
  /\ job.pc = "records"
  /\ \E S \in SUBSET {d \in Doc : InWindow(d)} :
       /\ \/ S = {d \in Doc : InWindow(d)} /\ Cardinality(S) <= Batch
          \/ Cardinality(S) = Batch
       /\ listed' = listed \cup S
       /\ \E cosmos \in Keyed(S, CosmosName, CosmosSide) :
            job' = [job EXCEPT !.pc = "receipts", !.cosmos = cosmos]
  /\ UNCHANGED <<clock, documents, next, reports, straddled, faults>>

\* Receipts posted before the day on which the window begins are dropped.
DayOf(time) == (time + CronAt) \div Day

\* Mutant of IsRecent: the day the window begins on is dropped as well.
IsLaterDay(d) == DayOf(receipt[d].at) > DayOf(Since)

IsRecent(d) == DayOf(receipt[d].at) >= DayOf(Since)

ReceiptSide(d) == [status |-> "posted", total |-> TotalIn(<<receipt[d].total>>)]

\* The listing of S, as the server has several ways to give it.
Listing(S) ==
  LET entries == {[id |-> d] : d \in S} \cup {NotAnObject}
      of(content, text) == [tools |-> {ToolName["list_purchase_receipts"]}, isError |-> FALSE,
                            structured |-> content, text |-> text]
  IN  {of(BC!Content(shape, entries), <<>>) : shape \in BC!Collections}
      \cup {of(None, <<None, BC!Content("list", entries)>>)}

\* And its ways to fail: a tool of another name, an error, no text, text that is
\* not JSON, or an entry without an id.
OddAnswers ==
  LET odd == [tools |-> {ToolName["list_purchase_receipts"]}, isError |-> FALSE,
              structured |-> None, text |-> <<None>>]
  IN  {odd, [odd EXCEPT !.tools = {}], [odd EXCEPT !.isError = TRUE],
       [odd EXCEPT !.text = <<NotJSON>>],
       [odd EXCEPT !.structured = BC!Content("scalar", {})],
       [odd EXCEPT !.structured = BC!Content("object", {[id |-> None]})]}

\* The receipts a query for Batch of them, of whatever age, may return.
Listable == {S \in SUBSET Posted : \/ S = Posted /\ Cardinality(S) <= Batch
                                  \/ /\ Cardinality(S) <= Batch
                                     /\ Cardinality(S) + OlderReceipts >= Batch}

\* What the client makes of the answer, unless that is an exception: an answer
\* without text passes for a company without receipts.
UseReceipts(receipts) ==
  /\ receipts # Failed
  /\ LET S == {entry.id : entry \in receipts}
     IN  \E bc \in Keyed({d \in S : IsRecent(d)}, ReceiptName, ReceiptSide) :
           job' = [job EXCEPT !.pc = "agent", !.cut = (S # Posted),
                              !.drifts = CandidateDrifts(job.cosmos, bc)]

ListReceipts ==
  /\ job.pc = "receipts"
  /\ \/ /\ \E S \in Listable : \E answer \in Listing(S) :
            UseReceipts(BC!ListPurchaseReceipts(answer))
        /\ UNCHANGED faults
     \/ /\ \E answer \in OddAnswers : UseReceipts(BC!ListPurchaseReceipts(answer))
        /\ Fault
  /\ UNCHANGED <<clock, documents, next, reports, listed, straddled>>

\* The agent's list replaces the candidates, unless it is empty or unreadable.
Edited(answer) == IF answer \in {None, {}} THEN job.drifts ELSE answer

AskAgent ==
  /\ job.pc = "agent"
  /\ \E answer \in (SUBSET job.drifts) \cup {None} :
       job' = [job EXCEPT !.pc = "send", !.drifts = Edited(answer)]
  /\ UNCHANGED <<clock, documents, next, reports, listed, straddled, faults>>

EndRun == job' = [Idle EXCEPT !.now = job.now]

\* The report goes to the recipients that are configured, and to nobody if there
\* are none.
ReportRecipients == SelectSeq(Recipients, LAMBDA item : item # "")

Send(candidates) ==
  IF ReportRecipients = <<>> THEN [sent |-> FALSE, failed |-> FALSE]
  ELSE SendEmail(ReportRecipients, candidates)

Reports(mail) == reports' = IF mail.sent THEN reports + 1 ELSE reports

SendReport ==
  /\ job.pc = "send"
  /\ LET mail == Send(<<"id">>) IN ~mail.failed /\ Reports(mail)
  /\ EndRun
  /\ UNCHANGED <<clock, documents, next, listed, straddled, faults>>

\* Mutant of FailRun: the job is not started again.
FailRunForGood ==
  /\ job.pc # "idle"
  /\ Fault
  /\ EndRun
  /\ UNCHANGED <<clock, documents, next, reports, listed, straddled>>

\* An exception ends the execution; the platform starts it once more.  A mail
\* that is reported as failed may have been sent.
FailRun ==
  /\ job.pc # "idle"
  /\ Fault
  /\ \/ UNCHANGED reports
     \/ job.pc = "send" /\ LET mail == Send(<<"">>) IN mail.failed /\ Reports(mail)
  /\ IF job.attempt = 1
     THEN job' = [Idle EXCEPT !.pc = "records", !.attempt = 2, !.now = clock]
     ELSE EndRun
  /\ UNCHANGED <<clock, documents, next, listed, straddled>>

-----------------------------------------------------------------------------
Document(d) ==
  \/ Process(d) \/ PostDirectly(d) \/ WriteResult(d) \/ OpenReview(d)
  \/ BeginDecision(d) \/ PostApproved(d) \/ WriteDecision(d) \/ Cancel(d) \/ TakeBack(d)

Run == StartRun \/ ListRecords \/ ListReceipts \/ AskAgent \/ SendReport

Next ==
  \/ Tick \/ StartsLate \/ Run \/ FailRun
  \/ \E d \in Doc : Document(d)

Spec == Init /\ [][Next]_vars

-----------------------------------------------------------------------------
(* Properties.                                                             *)

Statuses == {"absent", "processing", "completed", "failed", "hitl_pending", "pending",
             "rejected", "cancelled"}

TypeOK ==
  /\ clock \in 0..MaxTime
  /\ \A d \in Doc : /\ record[d].status \in Statuses
                    /\ {record[d].created, record[d].updated} \subseteq 0..clock \cup {None}
                    /\ receipt[d] \in [at : 0..clock, total : Amount, kept : BOOLEAN] \cup {None}
                    /\ deciding[d].stamp \in 0..clock
  /\ job.pc \in {"idle", "records", "receipts", "agent", "send"}
  /\ job.now <= clock
  /\ \A drift \in job.drifts : drift.type \in Type /\ drift.action \in Action
  /\ listed \cup straddled \subseteq Doc
  /\ faults \in 0..MaxFaults

\* A document that a run listed as completed is called missing in Business
\* Central only if somebody took its receipt back, or if the client used a
\* listing that is cut: more receipts than one query returns, or an answer
\* without text, which passes for a company without receipts.  It holds if both
\* sides name each document alike, and because the callback posts before it
\* writes and the run lists records before receipts.  Nothing is promised of a
\* document that is listed as anything else: without a receipt it is missing,
\* decided or not, and with one its status differs, as does "completed" itself.
NoFalseMissing ==
  \A drift \in job.drifts :
    drift.type = "missing_in_bc" /\ drift.status = "completed" =>
      \/ job.cut
      \/ \E d \in Doc : CosmosName(d) = drift.albaran /\ receipt[d] # None /\ d \notin Posted

\* As long as runs start on time and do not fail, and a query has room for all
\* records, a decision is in the listing of a run, at the latest the next one,
\* unless a run started while it was between its stamp and its write.
DecisionsAreListed ==
  faults = 0 /\ Cardinality(Doc) <= Batch =>
    \A d \in Doc : record[d].updated # None /\ d \notin listed \cup straddled =>
      record[d].updated >= IF job.pc = "records" THEN Since ELSE next - Day

\* Every day has its report, if it is for anybody.  A fault may cause a second
\* one, because the job is started again after a mail that failed or was not
\* known to be sent, and only two faults in one run leave a day without any.
DailyReport ==
  LET runs == next \div Day - 1
  IN  /\ reports <= runs + faults
      /\ ReportRecipients = <<>> => reports = 0
      /\ job.pc = "idle" /\ ReportRecipients # <<>> => reports >= runs - faults \div 2
=============================================================================
