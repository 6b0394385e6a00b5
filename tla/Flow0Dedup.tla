----------------------------- MODULE Flow0Dedup -----------------------------
(***************************************************************************)
(* Flow 0: the container job that takes one BlobCreated notification from  *)
(* the ingestion queue, looks for the blob among the documents in Cosmos,  *)
(* and otherwise writes a document and forwards the blob to the extraction *)
(* queue.  Up to Job executions run at once; each is a process of its own  *)
(* that ends after its message.  The lookup, the upsert and the send are   *)
(* three calls and nothing makes them one.                                 *)
(***************************************************************************)
EXTENDS Naturals, FiniteSets

CONSTANTS
  None,
  Event,        \* notifications sent to the ingestion queue
  Key,          \* dedup keys
  KeyOf,        \* build_dedup_key of each event
  NameDate,     \* pairs of a blob name and an event date
  NameDateOf,   \* the pair of each event
  Partition,    \* partition keys: a store and a month
  PartitionOf,  \* the partition key of each event
  Malformed,    \* events parse_event_grid_payload or a property of them rejects
  Job,          \* concurrent job executions
  BrokerLimit,  \* maxDeliveryCount of the queue
  MaxFaults     \* bound on failing calls, crashes and lapsed locks

ASSUME Flow0Assumption ==
  /\ None \notin Job \cup Event
  /\ KeyOf \in [Event -> Key]
  /\ NameDateOf \in [Event -> NameDate]
  /\ PartitionOf \in [Event -> Partition]
  /\ Malformed \subseteq Event
  /\ IsFiniteSet(Job)
  /\ BrokerLimit \in Nat \ {0}
  /\ MaxFaults \in Nat

VARIABLES
  record,     \* documents in Cosmos
  message,    \* the broker's state of each notification
  deliveries, \* how often each notification was delivered
  holder,     \* the job each was last delivered to
  job,        \* the state of each execution
  forwarded,  \* messages sent to the extraction queue, by key
  faults      \* faults so far

broker == <<message, deliveries, holder>>
vars == <<record, message, deliveries, holder, job, forwarded, faults>>

Idle == [pc |-> "idle", event |-> None]

\* build_processing_record: the id of a document is a digest of its key.
Document(e) == [key |-> KeyOf[e], nameDate |-> NameDateOf[e], pk |-> PartitionOf[e]]

\* upsert_item replaces the document with the same id in the same partition.
Replacing(e) ==
  {r \in record : r.key # KeyOf[e] \/ r.pk # PartitionOf[e]} \cup {Document(e)}

Init ==
  /\ record = {}
  /\ message = [e \in Event |-> "queued"]
  /\ deliveries = [e \in Event |-> 0]
  /\ holder = [e \in Event |-> None]
  /\ job = [j \in Job |-> Idle]
  /\ forwarded = [k \in Key |-> 0]
  /\ faults = 0

Fault == faults < MaxFaults /\ faults' = faults + 1
Goto(j, pc) == job' = [job EXCEPT ![j].pc = pc]

\* Mutant of Exit: an execution takes its event along into the next one.
ExitKeepingEvent(j) == Goto(j, "idle")

Exit(j) == job' = [job EXCEPT ![j] = Idle]

Forwarding(j) == forwarded' = [forwarded EXCEPT ![KeyOf[job[j].event]] = @ + 1]

\* Mutant of Existing: the query never finds anything.
ExistingNever(e) == {}

\* find_existing_record: the same key, or the same name on the same date.
Existing(e) ==
  {r \in record : r.key = KeyOf[e] \/ r.nameDate = NameDateOf[e]}

-----------------------------------------------------------------------------
(* The broker.                                                             *)

Unlocked(e) == IF deliveries[e] >= BrokerLimit THEN "dead_lettered" ELSE "queued"

HoldsLock(j) == message[job[j].event] = "locked" /\ holder[job[j].event] = j

\* receive_messages of one message.  An execution that finds none ends at once.
Receive(j) ==
  /\ job[j] = Idle
  /\ \E e \in Event :
       /\ message[e] = "queued"
       /\ message' = [message EXCEPT ![e] = "locked"]
       /\ deliveries' = [deliveries EXCEPT ![e] = @ + 1]
       /\ holder' = [holder EXCEPT ![e] = j]
       /\ job' = [job EXCEPT ![j] = [pc |-> "lookup", event |-> e]]
  /\ UNCHANGED <<record, forwarded, faults>>

\* The lock of a notification whose execution is gone runs out ...
ExpireAbandoned(e) ==
  /\ message[e] = "locked" /\ job[holder[e]].event # e
  /\ message' = [message EXCEPT ![e] = Unlocked(e)]
  /\ UNCHANGED <<record, deliveries, holder, job, forwarded, faults>>

\* ... or that of one at work.
ExpireHeld(e) ==
  /\ message[e] = "locked" /\ job[holder[e]].event = e
  /\ Fault
  /\ message' = [message EXCEPT ![e] = Unlocked(e)]
  /\ UNCHANGED <<record, deliveries, holder, job, forwarded>>

-----------------------------------------------------------------------------
(* handle_message, and the loop of run around it.                          *)

\* Mutant of Lookup: the blob is forwarded before its document is written.
LookupThenForward(j) ==
  /\ job[j].pc = "lookup"
  /\ LET e == job[j].event IN
       Goto(j, IF e \in Malformed THEN "abandon"
               ELSE IF Existing(e) # {} THEN "complete" ELSE "forward")
  /\ UNCHANGED <<record, broker, forwarded, faults>>

\* Mutant of Lookup: a notification that cannot be parsed is tried again at once.
LookupRetrying(j) ==
  /\ job[j].pc = "lookup"
  /\ LET e == job[j].event IN
       Goto(j, IF e \in Malformed THEN "lookup"
               ELSE IF Existing(e) # {} THEN "complete" ELSE "upsert")
  /\ UNCHANGED <<record, broker, forwarded, faults>>

Lookup(j) ==
  /\ job[j].pc = "lookup"
  /\ LET e == job[j].event IN
       Goto(j, IF e \in Malformed THEN "abandon"
               ELSE IF Existing(e) # {} THEN "complete" ELSE "upsert")
  /\ UNCHANGED <<record, broker, forwarded, faults>>

\* Mutant of Upsert: the document is written and not forwarded.
UpsertOnly(j) ==
  /\ job[j].pc = "upsert"
  /\ record' = Replacing(job[j].event)
  /\ Goto(j, "complete")
  /\ UNCHANGED <<broker, forwarded, faults>>

Upsert(j) ==
  /\ job[j].pc = "upsert"
  /\ record' = Replacing(job[j].event)
  /\ Goto(j, "forward")
  /\ UNCHANGED <<broker, forwarded, faults>>

Forward(j) ==
  /\ job[j].pc = "forward"
  /\ Forwarding(j)
  /\ Goto(j, "complete")
  /\ UNCHANGED <<record, broker, faults>>

\* A call fails, though what it asked for may have been done; the except
\* clause abandons the message.
Fail(j) ==
  /\ job[j].pc \in {"lookup", "upsert", "forward", "complete"}
  /\ Fault
  /\ Goto(j, "abandon")
  /\ \/ UNCHANGED <<record, forwarded>>
     \/ /\ job[j].pc = "upsert"
        /\ record' = Replacing(job[j].event)
        /\ UNCHANGED forwarded
     \/ job[j].pc = "forward" /\ Forwarding(j) /\ UNCHANGED record
  /\ UNCHANGED broker

Complete(j) ==
  /\ job[j].pc = "complete"
  /\ HoldsLock(j)
  /\ message' = [message EXCEPT ![job[j].event] = "completed"]
  /\ Exit(j)
  /\ UNCHANGED <<record, deliveries, holder, forwarded, faults>>

\* complete_message of a lost lock raises inside the try.
CompleteTooLate(j) ==
  /\ job[j].pc = "complete"
  /\ ~HoldsLock(j)
  /\ Goto(j, "abandon")
  /\ UNCHANGED <<record, broker, forwarded, faults>>

\* Mutant of Abandon: the message is completed whatever happened.
AbandonByCompleting(j) ==
  /\ job[j].pc = "abandon"
  /\ message' = IF HoldsLock(j)
                THEN [message EXCEPT ![job[j].event] = "completed"] ELSE message
  /\ Exit(j)
  /\ UNCHANGED <<record, deliveries, holder, forwarded, faults>>

\* abandon_message; if the lock is lost it raises and the execution fails.
Abandon(j) ==
  /\ job[j].pc = "abandon"
  /\ message' = IF HoldsLock(j)
                THEN [message EXCEPT ![job[j].event] = Unlocked(job[j].event)] ELSE message
  /\ Exit(j)
  /\ UNCHANGED <<record, deliveries, holder, forwarded, faults>>

\* The execution is killed, or its abandon_message fails.
Crash(j) ==
  /\ job[j] # Idle
  /\ Fault
  /\ Exit(j)
  /\ UNCHANGED <<record, broker, forwarded>>

-----------------------------------------------------------------------------
Execute(j) ==
  \/ Receive(j) \/ Lookup(j) \/ Upsert(j) \/ Forward(j)
  \/ Complete(j) \/ CompleteTooLate(j) \/ Abandon(j)

Next ==
  \/ \E j \in Job : Execute(j) \/ Fail(j) \/ Crash(j)
  \/ \E e \in Event : ExpireAbandoned(e) \/ ExpireHeld(e)

Spec == Init /\ [][Next]_vars

\* The scaler starts executions while the queue is not empty, an execution
\* runs to its end, and the broker ends locks nobody will settle.
Fairness ==
  /\ \A j \in Job : WF_vars(Execute(j))
  /\ \A e \in Event : WF_vars(ExpireAbandoned(e))

FairSpec == Spec /\ Fairness

-----------------------------------------------------------------------------
(* Properties.                                                             *)

TypeOK ==
  /\ record \subseteq [key : Key, nameDate : NameDate, pk : Partition]
  /\ message \in [Event -> {"queued", "locked", "completed", "dead_lettered"}]
  /\ deliveries \in [Event -> Nat]
  /\ holder \in [Event -> Job \cup {None}]
  /\ \A e \in Event : message[e] = "locked" => holder[e] \in Job
  /\ job \in [Job -> [pc : {"idle", "lookup", "upsert", "forward", "complete", "abandon"},
                      event : Event \cup {None}]]
  /\ \A j \in Job : job[j].pc = "idle" <=> job[j].event = None
  /\ forwarded \in [Key -> Nat]
  /\ faults \in Nat

\* The orchestrator is never sent a document that is not in Cosmos.
ForwardedIsRecorded ==
  \A k \in Key : forwarded[k] > 0 => \E r \in record : r.key = k

\* A notification is acknowledged only once its blob, or one announced under its
\* name on its date, is among the documents, and that stays so although racing
\* executions replace each other's documents.
AcknowledgedIsRecorded ==
  \A e \in Event :
    message[e] = "completed" =>
      \E f \in Event : /\ f = e \/ NameDateOf[f] = NameDateOf[e]
                      /\ \E r \in record : r.key = KeyOf[f]

\* A document is forwarded at most once per concurrent execution, however many
\* notifications, redeliveries, crashes and lapsed locks there are: only the
\* executions that looked before the first upsert can all forward it.
ForwardsBounded ==
  \A k \in Key : forwarded[k] <= Cardinality(Job)

\* Without a fault no document is left in Cosmos that nobody will forward.
ForgottenOnlyByFault ==
  faults = 0 =>
    \A r \in record :
      \/ forwarded[r.key] > 0
      \/ \E j \in Job : job[j].pc = "forward" /\ KeyOf[job[j].event] = r.key

\* Every notification is acknowledged, or dead-lettered by the broker.
EveryNotificationSettles ==
  \A e \in Event : <>[](message[e] \in {"completed", "dead_lettered"})

-----------------------------------------------------------------------------
(* What the documentation says and the code does not do.                   *)

\* A failed notification is retried: what is acknowledged has been forwarded,
\* under its own key or as the document it duplicates.
AcknowledgedIsForwarded ==
  \A e \in Event :
    message[e] = "completed" => \E r \in Existing(e) : forwarded[r.key] > 0
=============================================================================
