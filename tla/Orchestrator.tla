---------------------------- MODULE Orchestrator ----------------------------
(***************************************************************************)
(* The orchestrator: replicas that consume the Service Bus queue           *)
(* "extraction" in peek-lock mode, one task and one message at a time in   *)
(* each, and the manual endpoint POST /process, which runs the same        *)
(* process_document without a queue.  Each run writes "processing", calls  *)
(* the agent pipeline, writes the outcome and hands reviews over to the    *)
(* queue "hitl-review"; handle_message then settles the message.           *)
(*                                                                         *)
(* An exception that handle_message does not expect ends the consumer task *)
(* of its replica for good: nothing awaits or restarts the task, and the   *)
(* replica goes on answering HTTP.                                         *)
(***************************************************************************)
EXTENDS ProcessingRecord, Payloads, Pipeline, FiniteSets, Functions

CONSTANTS
  Message,             \* messages sent to the extraction queue
  ManualCall,          \* calls of POST /process
  Body,                \* what each message and each call carries
  Content,             \* the content of each blob
  Replica,             \* container replicas
  BatchSize,           \* max_receive_batch_size
  MaxDeliveryAttempts, \* max_delivery_attempts
  BrokerLimit,         \* maxDeliveryCount of the queue
  FirstCount,          \* delivery_count the SDK reports on a first delivery
  LocksLapse,          \* may a lock run out while its holder is at work?
  MaxFaults            \* bound on failing calls, crashes and lapsed locks

Runner == Replica \cup ManualCall
Job == Message \cup ManualCall

\* What deserialize_message, or the endpoint, makes of the bodies.
Malformed == {m \in Message : ~Deserializes(Body[m])}
Request == [j \in Job \ Malformed |-> Deserialize(Body[j])]
Target == [j \in Job |-> IF j \in Malformed THEN None ELSE ProcessingId(Request[j])]
Albaran == {Target[j] : j \in Job \ Malformed}

ASSUME OrchestratorAssumption ==
  /\ Replica \cap ManualCall = {} /\ Message \cap ManualCall = {}
  /\ None \notin Replica \cup Job
  /\ Job \subseteq DOMAIN Body
  /\ \A c \in ManualCall : Deserializes(Body[c])
  /\ \A j \in Job \ Malformed : Content[Request[j].blob_url] \in BlobContent
  /\ BatchSize \in Nat \ {0}
  /\ MaxDeliveryAttempts \in Nat \ {0} /\ BrokerLimit \in Nat \ {0}
  /\ FirstCount \in {0, 1}
  /\ LocksLapse \in BOOLEAN
  /\ MaxFaults \in Nat

VARIABLES
  record,     \* the documents in Cosmos
  message,    \* the broker's state of each message
  deliveries, \* how often each message was delivered
  holder,     \* the replica each message was last delivered to
  batch,      \* messages each consumer received and has not settled
  run,        \* the run of process_document each runner is in
  handoffs,   \* messages sent to hitl-review, by albaran
  receipts,   \* receipts posted to Business Central, by albaran
  faults      \* faults so far

broker == <<message, deliveries, holder>>
world == <<record, handoffs, receipts>>
vars == <<record, message, deliveries, holder, batch, run, handoffs, receipts, faults>>

Idle == [pc |-> "idle", job |-> None, decision |-> None]
Dead == [pc |-> "dead", job |-> None, decision |-> None]

Init ==
  /\ record = [d \in Albaran |-> NoDocument]
  /\ message = [m \in Message |-> "queued"]
  /\ deliveries = [m \in Message |-> 0]
  /\ holder = [m \in Message |-> None]
  /\ batch = [r \in Replica |-> {}]
  /\ run = [x \in Runner |-> Idle]
  /\ handoffs = [d \in Albaran |-> 0]
  /\ receipts = [d \in Albaran |-> 0]
  /\ faults = 0

Subject(x) == Target[run[x].job]
Write(x, status) == record' = [record EXCEPT ![Subject(x)] = OrchestratorDocument(status)]
Post(x) == receipts' = [receipts EXCEPT ![Subject(x)] = @ + 1]
HandOver(x) == handoffs' = [handoffs EXCEPT ![Subject(x)] = @ + 1]
Fault == faults < MaxFaults /\ faults' = faults + 1

\* The run ends with an exception its caller does not handle.  A consumer task
\* ends with it and closes its receiver; an HTTP call answers 500.
Raise(x) ==
  /\ run' = [run EXCEPT ![x] = Dead]
  /\ batch' = IF x \in Replica THEN [batch EXCEPT ![x] = {}] ELSE batch

-----------------------------------------------------------------------------
(* The broker.                                                             *)

\* A lock that is given up: back to the queue, unless the deliveries of the
\* message are used up.  Then the broker dead-letters it itself, whatever its
\* last delivery had got to; "dead_lettered" is what handle_message decides.
Unlocked(m) == IF deliveries[m] >= BrokerLimit THEN "given_up" ELSE "queued"

HoldsLock(r, m) == message[m] = "locked" /\ holder[m] = r

\* Mutant of Receive: the receiver is opened in receive-and-delete mode.
ReceiveAndDelete(r) ==
  /\ run[r] = Idle
  /\ batch[r] = {}
  /\ \E S \in SUBSET {m \in Message : message[m] = "queued"} :
       /\ S # {} /\ Cardinality(S) <= BatchSize
       /\ batch' = [batch EXCEPT ![r] = S]
       /\ message' = [m \in Message |-> IF m \in S THEN "completed" ELSE message[m]]
       /\ deliveries' = [m \in Message |-> deliveries[m] + IF m \in S THEN 1 ELSE 0]
  /\ UNCHANGED <<world, holder, run, faults>>

\* receive_messages.
Receive(r) ==
  /\ run[r] = Idle
  /\ batch[r] = {}
  /\ \E S \in SUBSET {m \in Message : message[m] = "queued"} :
       /\ S # {} /\ Cardinality(S) <= BatchSize
       /\ batch' = [batch EXCEPT ![r] = S]
       /\ message' = [m \in Message |-> IF m \in S THEN "locked" ELSE message[m]]
       /\ deliveries' = [m \in Message |-> deliveries[m] + IF m \in S THEN 1 ELSE 0]
       /\ holder' = [m \in Message |-> IF m \in S THEN r ELSE holder[m]]
  /\ UNCHANGED <<world, run, faults>>

\* The lock of a message whose consumer is gone runs out.
ExpireAbandoned(m) ==
  /\ message[m] = "locked"
  /\ m \notin batch[holder[m]]
  /\ message' = [message EXCEPT ![m] = Unlocked(m)]
  /\ UNCHANGED <<world, deliveries, holder, batch, run, faults>>

\* No AutoLockRenewer is registered: the lock of a message still waiting in a
\* batch, or of one at work, can run out as well.
ExpireHeld(m) ==
  /\ LocksLapse
  /\ message[m] = "locked"
  /\ m \in batch[holder[m]]
  /\ Fault
  /\ message' = [message EXCEPT ![m] = Unlocked(m)]
  /\ UNCHANGED <<world, deliveries, holder, batch, run>>

-----------------------------------------------------------------------------
(* process_document.                                                       *)

\* The runs x may start: a consumer takes its batch in order, which may be any.
Startable(x) == IF x \in Replica THEN batch[x] ELSE {x}

\* deserialize_message, and the upsert of "processing".  Both are outside every
\* try: when one of them fails, even if the upsert was done, x gives up.
Begin(x) ==
  /\ run[x] = Idle
  /\ \E j \in Startable(x) \ Malformed :
       /\ run' = [run EXCEPT ![x] = [pc |-> "pipeline", job |-> j, decision |-> None]]
       /\ record' = [record EXCEPT ![Target[j]] = OrchestratorDocument("processing")]
  /\ UNCHANGED <<broker, batch, handoffs, receipts, faults>>

BeginMalformed(r) ==
  /\ run[r] = Idle
  /\ batch[r] \cap Malformed # {}
  /\ Raise(r)
  /\ UNCHANGED <<world, broker, faults>>

BeginFails(x) ==
  /\ run[x] = Idle
  /\ Fault
  /\ \E j \in Startable(x) \ Malformed :
       record' \in {record, [record EXCEPT ![Target[j]] = OrchestratorDocument("processing")]}
  /\ Raise(x)
  /\ UNCHANGED <<broker, handoffs, receipts>>

\* Download, OCR and the agents up to the validator.
RunPipeline(x) ==
  /\ run[x].pc = "pipeline"
  /\ LET request == Request[run[x].job] IN
       IF Analyzes(Content[request.blob_url])
       THEN \E result \in Validated(PipelineInput(request.metadata)) :
              run' = [run EXCEPT ![x].pc = IF result.inventory THEN "post" ELSE "write",
                                 ![x].decision = result.decision]
       ELSE run' = [run EXCEPT ![x].pc = "fail"]
  /\ UNCHANGED <<world, broker, batch, faults>>

\* The inventory agent.  It reports success only for what it posted, but what
\* it posted may come back in an answer that cannot be read.
PostInventory(x) ==
  /\ run[x].pc = "post"
  /\ \E answer \in PostingAnswer :
       /\ run' = [run EXCEPT ![x].pc = "write",
                             ![x].decision = DecisionAfterPosting(answer)]
       /\ \/ answer # "failure" /\ Post(x)
          \/ answer # "success" /\ UNCHANGED receipts
  /\ UNCHANGED <<record, handoffs, broker, batch, faults>>

\* Mutant of WriteResult: the hand-over is forgotten.
WriteResultOnly(x) ==
  /\ run[x].pc = "write"
  /\ Write(x, ResolveStatus(run[x].decision))
  /\ run' = [run EXCEPT ![x].pc = "settle"]
  /\ UNCHANGED <<broker, batch, handoffs, receipts, faults>>

WriteResult(x) ==
  /\ run[x].pc = "write"
  /\ LET status == ResolveStatus(run[x].decision) IN
       /\ Write(x, status)
       /\ run' = [run EXCEPT ![x].pc = IF status = "hitl_pending" THEN "handoff"
                                       ELSE "settle"]
  /\ UNCHANGED <<broker, batch, handoffs, receipts, faults>>

SendHitlMessage(x) ==
  /\ run[x].pc = "handoff"
  /\ HandOver(x)
  /\ run' = [run EXCEPT ![x].pc = "settle"]
  /\ UNCHANGED <<broker, batch, record, receipts, faults>>

\* Mutant of FailInTry: a posting that failed is tried again on the spot.
RetryInPlace(x) ==
  /\ run[x].pc = "post"
  /\ Post(x)
  /\ Fault
  /\ UNCHANGED <<record, handoffs, broker, batch, run>>

\* Something inside the try fails.  The call that failed may have been done.
FailInTry(x) ==
  /\ run[x].pc \in {"pipeline", "post", "write", "handoff"}
  /\ Fault
  /\ run' = [run EXCEPT ![x].pc = "fail", ![x].decision = None]
  /\ \/ UNCHANGED world
     \/ run[x].pc = "post" /\ Post(x) /\ UNCHANGED <<record, handoffs>>
     \/ /\ run[x].pc = "write"
        /\ Write(x, ResolveStatus(run[x].decision))
        /\ UNCHANGED <<receipts, handoffs>>
     \/ run[x].pc = "handoff" /\ HandOver(x) /\ UNCHANGED <<record, receipts>>
  /\ UNCHANGED <<broker, batch>>

\* Mutant of WriteFailed: the error is raised and handle_message misses it.
WriteFailedUncaught(x) ==
  /\ run[x].pc = "fail"
  /\ Write(x, "failed")
  /\ Raise(x)
  /\ UNCHANGED <<broker, handoffs, receipts, faults>>

\* The except clause: "failed" is written and OrchestrationError raised.
WriteFailed(x) ==
  /\ run[x].pc = "fail"
  /\ Write(x, "failed")
  /\ run' = [run EXCEPT ![x].pc = "settle", ![x].decision = "failed"]
  /\ UNCHANGED <<broker, batch, handoffs, receipts, faults>>

WriteFailedFails(x) ==
  /\ run[x].pc = "fail"
  /\ Fault
  /\ UNCHANGED record \/ Write(x, "failed")
  /\ Raise(x)
  /\ UNCHANGED <<broker, handoffs, receipts>>

-----------------------------------------------------------------------------
(* The end of handle_message, and of a call.                               *)

DeliveryCount(m) == deliveries[m] + FirstCount - 1

\* Mutant of Settled: the limit is compared with > instead of >=.
SettledLate(m, decision) ==
  IF decision # "failed" THEN "completed"
  ELSE IF DeliveryCount(m) > MaxDeliveryAttempts THEN "dead_lettered"
  ELSE Unlocked(m)

\* Mutant of Settled: a failed run completes its message below the limit.
SettledWhenFailed(m, decision) ==
  IF decision # "failed" \/ DeliveryCount(m) < MaxDeliveryAttempts THEN "completed"
  ELSE "dead_lettered"

Settled(m, decision) ==
  IF decision # "failed" THEN "completed"
  ELSE IF DeliveryCount(m) >= MaxDeliveryAttempts THEN "dead_lettered"
  ELSE Unlocked(m)

\* Mutant of Settle: the consumer does not leave the run.
SettleAndStay(r) ==
  /\ run[r].pc = "settle"
  /\ LET m == run[r].job IN
       /\ HoldsLock(r, m)
       /\ message' = [message EXCEPT ![m] = Settled(m, run[r].decision)]
       /\ batch' = [batch EXCEPT ![r] = @ \ {m}]
  /\ UNCHANGED <<world, deliveries, holder, run, faults>>

\* complete_message, dead_letter_message or abandon_message.
Settle(r) ==
  /\ run[r].pc = "settle"
  /\ LET m == run[r].job IN
       /\ HoldsLock(r, m)
       /\ message' = [message EXCEPT ![m] = Settled(m, run[r].decision)]
       /\ batch' = [batch EXCEPT ![r] = @ \ {m}]
  /\ run' = [run EXCEPT ![r] = Idle]
  /\ UNCHANGED <<world, deliveries, holder, faults>>

\* The broker does not accept the settlement of a message whose lock is lost.
SettleTooLate(r) ==
  /\ run[r].pc = "settle"
  /\ ~HoldsLock(r, run[r].job)
  /\ Raise(r)
  /\ UNCHANGED <<world, broker, faults>>

\* A settlement that fails may have been done.
SettleFails(r) ==
  /\ run[r].pc = "settle"
  /\ Fault
  /\ Raise(r)
  /\ LET m == run[r].job IN
       \/ UNCHANGED message
       \/ HoldsLock(r, m) /\ message' = [message EXCEPT ![m] = Settled(m, run[r].decision)]
  /\ UNCHANGED <<world, deliveries, holder>>

Respond(c) ==
  /\ run[c].pc = "settle"
  /\ run' = [run EXCEPT ![c] = Dead]
  /\ UNCHANGED <<world, broker, batch, faults>>

\* A replica is stopped, or its container crashes, and another one takes its
\* place; its calls are cut off.  lifespan cancels the consumer task where it
\* stands, and a CancelledError passes every except clause above.
Crash(r) ==
  /\ run[r] # Idle \/ batch[r] # {}
  /\ Fault
  /\ run' = [run EXCEPT ![r] = Idle]
  /\ batch' = [batch EXCEPT ![r] = {}]
  /\ UNCHANGED <<world, broker>>

CutOff(c) ==
  /\ run[c].pc # "dead"
  /\ Fault
  /\ run' = [run EXCEPT ![c] = Dead]
  /\ UNCHANGED <<world, broker, batch>>

-----------------------------------------------------------------------------
ProcessDocument(x) ==
  \/ Begin(x) \/ RunPipeline(x) \/ PostInventory(x) \/ WriteResult(x)
  \/ SendHitlMessage(x) \/ WriteFailed(x)

Consume(r) ==
  Receive(r) \/ ProcessDocument(r) \/ BeginMalformed(r) \/ Settle(r) \/ SettleTooLate(r)

Failures ==
  \/ \E x \in Runner : BeginFails(x) \/ FailInTry(x) \/ WriteFailedFails(x)
  \/ \E r \in Replica : SettleFails(r) \/ Crash(r)
  \/ \E c \in ManualCall : CutOff(c)
  \/ \E m \in Message : ExpireHeld(m)

Next ==
  \/ \E r \in Replica : Consume(r)
  \/ \E c \in ManualCall : ProcessDocument(c) \/ Respond(c)
  \/ \E m \in Message : ExpireAbandoned(m)
  \/ Failures

Spec == Init /\ [][Next]_vars

\* A consumer task that lives polls its queue and finishes its awaits, and the
\* broker ends the locks nobody will settle.
Fairness ==
  /\ \A r \in Replica : WF_vars(Consume(r))
  /\ \A m \in Message : WF_vars(ExpireAbandoned(m))

FairSpec == Spec /\ Fairness

-----------------------------------------------------------------------------
(* Properties.                                                             *)

Active(x) == run[x].pc \notin {"idle", "dead"}
Jobs(d) == {j \in Job : Target[j] = d}
Attempts(j) == IF j \in Message THEN deliveries[j] ELSE IF run[j] = Idle THEN 0 ELSE 1

\* Types, and where a job, a decision and a lock can be.
TypeOK ==
  /\ record \in [Albaran -> Document]
  /\ message \in [Message -> {"queued", "locked", "completed", "dead_lettered", "given_up"}]
  /\ deliveries \in [Message -> Nat]
  /\ holder \in [Message -> Replica \cup {None}]
  /\ \A m \in Message : message[m] = "locked" => holder[m] \in Replica
  /\ batch \in [Replica -> SUBSET Message]
  /\ run \in [Runner -> [pc : {"idle", "pipeline", "post", "write", "handoff", "fail",
                               "settle", "dead"},
                         job : Job \cup {None},
                         decision : RoutingDecision \cup {None}]]
  /\ \A x \in Runner : Active(x) => run[x].job \in Startable(x)
  /\ handoffs \in [Albaran -> Nat]
  /\ receipts \in [Albaran -> Nat]
  /\ faults \in Nat

\* A document is not left behind: once every message about it has left the
\* queue and no run about it is under way, its outcome is recorded, whatever
\* runs crashed, failed, crossed or were cut short.  The exception is stated: a
\* document one of whose messages the broker gave up, after maxDeliveryCount
\* deliveries that all came to nothing, may stay in "processing" for ever.
\* What handle_message dead-letters has no such excuse.
NoStrandedDocument ==
  \A d \in Albaran :
    /\ Jobs(d) \cap Message # {}
    /\ \A m \in Jobs(d) \cap Message : message[m] \notin {"queued", "locked"}
    /\ \A x \in Runner : Active(x) => Subject(x) # d
    => \/ record[d].status \in OutcomeStatus
       \/ \E m \in Jobs(d) \cap Message : message[m] = "given_up"

\* A document does not wait for a review nobody was told of: while it is
\* hitl_pending and was never handed over, a run of it is about to do so, or a
\* message of it is still in the queue and will be delivered again, or the
\* broker gave one up: the hand-over lost on the last delivery stays lost.
NoLostHandoff ==
  \A d \in Albaran :
    record[d].status = "hitl_pending" /\ handoffs[d] = 0 =>
      \/ \E x \in Runner : Active(x) /\ Subject(x) = d
      \/ \E m \in Message : Target[m] = d /\ message[m] \in {"queued", "locked", "given_up"}

\* Retries multiply postings, but not without limit: a document is posted at
\* most once for each delivery of a message about it and each call.
ReceiptsBounded ==
  \A d \in Albaran :
    receipts[d] <= SumFunctionOnSet([j \in Job |-> Attempts(j)], Jobs(d))

\* A message that fails every time is dead-lettered at its last attempt: each
\* delivery beyond the limit takes a fault that cut an attempt short.
RetryLimit ==
  \A m \in Message : deliveries[m] <= MaxDeliveryAttempts + 1 - FirstCount + faults

\* While some consumer task lives, every message is completed or dead-lettered.
EveryMessageSettles ==
  \A m \in Message : <>[](message[m] \notin {"queued", "locked"})

\* The contract of the queue and its consumers.
Progress(m) ==
  IF message[m] # "locked" THEN "none"
  ELSE LET attempt == run[holder[m]] IN
       IF attempt.job # m THEN "none"
       ELSE CASE attempt.pc = "handoff" -> "review"
              [] attempt.pc = "settle" ->
                   IF attempt.decision = "failed" THEN "failure" ELSE "recorded"
              [] OTHER -> "none"

MessageState(m) ==
  CASE message[m] = "queued"        -> "waiting"
    [] message[m] = "locked"        -> "taken"
    [] message[m] = "completed"     -> "done"
    [] message[m] \in {"dead_lettered", "given_up"} -> "given_up"

Contract == INSTANCE AtLeastOnce WITH
  Outcome     <- OutcomeStatus,
  MaxAttempts <- MaxDeliveryAttempts + 1 - FirstCount,
  doc         <- [d \in Albaran |-> record[d].status],
  reviews     <- handoffs,
  state       <- [m \in Message |-> MessageState(m)],
  attempts    <- deliveries,
  progress    <- [m \in Message |-> Progress(m)]

\* As long as no lock runs out under its holder, and but for manual calls, the
\* consumers implement the contract.
KeepsContract == Contract!Spec
=============================================================================
