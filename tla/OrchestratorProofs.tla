-------------------------- MODULE OrchestratorProofs --------------------------
(***************************************************************************)
(* Proofs about Orchestrator, for any messages, bodies, replicas, limits   *)
(* and faults.                                                             *)
(*                                                                         *)
(* A document without an outcome has a message that is still open: in the  *)
(* queue with nobody about to settle it, or given up by the broker.  That  *)
(* is inductive because, without lapsing locks and manual calls, whoever   *)
(* is at work on a message holds it alone, and settles it only after its   *)
(* own write.  The broker gives up nothing while the faults are few.       *)
(* The same two facts show that every step is one of the contract's.       *)
(*                                                                         *)
(* The receipts are bounded because every delivery and every call is worth *)
(* one posting: what is posted and what may still be posted (MayPost) is   *)
(* never more than the attempts made, summed with the lemmas of            *)
(* DataTheorems.                                                           *)
(***************************************************************************)
EXTENDS Orchestrator, DataTheorems, TLAPS

Stage == {"idle", "pipeline", "post", "write", "handoff", "fail", "settle", "dead"}
RunType == [pc : Stage, job : Job \cup {None}, decision : RoutingDecision \cup {None}]
Routed == RoutingDecision \ {"failed"}

\* The run a of x fits the batches B: it is about something x may run and can
\* be read, and what it is to write was decided by the pipeline.
Fits(x, a, B) ==
  /\ a \in RunType
  /\ a.pc \notin {"idle", "dead"} =>
       a.job \in (IF x \in Replica THEN B[x] ELSE {x}) /\ a.job \in Job \ Malformed
  /\ a.pc \in {"write", "handoff"} => a.decision \in Routed

RunsFit == \A x \in Runner : Fits(x, run[x], batch)

MessageStates == {"queued", "locked", "completed", "dead_lettered", "given_up"}

Broker ==
  /\ message \in [Message -> MessageStates]
  /\ deliveries \in [Message -> Nat]
  /\ holder \in [Message -> Replica \cup {None}]
  /\ \A m \in Message : message[m] = "locked" => holder[m] \in Replica

World ==
  /\ record \in [Albaran -> Document]
  /\ handoffs \in [Albaran -> Nat]
  /\ receipts \in [Albaran -> Nat]

Sound ==
  /\ World /\ Broker /\ RunsFit
  /\ run \in [Runner -> RunType]
  /\ batch \in [Replica -> SUBSET Message]
  /\ faults \in Nat

-----------------------------------------------------------------------------
(* The operators.                                                          *)

LEMMA Decided ==
  ASSUME NEW input, NEW result \in Validated(input)
  PROVE  result.decision \in Routed
<1> SUFFICES ASSUME NEW answers \in Answers, NEW clean
             PROVE  Decision(clean, answers) \in Routed
  BY DEF Validated
<1>1. answers.triage \in TriageAnswer /\ answers.validator \in ValidatorAnswer
  BY DEF Answers
<1> QED
  BY <1>1 DEF Decision, StopsAtTriage, TriageAnswer, ValidatorAnswer, RoutingWord, Coerced,
              Routed, RoutingDecision

LEMMA Posted == ASSUME NEW answer PROVE DecisionAfterPosting(answer) \in Routed
  BY DEF DecisionAfterPosting, Routed, RoutingDecision, RoutingWord

LEMMA StatusOfDecision == ASSUME NEW decision PROVE ResolveStatus(decision) \in OutcomeStatus
  BY DEF ResolveStatus, OutcomeStatus

LEMMA Written ==
  ASSUME NEW status \in Status
  PROVE  OrchestratorDocument(status) \in Document /\ OrchestratorDocument(status).status = status
  BY DEF OrchestratorDocument, NoDocument, Document, Level

LEMMA StatusNames ==
  "processing" \in Status /\ "failed" \in OutcomeStatus /\ OutcomeStatus \subseteq Status
  BY DEF Status, OutcomeStatus

LEMMA Aimed == ASSUME NEW j \in Job \ Malformed PROVE Target[j] \in Albaran
  BY DEF Albaran

LEMMA AboutAlbaran ==
  ASSUME RunsFit, NEW x \in Runner, Active(x)
  PROVE  Subject(x) \in Albaran
<1>1. run[x].job \in Job \ Malformed
  BY DEF RunsFit, Fits, Active
<1> QED BY <1>1, Aimed DEF Subject

LEMMA Resting == ASSUME NEW x, NEW B PROVE Fits(x, Idle, B) /\ Fits(x, Dead, B)
  BY DEF Fits, Idle, Dead, RunType, Stage

LEMMA IdleIsInactive == ASSUME NEW x, run[x] = Idle \/ run[x] = Dead PROVE ~Active(x)
  BY DEF Active, Idle, Dead

LEMMA SoundInit == Init => Sound
<1> SUFFICES ASSUME Init PROVE Sound
  OBVIOUS
<1>1. NoDocument \in Document
  BY DEF NoDocument, Document, Status, Level
<1>2. World /\ Broker
  BY <1>1 DEF MessageStates, Init, World, Broker
<1>3. RunsFit
  BY Resting DEF Init, RunsFit
<1>4. Idle \in RunType
  BY DEF Idle, RunType, Stage
<1> QED BY <1>2, <1>3, <1>4 DEF Init, Sound

\* A run that is taken a stage further.
LEMMA Further ==
  ASSUME run \in [Runner -> RunType], NEW x \in Runner, NEW stage, NEW outcome,
         run' = [run EXCEPT ![x].pc = stage, ![x].decision = outcome]
  PROVE  run' = [run EXCEPT ![x] = [pc |-> stage, job |-> run[x].job, decision |-> outcome]]
<1>1. PICK old \in RunType : old = run[x]
  OBVIOUS
<1>2. [[old EXCEPT !.pc = stage] EXCEPT !.decision = outcome]
        = [pc |-> stage, job |-> old.job, decision |-> outcome]
  <2>1. PICK first \in Stage, about \in Job \cup {None}, last \in RoutingDecision \cup {None} :
          old = [pc |-> first, job |-> about, decision |-> last]
    BY DEF RunType
  <2>2. old.job = about
    BY <2>1
  <2>3. [old EXCEPT !.pc = stage] = [pc |-> stage, job |-> about, decision |-> last]
    BY <2>1
  <2>4. [[pc |-> stage, job |-> about, decision |-> last] EXCEPT !.decision = outcome]
          = [pc |-> stage, job |-> about, decision |-> outcome]
    OBVIOUS
  <2> QED BY <2>2, <2>3, <2>4
<1>3. run' = [run EXCEPT ![x] = [[old EXCEPT !.pc = stage] EXCEPT !.decision = outcome]]
  BY <1>1
<1> QED BY <1>1, <1>2, <1>3

\* A step that gives x another run, and leaves the batches alone.
LEMMA NextRun ==
  ASSUME RunsFit, run \in [Runner -> RunType], NEW x \in Runner, NEW a,
         Fits(x, a, batch), run' = [run EXCEPT ![x] = a], UNCHANGED batch
  PROVE  RunsFit' /\ run' \in [Runner -> RunType]
<1>1. a \in RunType
  BY DEF Fits
<1>2. ASSUME NEW y \in Runner PROVE Fits(y, run'[y], batch')
  BY DEF RunsFit
<1> QED BY <1>1, <1>2 DEF RunsFit

\* A run ends: its batch may shrink, nobody else's.
LEMMA RunEnds ==
  ASSUME RunsFit, run \in [Runner -> RunType], batch \in [Replica -> SUBSET Message],
         NEW x \in Runner, NEW S \in SUBSET Message,
         run' = [run EXCEPT ![x] = Idle] \/ run' = [run EXCEPT ![x] = Dead],
         batch' = IF x \in Replica THEN [batch EXCEPT ![x] = S] ELSE batch
  PROVE  /\ RunsFit' /\ run' \in [Runner -> RunType]
         /\ batch' \in [Replica -> SUBSET Message]
<1>1. Idle \in RunType /\ Dead \in RunType
  BY DEF Idle, Dead, RunType, Stage
<1>2. ASSUME NEW y \in Runner PROVE Fits(y, run'[y], batch')
  <2>1. CASE y = x
    BY <2>1, Resting
  <2>2. CASE y # x
    <3>1. run'[y] = run[y] /\ (y \in Replica => batch'[y] = batch[y])
      BY <2>2
    <3> QED BY <3>1 DEF RunsFit, Fits
  <2> QED BY <2>1, <2>2
<1> QED BY <1>1, <1>2 DEF RunsFit

LEMMA Raised ==
  ASSUME Sound, NEW x \in Runner, Raise(x)
  PROVE  RunsFit' /\ run' \in [Runner -> RunType] /\ batch' \in [Replica -> SUBSET Message]
  BY RunEnds, {} \in SUBSET Message DEF Raise, Sound

LEMMA WorldWritten ==
  ASSUME World, NEW d \in Albaran, NEW status \in Status,
         record' = [record EXCEPT ![d] = OrchestratorDocument(status)]
  PROVE  record' \in [Albaran -> Document]
  BY Written DEF World

LEMMA Counted ==
  ASSUME NEW d \in Albaran, NEW f \in [Albaran -> Nat]
  PROVE  [f EXCEPT ![d] = @ + 1] \in [Albaran -> Nat]
  OBVIOUS

-----------------------------------------------------------------------------
(* Steps of the broker, of a run, and of the end of a run.                 *)

LEMMA SoundBroker ==
  ASSUME Sound, NEW m \in Message, ExpireAbandoned(m) \/ ExpireHeld(m)
  PROVE  Sound'
<1>1. UNCHANGED <<world, deliveries, holder, batch, run>> /\ faults' \in Nat
  BY DEF ExpireAbandoned, ExpireHeld, Fault, Sound
<1>2. message' = [message EXCEPT ![m] = Unlocked(m)] /\ Unlocked(m) \in {"queued", "given_up"}
  BY DEF ExpireAbandoned, ExpireHeld, Unlocked
<1>3. Broker'
  BY <1>1, <1>2 DEF Sound, Broker, MessageStates
<1> QED BY <1>1, <1>3 DEF Sound, World, RunsFit, world

LEMMA SoundReceive == ASSUME Sound, NEW r \in Replica, Receive(r) PROVE Sound'
<1>1. PICK S \in SUBSET {m \in Message : message[m] = "queued"} :
        /\ batch' = [batch EXCEPT ![r] = S]
        /\ message' = [m \in Message |-> IF m \in S THEN "locked" ELSE message[m]]
        /\ deliveries' = [m \in Message |-> deliveries[m] + IF m \in S THEN 1 ELSE 0]
        /\ holder' = [m \in Message |-> IF m \in S THEN r ELSE holder[m]]
  BY DEF Receive
<1>2. UNCHANGED <<world, run, faults>> /\ run[r] = Idle
  BY DEF Receive
<1>3. Broker'
  BY <1>1 DEF MessageStates, Sound, Broker
<1>4. ASSUME NEW y \in Runner PROVE Fits(y, run'[y], batch')
  <2>1. CASE y = r
    BY <2>1, <1>2, Resting
  <2>2. CASE y # r
    BY <2>2, <1>1, <1>2 DEF Sound, RunsFit, Fits
  <2> QED BY <2>1, <2>2
<1>5. batch' \in [Replica -> SUBSET Message]
  BY <1>1 DEF Sound
<1> QED BY <1>2, <1>3, <1>4, <1>5 DEF Sound, World, RunsFit, world

\* The steps of a run that goes on.
LEMMA SoundBegin == ASSUME Sound, NEW x \in Runner, Begin(x) PROVE Sound'
<1>1. PICK j \in Startable(x) \ Malformed :
        /\ run' = [run EXCEPT ![x] = [pc |-> "pipeline", job |-> j, decision |-> None]]
        /\ record' = [record EXCEPT ![Target[j]] = OrchestratorDocument("processing")]
  BY DEF Begin
<1>2. UNCHANGED <<broker, batch, handoffs, receipts, faults>>
  BY DEF Begin
<1>3. j \in Job
  BY DEF Sound, Startable, Runner, Job
<1>4. Fits(x, [pc |-> "pipeline", job |-> j, decision |-> None], batch)
  BY <1>3 DEF Fits, RunType, Stage, Startable
<1>5. RunsFit' /\ run' \in [Runner -> RunType]
  BY <1>1, <1>2, <1>4, NextRun DEF Sound
<1>6. Target[j] \in Albaran
  BY <1>3, Aimed
<1>7. record' \in [Albaran -> Document]
  BY <1>1, <1>6, WorldWritten, StatusNames DEF Sound
<1> QED BY <1>2, <1>5, <1>7 DEF Sound, World, Broker, broker

LEMMA SoundPipeline == ASSUME Sound, NEW x \in Runner, RunPipeline(x) PROVE Sound'
<1>1. UNCHANGED <<world, broker, batch, faults>> /\ run[x].pc = "pipeline"
  BY DEF RunPipeline
<1>2. run[x] \in RunType /\ Fits(x, run[x], batch)
  BY DEF Sound, RunsFit
<1>3. ASSUME NEW decision \in Routed, NEW stage \in {"post", "write"},
             run' = [run EXCEPT ![x].pc = stage, ![x].decision = decision]
      PROVE  RunsFit' /\ run' \in [Runner -> RunType]
  <2> DEFINE a == [pc |-> stage, job |-> run[x].job, decision |-> decision]
  <2>1. run' = [run EXCEPT ![x] = a]
    BY <1>3, Further DEF Sound
  <2>2. Fits(x, a, batch)
    BY <1>1, <1>2 DEF Fits, RunType, Stage, Routed
  <2> HIDE DEF a
  <2> QED BY <1>1, <2>1, <2>2, NextRun DEF Sound
<1>4. ASSUME run' = [run EXCEPT ![x].pc = "fail"]
      PROVE  RunsFit' /\ run' \in [Runner -> RunType]
  <2> DEFINE a == [run[x] EXCEPT !.pc = "fail"]
  <2>1. run' = [run EXCEPT ![x] = a]
    BY <1>4 DEF Sound
  <2>2. Fits(x, a, batch)
    BY <1>1, <1>2 DEF Fits, RunType, Stage
  <2> HIDE DEF a
  <2> QED BY <1>1, <2>1, <2>2, NextRun DEF Sound
<1>5. RunsFit' /\ run' \in [Runner -> RunType]
  <2>1. \/ run' = [run EXCEPT ![x].pc = "fail"]
        \/ \E result \in Validated(PipelineInput(Request[run[x].job].metadata)) :
              run' = [run EXCEPT ![x].pc = IF result.inventory THEN "post" ELSE "write",
                                 ![x].decision = result.decision]
    BY DEF RunPipeline
  <2>2. ASSUME NEW result \in Validated(PipelineInput(Request[run[x].job].metadata)),
               run' = [run EXCEPT ![x].pc = IF result.inventory THEN "post" ELSE "write",
                                  ![x].decision = result.decision]
        PROVE  RunsFit' /\ run' \in [Runner -> RunType]
    <3>1. PICK stage \in {"post", "write"} : stage = IF result.inventory THEN "post" ELSE "write"
      OBVIOUS
    <3>2. run' = [run EXCEPT ![x].pc = stage, ![x].decision = result.decision]
      BY <2>2, <3>1
    <3> QED BY <1>3, <3>2, Decided
  <2> QED BY <2>1, <2>2, <1>4
<1> QED BY <1>1, <1>5 DEF Sound, World, Broker, world, broker

LEMMA SoundPost == ASSUME Sound, NEW x \in Runner, PostInventory(x) PROVE Sound'
<1>1. UNCHANGED <<record, handoffs, broker, batch, faults>> /\ run[x].pc = "post"
  BY DEF PostInventory
<1>2. run[x] \in RunType /\ Fits(x, run[x], batch) /\ Active(x)
  BY <1>1 DEF Sound, RunsFit, Active
<1>3. PICK answer \in PostingAnswer :
        /\ run' = [run EXCEPT ![x].pc = "write",
                              ![x].decision = DecisionAfterPosting(answer)]
        /\ Post(x) \/ UNCHANGED receipts
  BY DEF PostInventory
<1>4. PICK decision \in Routed : decision = DecisionAfterPosting(answer)
  BY Posted
<1> DEFINE a == [pc |-> "write", job |-> run[x].job, decision |-> decision]
<1>5. run' = [run EXCEPT ![x] = a]
  BY <1>3, <1>4, Further DEF Sound
<1>6. Fits(x, a, batch)
  BY <1>1, <1>2 DEF Fits, RunType, Stage, Routed
<1> HIDE DEF a
<1>7. RunsFit' /\ run' \in [Runner -> RunType]
  BY <1>1, <1>5, <1>6, NextRun DEF Sound
<1>8. receipts' \in [Albaran -> Nat]
  BY <1>2, <1>3, AboutAlbaran, Counted DEF Post, Sound, World
<1> QED BY <1>1, <1>7, <1>8 DEF Sound, World, Broker, broker

LEMMA SoundWrite == ASSUME Sound, NEW x \in Runner, WriteResult(x) PROVE Sound'
<1>1. UNCHANGED <<broker, batch, handoffs, receipts, faults>> /\ run[x].pc = "write"
  BY DEF WriteResult
<1>2. run[x] \in RunType /\ Fits(x, run[x], batch) /\ Active(x)
  BY <1>1 DEF Sound, RunsFit, Active
<1>3. PICK status \in OutcomeStatus :
        /\ Write(x, status)
        /\ run' = [run EXCEPT ![x].pc = IF status = "hitl_pending" THEN "handoff" ELSE "settle"]
  BY StatusOfDecision DEF WriteResult
<1> DEFINE a == [run[x] EXCEPT !.pc = IF status = "hitl_pending" THEN "handoff" ELSE "settle"]
<1>4. run' = [run EXCEPT ![x] = a]
  BY <1>3 DEF Sound
<1>5. Fits(x, a, batch)
  BY <1>1, <1>2 DEF Fits, RunType, Stage
<1> HIDE DEF a
<1>6. RunsFit' /\ run' \in [Runner -> RunType]
  BY <1>1, <1>4, <1>5, NextRun DEF Sound
<1>7. record' \in [Albaran -> Document]
  BY <1>2, <1>3, AboutAlbaran, WorldWritten, StatusNames DEF Write, Sound
<1> QED BY <1>1, <1>6, <1>7 DEF Sound, World, Broker, broker

LEMMA SoundSend == ASSUME Sound, NEW x \in Runner, SendHitlMessage(x) PROVE Sound'
<1>1. UNCHANGED <<broker, batch, record, receipts, faults>> /\ run[x].pc = "handoff"
  BY DEF SendHitlMessage
<1>2. run[x] \in RunType /\ Fits(x, run[x], batch) /\ Active(x)
  BY <1>1 DEF Sound, RunsFit, Active
<1> DEFINE a == [run[x] EXCEPT !.pc = "settle"]
<1>3. run' = [run EXCEPT ![x] = a]
  BY DEF SendHitlMessage, Sound
<1>4. Fits(x, a, batch)
  BY <1>1, <1>2 DEF Fits, RunType, Stage
<1> HIDE DEF a
<1>5. RunsFit' /\ run' \in [Runner -> RunType]
  BY <1>1, <1>3, <1>4, NextRun DEF Sound
<1>6. handoffs' \in [Albaran -> Nat]
  BY <1>2, AboutAlbaran, Counted DEF SendHitlMessage, HandOver, Sound, World
<1> QED BY <1>1, <1>5, <1>6 DEF Sound, World, Broker, broker

LEMMA SoundFail == ASSUME Sound, NEW x \in Runner, FailInTry(x) \/ WriteFailed(x) PROVE Sound'
<1>1. /\ UNCHANGED <<broker, batch>> /\ faults' \in Nat
      /\ run[x].pc \in {"pipeline", "post", "write", "handoff", "fail"}
  BY DEF FailInTry, WriteFailed, Fault, Sound
<1>2. run[x] \in RunType /\ Fits(x, run[x], batch) /\ Active(x)
  BY <1>1 DEF Sound, RunsFit, Active
<1>3. ASSUME NEW pc \in {"fail", "settle"}, NEW decision \in {None, "failed"},
             run' = [run EXCEPT ![x].pc = pc, ![x].decision = decision]
      PROVE  RunsFit' /\ run' \in [Runner -> RunType]
  <2> DEFINE a == [pc |-> pc, job |-> run[x].job, decision |-> decision]
  <2>1. run' = [run EXCEPT ![x] = a]
    BY <1>3, Further DEF Sound
  <2>2. Fits(x, a, batch)
    BY <1>1, <1>2 DEF Fits, RunType, Stage, RoutingDecision
  <2> HIDE DEF a
  <2> QED BY <1>1, <2>1, <2>2, NextRun DEF Sound
<1>4. RunsFit' /\ run' \in [Runner -> RunType]
  BY <1>3 DEF FailInTry, WriteFailed
<1>5. record' \in [Albaran -> Document]
  <2>1. UNCHANGED record \/ \E status \in OutcomeStatus : Write(x, status)
    BY StatusOfDecision, StatusNames DEF FailInTry, WriteFailed, world
  <2> QED BY <1>2, <2>1, AboutAlbaran, WorldWritten, StatusNames DEF Write, Sound, World
<1>6. handoffs' \in [Albaran -> Nat] /\ receipts' \in [Albaran -> Nat]
  <2>1. UNCHANGED handoffs \/ HandOver(x)
    BY DEF FailInTry, WriteFailed, world
  <2>2. UNCHANGED receipts \/ Post(x)
    BY DEF FailInTry, WriteFailed, world
  <2> QED BY <1>2, <2>1, <2>2, AboutAlbaran, Counted DEF HandOver, Post, Sound, World
<1> QED BY <1>1, <1>4, <1>5, <1>6 DEF Sound, World, Broker, broker

\* The steps that end a run.
LEMMA SoundRaise ==
  ASSUME Sound, NEW x \in Runner, BeginFails(x) \/ WriteFailedFails(x)
  PROVE  Sound'
<1>1. UNCHANGED <<broker, handoffs, receipts>> /\ faults' \in Nat /\ Raise(x)
  BY DEF BeginFails, WriteFailedFails, Fault, Sound
<1>2. record' \in [Albaran -> Document]
  <2>1. CASE BeginFails(x)
    <3>1. PICK j \in Startable(x) \ Malformed :
            record' \in {record, [record EXCEPT ![Target[j]] = OrchestratorDocument("processing")]}
      BY <2>1 DEF BeginFails
    <3>2. j \in Job
      BY DEF Sound, Startable, Runner, Job
    <3> QED BY <3>1, <3>2, Aimed, WorldWritten, StatusNames DEF Sound, World
  <2>2. CASE WriteFailedFails(x)
    <3>1. Active(x)
      BY <2>2 DEF WriteFailedFails, Active
    <3>2. UNCHANGED record \/ Write(x, "failed")
      BY <2>2 DEF WriteFailedFails
    <3> QED BY <3>1, <3>2, AboutAlbaran, WorldWritten, StatusNames DEF Write, Sound, World
  <2> QED BY <2>1, <2>2
<1> QED BY <1>1, <1>2, Raised DEF Sound, World, Broker, broker

LEMMA SettledType ==
  ASSUME NEW m, NEW decision
  PROVE  Settled(m, decision) \in MessageStates \ {"locked"}
  BY DEF Settled, Unlocked, MessageStates

LEMMA SoundSettle ==
  ASSUME Sound, NEW r \in Replica,
         Settle(r) \/ SettleFails(r) \/ SettleTooLate(r) \/ BeginMalformed(r)
  PROVE  Sound'
<1>1. UNCHANGED <<world, deliveries, holder>> /\ faults' \in Nat /\ r \in Runner
  BY DEF Settle, SettleFails, SettleTooLate, BeginMalformed, Fault, Sound, broker, Runner
<1>2. RunsFit' /\ run' \in [Runner -> RunType] /\ batch' \in [Replica -> SUBSET Message]
  <2>1. CASE Settle(r)
    <3>1. batch' = [batch EXCEPT ![r] = batch[r] \ {run[r].job}] /\ run' = [run EXCEPT ![r] = Idle]
      BY <2>1 DEF Settle
    <3>2. batch[r] \ {run[r].job} \in SUBSET Message
      BY DEF Sound
    <3> QED BY <1>1, <3>1, <3>2, RunEnds DEF Sound
  <2>2. CASE Raise(r)
    BY <1>1, <2>2, Raised
  <2> QED BY <2>1, <2>2 DEF SettleFails, SettleTooLate, BeginMalformed
<1>3. \/ UNCHANGED message
      \/ message' = [message EXCEPT ![run[r].job] = Settled(run[r].job, run[r].decision)]
  BY DEF Settle, SettleFails, SettleTooLate, BeginMalformed, broker
<1>4. Broker'
  BY <1>1, <1>3, SettledType DEF Sound, Broker
<1> QED BY <1>1, <1>2, <1>4 DEF Sound, World, world

LEMMA SoundCrash == ASSUME Sound, NEW r \in Replica, Crash(r) PROVE Sound'
<1>1. /\ run' = [run EXCEPT ![r] = Idle] /\ batch' = [batch EXCEPT ![r] = {}]
      /\ r \in Runner /\ {} \in SUBSET Message
  BY DEF Crash, Runner
<1>2. RunsFit' /\ run' \in [Runner -> RunType] /\ batch' \in [Replica -> SUBSET Message]
  BY <1>1, RunEnds DEF Sound
<1> QED BY <1>2 DEF Crash, Fault, Sound, World, Broker, world, broker

LEMMA SoundCall == ASSUME Sound, NEW c \in ManualCall, CutOff(c) \/ Respond(c) PROVE Sound'
<1>1. /\ run' = [run EXCEPT ![c] = Dead] /\ UNCHANGED <<batch, world, broker>>
      /\ c \in Runner /\ c \notin Replica /\ {} \in SUBSET Message
  BY OrchestratorAssumption DEF CutOff, Respond, Runner
<1>2. RunsFit' /\ run' \in [Runner -> RunType] /\ batch' \in [Replica -> SUBSET Message]
  BY <1>1, RunEnds DEF Sound
<1>3. faults' \in Nat
  BY DEF CutOff, Respond, Fault, Sound
<1> QED BY <1>1, <1>2, <1>3 DEF Sound, World, Broker, world, broker

LEMMA SoundStep == Sound /\ [Next]_vars => Sound'
<1> SUFFICES ASSUME Sound, [Next]_vars PROVE Sound'
  OBVIOUS
<1>1. ASSUME NEW x \in Runner, ProcessDocument(x) PROVE Sound'
  BY <1>1, SoundBegin, SoundPipeline, SoundPost, SoundWrite, SoundSend, SoundFail
     DEF ProcessDocument
<1>2. ASSUME NEW r \in Replica, Consume(r) PROVE Sound'
  BY <1>1, <1>2, SoundReceive, SoundSettle DEF Consume, Runner
<1>3. CASE Failures
  BY <1>3, SoundRaise, SoundFail, SoundSettle, SoundCrash, SoundCall, SoundBroker DEF Failures
<1>4. CASE UNCHANGED vars
  BY <1>4 DEF vars, Sound, World, Broker, RunsFit
<1> QED BY <1>1, <1>2, <1>3, <1>4, SoundCrash, SoundCall, SoundBroker DEF Next, Runner

LEMMA AlwaysSound == Spec => []Sound
  BY SoundInit, SoundStep, PTL DEF Spec

\* The state of the queue and its consumers always has its types; a lock has a
\* holder, and a run under way is about a message of its consumer's batch, or is
\* the call's own.
THEOREM OrchestratorTypes == Spec => []TypeOK
<1>1. Sound => TypeOK
  <2> SUFFICES ASSUME Sound PROVE TypeOK
    OBVIOUS
  <2>1. \A x \in Runner : Active(x) => run[x].job \in Startable(x)
    BY DEF Sound, RunsFit, Fits, Active, Startable
  <2> QED BY <2>1 DEF MessageStates, Sound, World, Broker, RunType, Stage, TypeOK
<1> QED BY <1>1, AlwaysSound, PTL

-----------------------------------------------------------------------------
(* Without lapsing locks and manual calls.                                 *)

\* A lock that runs out under its holder, or a call that no message stands
\* for, may leave behind what nothing is to settle any more.
Undisturbed == ~LocksLapse /\ ManualCall = {}

Held == \A r \in Replica : \A m \in batch[r] : message[m] = "locked" /\ holder[m] = r

\* What a message still has to see done: its outcome recorded, or its review
\* handed over.
AtReview(r, m) == run[r].job = m /\ run[r].pc = "handoff"
AtEnd(r, m) == run[r].job = m /\ run[r].pc = "settle"

Unhanded(m) ==
  /\ message[m] \in {"queued", "locked", "given_up"}
  /\ \A r \in Replica : ~AtEnd(r, m)
Open(m) == Unhanded(m) /\ \A r \in Replica : ~AtReview(r, m)

OutcomeIsDue ==
  \A d \in Albaran : record[d].status \notin OutcomeStatus =>
    \E m \in Message : Target[m] = d /\ Open(m)

ReviewIsDue ==
  \A d \in Albaran : record[d].status = "hitl_pending" /\ handoffs[d] = 0 =>
    \E m \in Message : Target[m] = d /\ Unhanded(m)

Steady == Sound /\ Held /\ OutcomeIsDue /\ ReviewIsDue

LEMMA Replicas == ASSUME Undisturbed PROVE Runner = Replica /\ Job = Message
  BY DEF Undisturbed, Runner, Job

LEMMA SteadyInit == ASSUME Undisturbed, Init PROVE Steady
<1>1. Sound /\ Held
  BY SoundInit DEF Init, Held
<1>2. ASSUME NEW m \in Message PROVE Open(m)
  BY DEF Init, Open, Unhanded, AtReview, AtEnd, Idle, Runner
<1>3. ASSUME NEW d \in Albaran PROVE \E m \in Message : Target[m] = d /\ Open(m)
  BY <1>2, Replicas DEF Albaran
<1> QED BY <1>1, <1>3 DEF Steady, OutcomeIsDue, ReviewIsDue, Open

LEMMA HeldStep == ASSUME Undisturbed, Sound, Held, [Next]_vars PROVE Held'
<1>1. CASE UNCHANGED <<batch, message, holder>>
  BY <1>1 DEF Held
<1>2. ASSUME NEW r \in Replica, Receive(r) PROVE Held'
  <2>1. PICK S \in SUBSET {m \in Message : message[m] = "queued"} :
          /\ batch' = [batch EXCEPT ![r] = S]
          /\ message' = [m \in Message |-> IF m \in S THEN "locked" ELSE message[m]]
          /\ holder' = [m \in Message |-> IF m \in S THEN r ELSE holder[m]]
    BY <1>2 DEF Receive
  <2> QED BY <2>1 DEF Held, Sound
<1>3. ASSUME NEW m \in Message, ExpireAbandoned(m) PROVE Held'
  BY <1>3 DEF ExpireAbandoned, Held, Sound, Broker
<1>4. ASSUME NEW r \in Replica, Settle(r) PROVE Held'
  BY <1>4 DEF Settle, HoldsLock, Held, Sound, Broker
<1>5. ASSUME NEW r \in Replica, batch' = [batch EXCEPT ![r] = {}], UNCHANGED holder,
             \/ UNCHANGED message
             \/ /\ HoldsLock(r, run[r].job)
                /\ \E s : message' = [message EXCEPT ![run[r].job] = s]
      PROVE  Held'
  BY <1>5 DEF HoldsLock, Held, Sound, Broker
<1>6. ASSUME NEW r \in Replica, \/ SettleFails(r) \/ SettleTooLate(r) \/ BeginMalformed(r)
                                 \/ Crash(r) \/ BeginFails(r) \/ WriteFailedFails(r)
      PROVE  Held'
  BY <1>5, <1>6 DEF SettleFails, SettleTooLate, BeginMalformed, Crash, BeginFails,
                    WriteFailedFails, Raise, broker
<1>7. ASSUME NEW r \in Replica, ProcessDocument(r) \/ FailInTry(r)
      PROVE  UNCHANGED <<batch, message, holder>>
  BY <1>7 DEF ProcessDocument, Begin, RunPipeline, PostInventory, WriteResult, SendHitlMessage,
              WriteFailed, FailInTry, broker
<1>8. ASSUME NEW m \in Message, ExpireHeld(m) PROVE Held'
  BY <1>8 DEF ExpireHeld, Undisturbed
<1> QED BY <1>1, <1>2, <1>3, <1>4, <1>6, <1>7, <1>8, Replicas
        DEF Undisturbed, Next, Consume, Failures, vars

\* A message in a batch is locked, and only its consumer is at work on it.
LEMMA Alone ==
  ASSUME Undisturbed, Sound, Held, NEW r \in Replica, NEW m \in batch[r]
  PROVE  /\ m \in Message /\ message[m] = "locked" /\ holder[m] = r
         /\ \A q \in Replica : Active(q) /\ run[q].job = m => q = r
<1>1. ASSUME NEW q \in Replica, Active(q), run[q].job = m PROVE q = r
  <2>1. m \in batch[q]
    BY <1>1 DEF Active, Sound, RunsFit, Fits, Runner
  <2> QED BY <2>1 DEF Held
<1> QED BY <1>1 DEF Held, Sound

LEMMA AtWork ==
  ASSUME Undisturbed, Sound, Held, NEW r \in Replica, Active(r)
  PROVE  /\ run[r].job \in batch[r] /\ run[r].job \in Message \ Malformed
         /\ Subject(r) = Target[run[r].job] /\ Subject(r) \in Albaran
<1>1. run[r].job \in batch[r] /\ run[r].job \in Job \ Malformed /\ r \in Runner
  BY DEF Active, Sound, RunsFit, Fits, Runner
<1> QED BY <1>1, Replicas, AboutAlbaran DEF Subject, Sound

\* What a step has to keep.
LEMMA OutcomeRule ==
  ASSUME OutcomeIsDue,
         \A d \in Albaran :
           \/ record'[d].status \in OutcomeStatus
           \/ \E m \in Message : Target[m] = d /\ Open(m)'
           \/ /\ record'[d].status = record[d].status
              /\ \A m \in Message : Target[m] = d /\ Open(m) => Open(m)'
  PROVE  OutcomeIsDue'
  BY DEF OutcomeIsDue

LEMMA ReviewRule ==
  ASSUME ReviewIsDue,
         \A d \in Albaran :
           \/ record'[d].status # "hitl_pending" \/ handoffs'[d] # 0
           \/ \E m \in Message : Target[m] = d /\ Unhanded(m)'
           \/ /\ record'[d].status = record[d].status /\ handoffs[d] = 0
              /\ \A m \in Message : Target[m] = d /\ Unhanded(m) => Unhanded(m)'
  PROVE  ReviewIsDue'
  BY DEF ReviewIsDue

LEMMA StaysOpen ==
  ASSUME NEW m \in Message,
         \/ message'[m] = message[m]
         \/ message'[m] \in {"queued", "locked", "given_up"},
         \A r \in Replica : \/ run'[r] = run[r]
                            \/ run'[r].pc \notin {"handoff", "settle"}
                            \/ run'[r].job # m
  PROVE  (Open(m) => Open(m)') /\ (Unhanded(m) => Unhanded(m)')
  BY DEF Open, Unhanded, AtReview, AtEnd

Due == OutcomeIsDue /\ ReviewIsDue

\* A step that writes no document and leaves every message as open as it was.
LEMMA QuietStep ==
  ASSUME Due, UNCHANGED record,
         UNCHANGED handoffs \/ \A d \in Albaran : handoffs'[d] = 0 => handoffs[d] = 0,
         \A m \in Message : (Open(m) => Open(m)') /\ (Unhanded(m) => Unhanded(m)')
  PROVE  Due'
<1>1. OutcomeIsDue'
  BY OutcomeRule DEF Due
<1>2. ReviewIsDue'
  BY DEF Due, ReviewIsDue
<1> QED BY <1>1, <1>2 DEF Due

\* A write about a message that the step leaves open.
LEMMA OpenWrite ==
  ASSUME Sound, Due, UNCHANGED handoffs, NEW j \in Message, NEW status \in Status,
         record' = [record EXCEPT ![Target[j]] = OrchestratorDocument(status)],
         Open(j)',
         \A m \in Message : (Open(m) => Open(m)') /\ (Unhanded(m) => Unhanded(m)')
  PROVE  Due'
<1>1. \A d \in Albaran : d # Target[j] => record'[d] = record[d]
  BY DEF Sound, World
<1>2. OutcomeIsDue'
  BY <1>1, OutcomeRule DEF Due
<1>3. Unhanded(j)'
  BY DEF Open
<1>4. ReviewIsDue'
  BY <1>1, <1>3, ReviewRule DEF Due
<1> QED BY <1>2, <1>4 DEF Due

\* A message whose consumer has not reached the end of its run is open.
LEMMA StillOpen ==
  ASSUME Undisturbed, Sound, Held, NEW r \in Replica, NEW m \in batch[r],
         UNCHANGED message,
         \A q \in Replica : q # r => run'[q] = run[q],
         run'[r].pc \notin {"handoff", "settle"}
  PROVE  Open(m)'
<1>1. message'[m] = "locked"
  BY Alone
<1>2. ASSUME NEW q \in Replica, run[q].job = m, run[q].pc \in {"handoff", "settle"} PROVE q = r
  BY <1>2, Alone DEF Active
<1> QED BY <1>1, <1>2 DEF Open, Unhanded, AtReview, AtEnd

LEMMA DueBroker ==
  ASSUME Undisturbed, Sound, Held, Due,
         \/ \E r \in Replica : Receive(r)
         \/ \E m \in Message : ExpireAbandoned(m)
  PROVE  Due'
<1>1. UNCHANGED <<record, handoffs, run>>
  BY DEF Receive, ExpireAbandoned, world
<1>2. \A m \in Message : \/ message'[m] = message[m]
                           \/ message'[m] \in {"queued", "locked", "given_up"}
  BY DEF Receive, ExpireAbandoned, Unlocked, Sound, Broker
<1> QED BY <1>1, <1>2, StaysOpen, QuietStep

\* Where the steps of r leave the runs.
LEMMA EarlyRun ==
  ASSUME Sound, NEW r \in Replica, Begin(r) \/ RunPipeline(r) \/ PostInventory(r)
  PROVE  /\ \A q \in Replica : q # r => run'[q] = run[q]
         /\ run'[r].pc \notin {"handoff", "settle"}
<1>1. r \in Runner /\ run[r] \in RunType
  BY DEF Sound, Runner
<1>2. CASE Begin(r)
  BY <1>1, <1>2 DEF Begin, Sound
<1>3. CASE RunPipeline(r)
  <2>1. \/ run' = [run EXCEPT ![r].pc = "fail"]
        \/ \E outcome, stage :
             /\ run' = [run EXCEPT ![r].pc = stage, ![r].decision = outcome]
             /\ stage \in {"post", "write"}
    BY <1>3 DEF RunPipeline
  <2>2. CASE run' = [run EXCEPT ![r].pc = "fail"]
    BY <1>1, <2>2 DEF Sound, RunType
  <2>3. ASSUME NEW outcome, NEW stage \in {"post", "write"},
               run' = [run EXCEPT ![r].pc = stage, ![r].decision = outcome]
        PROVE  /\ \A q \in Replica : q # r => run'[q] = run[q]
               /\ run'[r].pc \notin {"handoff", "settle"}
    <3>1. run' = [run EXCEPT ![r] = [pc |-> stage, job |-> run[r].job, decision |-> outcome]]
      BY <1>1, <2>3, Further DEF Sound
    <3> QED BY <1>1, <3>1 DEF Sound, Runner
  <2> QED BY <2>1, <2>2, <2>3
<1>4. CASE PostInventory(r)
  <2>1. PICK outcome : run' = [run EXCEPT ![r].pc = "write", ![r].decision = outcome]
    BY <1>4 DEF PostInventory
  <2>2. run' = [run EXCEPT ![r] = [pc |-> "write", job |-> run[r].job, decision |-> outcome]]
    BY <1>1, <2>1, Further DEF Sound
  <2> QED BY <1>1, <2>2 DEF Sound, Runner
<1> QED BY <1>2, <1>3, <1>4

LEMMA FailRun ==
  ASSUME Sound, NEW r \in Replica, FailInTry(r) \/ WriteFailed(r)
  PROVE  /\ \A q \in Replica : q # r => run'[q] = run[q]
         /\ run'[r].job = run[r].job
         /\ FailInTry(r) => run'[r].pc = "fail"
         /\ WriteFailed(r) => run'[r].pc = "settle" /\ run'[r].decision = "failed"
         /\ run'[r].pc \notin {"handoff", "settle"} \/ run'[r].decision = "failed"
<1>1. r \in Runner
  BY DEF Runner
<1>2. ASSUME NEW stage, NEW outcome,
             run' = [run EXCEPT ![r].pc = stage, ![r].decision = outcome]
      PROVE  /\ \A q \in Replica : q # r => run'[q] = run[q]
             /\ run'[r].job = run[r].job /\ run'[r].pc = stage /\ run'[r].decision = outcome
  <2>1. run' = [run EXCEPT ![r] = [pc |-> stage, job |-> run[r].job, decision |-> outcome]]
    BY <1>1, <1>2, Further DEF Sound
  <2> QED BY <1>1, <2>1 DEF Sound, Runner
<1>3. FailInTry(r) => run' = [run EXCEPT ![r].pc = "fail", ![r].decision = None]
  BY DEF FailInTry
<1>4. WriteFailed(r) => run' = [run EXCEPT ![r].pc = "settle", ![r].decision = "failed"]
  BY DEF WriteFailed
<1>5. FailInTry(r) => run[r].pc # "fail"
  BY DEF FailInTry
<1> QED BY <1>2, <1>3, <1>4, <1>5 DEF WriteFailed

LEMMA WriteRun ==
  ASSUME Sound, NEW r \in Replica, WriteResult(r)
  PROVE  \E status \in OutcomeStatus :
           /\ status = ResolveStatus(run[r].decision)
           /\ Write(r, status)
           /\ \A q \in Replica : q # r => run'[q] = run[q]
           /\ run'[r].job = run[r].job /\ run'[r].decision = run[r].decision
           /\ run'[r].pc = IF status = "hitl_pending" THEN "handoff" ELSE "settle"
<1>1. PICK status \in OutcomeStatus :
        /\ status = ResolveStatus(run[r].decision)
        /\ Write(r, status)
        /\ run' = [run EXCEPT ![r].pc = IF status = "hitl_pending" THEN "handoff" ELSE "settle"]
  BY StatusOfDecision DEF WriteResult
<1>2. run[r] \in RunType /\ r \in Runner
  BY DEF Sound, Runner
<1> QED BY <1>1, <1>2 DEF Sound, RunType, Runner

LEMMA SendRun ==
  ASSUME Sound, NEW r \in Replica, SendHitlMessage(r)
  PROVE  /\ \A q \in Replica : q # r => run'[q] = run[q]
         /\ run'[r].job = run[r].job /\ run'[r].decision = run[r].decision
         /\ run'[r].pc = "settle"
<1>1. run[r] \in RunType /\ r \in Runner
  BY DEF Sound, Runner
<1> QED BY <1>1 DEF SendHitlMessage, Sound, RunType, Runner

\* Steps of r before the outcome is written.
LEMMA DueEarly ==
  ASSUME Undisturbed, Sound, Held, Due, NEW r \in Replica,
         Begin(r) \/ RunPipeline(r) \/ PostInventory(r)
  PROVE  Due'
<1>1. UNCHANGED <<message, handoffs>>
  BY DEF Begin, RunPipeline, PostInventory, broker, world
<1>2. /\ \A q \in Replica : q # r => run'[q] = run[q]
      /\ run'[r].pc \notin {"handoff", "settle"}
  BY EarlyRun
<1>3. \A m \in Message : (Open(m) => Open(m)') /\ (Unhanded(m) => Unhanded(m)')
  BY <1>1, <1>2, StaysOpen
<1>4. CASE Begin(r)
  <2>1. PICK j \in batch[r] : record' = [record EXCEPT ![Target[j]] = OrchestratorDocument("processing")]
    BY <1>4 DEF Begin, Startable
  <2>2. Open(j)'
    BY <1>1, <1>2, StillOpen
  <2> QED BY <1>1, <1>3, <2>1, <2>2, OpenWrite, StatusNames DEF Sound
<1>5. CASE RunPipeline(r) \/ PostInventory(r)
  BY <1>3, <1>5, QuietStep DEF RunPipeline, PostInventory, world
<1> QED BY <1>4, <1>5

LEMMA DueWrite ==
  ASSUME Undisturbed, Sound, Held, Due, NEW r \in Replica, WriteResult(r)
  PROVE  Due'
<1>1. UNCHANGED <<message, handoffs>> /\ run[r].pc = "write" /\ r \in Runner
  BY DEF WriteResult, broker, Runner
<1>2. PICK status \in OutcomeStatus :
        /\ Write(r, status)
        /\ \A q \in Replica : q # r => run'[q] = run[q]
        /\ run'[r].job = run[r].job
        /\ run'[r].pc = IF status = "hitl_pending" THEN "handoff" ELSE "settle"
  BY WriteRun
<1>3. PICK j \in Message : j = run[r].job /\ j \in batch[r] /\ Subject(r) = Target[j]
  BY <1>1, AtWork DEF Active
<1>4. \A d \in Albaran : d # Target[j] => record'[d] = record[d]
  BY <1>2, <1>3 DEF Write, Sound, World
<1>5. record'[Target[j]].status = status
  BY <1>1, <1>2, <1>3, AtWork, Written, StatusNames DEF Write, Sound, World, Active
<1>6. /\ \A q \in Replica : q # r => run'[q] = run[q]
      /\ run'[r].job = j /\ run'[r].pc = IF status = "hitl_pending" THEN "handoff" ELSE "settle"
  BY <1>2, <1>3
<1>7. \A m \in Message \ {j} : (Open(m) => Open(m)') /\ (Unhanded(m) => Unhanded(m)')
  BY <1>1, <1>6, StaysOpen
<1>8. status = "hitl_pending" => Unhanded(j)'
  <2>1. \A q \in Replica : Active(q) /\ run[q].job = j => q = r
    BY <1>3, Alone
  <2>2. message'[j] = "locked"
    BY <1>1, <1>3, Alone
  <2> QED BY <1>6, <2>1, <2>2 DEF Unhanded, AtEnd, Active
<1>9. OutcomeIsDue'
  BY <1>4, <1>5, <1>7, OutcomeRule DEF Due
<1>10. ReviewIsDue'
  BY <1>1, <1>3, <1>4, <1>5, <1>7, <1>8, ReviewRule DEF Due
<1> QED BY <1>9, <1>10 DEF Due

LEMMA DueSend ==
  ASSUME Undisturbed, Sound, Held, Due, NEW r \in Replica, SendHitlMessage(r)
  PROVE  Due'
<1>1. UNCHANGED <<message, record>> /\ run[r].pc = "handoff" /\ r \in Runner
  BY DEF SendHitlMessage, broker, Runner
<1>2. PICK j \in Message :
        j = run[r].job /\ Subject(r) = Target[j] /\ Target[j] \in Albaran
  BY <1>1, AtWork DEF Active
<1>3. handoffs' = [handoffs EXCEPT ![Target[j]] = @ + 1]
  BY <1>2 DEF SendHitlMessage, HandOver
<1>4. /\ \A q \in Replica : q # r => run'[q] = run[q]
      /\ run'[r].job = j /\ run'[r].decision = run[r].decision
  BY <1>2, SendRun
<1>5. \A m \in Message \ {j} : (Open(m) => Open(m)') /\ (Unhanded(m) => Unhanded(m)')
  BY <1>1, <1>4, StaysOpen
<1>6. Open(j) => Open(j)'
  BY <1>1, <1>2, <1>4 DEF Open, Unhanded, AtReview, AtEnd
<1>7. OutcomeIsDue'
  BY <1>1, <1>5, <1>6, OutcomeRule DEF Due
<1>8. handoffs'[Target[j]] # 0 /\ \A d \in Albaran : d # Target[j] => handoffs'[d] = handoffs[d]
  BY <1>2, <1>3 DEF Sound, World
<1>9. ReviewIsDue'
  BY <1>1, <1>5, <1>8, ReviewRule DEF Due
<1> QED BY <1>7, <1>9 DEF Due

\* A run that fails leaves its message open, whatever was written, until it
\* has written "failed", which is an outcome and no review.
LEMMA DueFail ==
  ASSUME Undisturbed, Sound, Held, Due, NEW r \in Replica, FailInTry(r)
  PROVE  Due'
<1>1. /\ UNCHANGED message /\ r \in Runner
      /\ run[r].pc \in {"pipeline", "post", "write", "handoff", "fail"}
  BY DEF FailInTry, broker, Runner
<1>2. PICK j \in Message : /\ j = run[r].job /\ j \in batch[r]
                           /\ Subject(r) = Target[j] /\ Target[j] \in Albaran
  BY <1>1, AtWork DEF Active
<1>3. /\ \A q \in Replica : q # r => run'[q] = run[q]
      /\ run'[r].pc \notin {"handoff", "settle"}
  BY FailRun
<1>4. \A m \in Message : (Open(m) => Open(m)') /\ (Unhanded(m) => Unhanded(m)')
  BY <1>1, <1>3, StaysOpen
<1>5. Open(j)'
  BY <1>1, <1>2, <1>3, StillOpen
<1>6. \/ UNCHANGED record /\ (UNCHANGED handoffs \/ HandOver(r))
      \/ UNCHANGED handoffs /\ \E status \in Status : Write(r, status)
  BY StatusOfDecision, StatusNames DEF FailInTry, world
<1>7. CASE UNCHANGED record /\ (UNCHANGED handoffs \/ HandOver(r))
  <2>1. UNCHANGED handoffs \/ \A d \in Albaran : handoffs'[d] = 0 => handoffs[d] = 0
    BY <1>2, <1>7 DEF HandOver, Sound, World
  <2> QED BY <1>4, <1>7, <2>1, QuietStep
<1>8. CASE UNCHANGED handoffs /\ \E status \in Status : Write(r, status)
  <2>1. PICK status \in Status : Write(r, status)
    BY <1>8
  <2>2. record' = [record EXCEPT ![Target[j]] = OrchestratorDocument(status)]
    BY <1>2, <2>1 DEF Write
  <2> QED BY <1>4, <1>5, <1>8, <2>2, OpenWrite
<1> QED BY <1>6, <1>7, <1>8

LEMMA DueFailed ==
  ASSUME Undisturbed, Sound, Held, Due, NEW r \in Replica, WriteFailed(r)
  PROVE  Due'
<1>1. UNCHANGED <<message, handoffs>> /\ run[r].pc = "fail" /\ r \in Runner
  BY DEF WriteFailed, broker, Runner
<1>2. PICK j \in Message :
        j = run[r].job /\ Subject(r) = Target[j] /\ Target[j] \in Albaran
  BY <1>1, AtWork DEF Active
<1>3. (\A q \in Replica : q # r => run'[q] = run[q]) /\ run'[r].job = j
  BY <1>2, FailRun
<1>4. \A m \in Message \ {j} : (Open(m) => Open(m)') /\ (Unhanded(m) => Unhanded(m)')
  BY <1>1, <1>3, StaysOpen
<1>5. \A d \in Albaran : d # Target[j] => record'[d] = record[d]
  BY <1>2 DEF WriteFailed, Write, Sound, World
<1>6. record'[Target[j]].status = "failed" /\ "failed" \in OutcomeStatus
  BY <1>2, Written, StatusNames DEF WriteFailed, Write, Sound, World
<1>7. OutcomeIsDue'
  BY <1>4, <1>5, <1>6, OutcomeRule DEF Due
<1>8. ReviewIsDue'
  BY <1>1, <1>4, <1>5, <1>6, ReviewRule DEF Due
<1> QED BY <1>7, <1>8 DEF Due

LEMMA RaiseKeepsOpen ==
  ASSUME Sound, NEW r \in Replica, UNCHANGED message,
         Raise(r) \/ run' = [run EXCEPT ![r] = Idle]
  PROVE  /\ \A q \in Replica : q # r => run'[q] = run[q]
         /\ run'[r].pc \notin {"handoff", "settle"}
         /\ \A m \in Message : (Open(m) => Open(m)') /\ (Unhanded(m) => Unhanded(m)')
<1>1. /\ \A q \in Replica : q # r => run'[q] = run[q]
      /\ run'[r].pc \notin {"handoff", "settle"}
  BY DEF Raise, Idle, Dead, Sound, Runner
<1> QED BY <1>1, StaysOpen

LEMMA DueRaise ==
  ASSUME Undisturbed, Sound, Held, Due, NEW r \in Replica,
         BeginFails(r) \/ WriteFailedFails(r)
  PROVE  Due'
<1>1. UNCHANGED <<message, handoffs>> /\ Raise(r)
  BY DEF BeginFails, WriteFailedFails, broker
<1>2. \/ UNCHANGED record
      \/ \E j \in batch[r], status \in Status :
           record' = [record EXCEPT ![Target[j]] = OrchestratorDocument(status)]
  <2>1. CASE BeginFails(r)
    BY <2>1, StatusNames DEF BeginFails, Startable
  <2>2. CASE WriteFailedFails(r)
    <3>1. Subject(r) = Target[run[r].job] /\ run[r].job \in batch[r]
      BY <2>2, AtWork DEF WriteFailedFails, Active
    <3> QED BY <2>2, <3>1, StatusNames DEF WriteFailedFails, Write
  <2> QED BY <2>1, <2>2
<1>3. CASE UNCHANGED record
  BY <1>1, <1>3, RaiseKeepsOpen, QuietStep
<1>4. ASSUME NEW j \in batch[r], NEW status \in Status,
             record' = [record EXCEPT ![Target[j]] = OrchestratorDocument(status)]
      PROVE  Due'
  <2>1. j \in Message /\ Open(j)'
    BY <1>1, Alone, StillOpen, RaiseKeepsOpen
  <2> QED BY <1>1, <1>4, <2>1, RaiseKeepsOpen, OpenWrite
<1> QED BY <1>2, <1>3, <1>4

\* Only a message that is not due any more is settled.
LEMMA DueSettle ==
  ASSUME Undisturbed, Sound, Held, Due, NEW r \in Replica,
         \/ Settle(r) \/ SettleFails(r) \/ SettleTooLate(r) \/ BeginMalformed(r) \/ Crash(r)
  PROVE  Due'
<1>1. UNCHANGED <<record, handoffs>>
  BY DEF Settle, SettleFails, SettleTooLate, BeginMalformed, Crash, world
<1>2. Raise(r) \/ run' = [run EXCEPT ![r] = Idle]
  BY DEF Settle, SettleFails, SettleTooLate, BeginMalformed, Crash
<1>3. CASE UNCHANGED message
  BY <1>1, <1>2, <1>3, RaiseKeepsOpen, QuietStep
<1>4. ASSUME run[r].pc = "settle",
             message' = [message EXCEPT ![run[r].job] = Settled(run[r].job, run[r].decision)]
      PROVE  Due'
  <2>1. PICK j \in Message : j = run[r].job
    BY <1>4, AtWork DEF Active
  <2>2. \A q \in Replica : run'[q] = run[q] \/ run'[q].pc \notin {"handoff", "settle"}
    BY <1>2 DEF Raise, Idle, Dead, Sound, Runner
  <2>3. \A m \in Message \ {j} : (Open(m) => Open(m)') /\ (Unhanded(m) => Unhanded(m)')
    BY <1>4, <2>1, <2>2, StaysOpen DEF Sound, Broker
  <2>4. ~Unhanded(j) /\ ~Open(j)
    BY <1>4, <2>1 DEF Open, Unhanded, AtEnd
  <2> QED BY <1>1, <2>3, <2>4, QuietStep
<1> QED BY <1>3, <1>4
        DEF Settle, SettleFails, SettleTooLate, BeginMalformed, Crash, broker

LEMMA SteadyStep == ASSUME Undisturbed, Steady, [Next]_vars PROVE Steady'
<1>1. Sound /\ Held /\ Due
  BY DEF Steady, Due
<1>2. Sound' /\ Held'
  BY <1>1, SoundStep, HeldStep
<1>3. ASSUME NEW r \in Replica, Consume(r) PROVE Due'
  BY <1>1, <1>3, DueBroker, DueEarly, DueWrite, DueSend, DueFailed, DueSettle
     DEF Consume, ProcessDocument
<1>4. ASSUME NEW m \in Message, ExpireAbandoned(m) PROVE Due'
  BY <1>1, <1>4, DueBroker
<1>5. ASSUME Failures PROVE Due'
  <2>1. \A m \in Message : ~ExpireHeld(m)
    BY DEF ExpireHeld, Undisturbed
  <2>2. \E r \in Replica : \/ BeginFails(r) \/ FailInTry(r) \/ WriteFailedFails(r)
                           \/ SettleFails(r) \/ Crash(r)
    BY <1>5, <2>1, Replicas DEF Failures, Undisturbed
  <2> QED BY <1>1, <2>2, DueRaise, DueFail, DueSettle
<1>6. ASSUME UNCHANGED vars PROVE Due'
  <2>1. UNCHANGED <<record, handoffs, message, run>>
    BY <1>6 DEF vars
  <2>2. \A m \in Message : (Open(m) => Open(m)') /\ (Unhanded(m) => Unhanded(m)')
    BY <2>1, StaysOpen
  <2> QED BY <1>1, <2>1, <2>2, QuietStep
<1> QED BY <1>1, <1>2, <1>3, <1>4, <1>5, <1>6 DEF Next, Undisturbed, Steady, Due

LEMMA AlwaysSteady == ASSUME Undisturbed PROVE Spec => []Steady
<1>1. Init => Steady
  BY SteadyInit
<1>2. Steady /\ [Next]_vars => Steady'
  BY SteadyStep
<1> QED BY <1>1, <1>2, PTL DEF Spec

\* When every message about a document has left the queue and no run is under way,
\* its outcome is recorded, whatever runs failed, crashed or crossed on the way,
\* unless the broker gave one of the messages up.
THEOREM NothingIsStranded == ASSUME Undisturbed PROVE Spec => []NoStrandedDocument
<1>1. Steady => NoStrandedDocument
  BY Replicas DEF Steady, OutcomeIsDue, Open, Unhanded, NoStrandedDocument, Jobs
<1> QED BY <1>1, AlwaysSteady, PTL

\* A review nobody was told of is being handed over, or a message of it is still
\* in the queue, or the broker gave one up.
THEOREM NoHandoffIsLost == ASSUME Undisturbed PROVE Spec => []NoLostHandoff
<1>1. Steady => NoLostHandoff
  BY DEF Steady, ReviewIsDue, Unhanded, NoLostHandoff
<1> QED BY <1>1, AlwaysSteady, PTL

-----------------------------------------------------------------------------
(* The limit on retries, with locks that lapse and with manual calls, as   *)
(* long as every message can be read.                                      *)

Lapsed(r) == \E n \in batch[r] : ~HoldsLock(r, n)

Limit == MaxDeliveryAttempts - FirstCount

\* A message is ahead of the limit by at most the faults so far, and by one
\* delivery more while its consumer may still get to settle it.
Spent ==
  \A m \in Message :
    /\ deliveries[m] <= Limit + 1 + faults
    /\ message[m] = "queued" => deliveries[m] <= Limit + faults
    /\ message[m] = "locked" /\ (m \notin batch[holder[m]] \/ Lapsed(holder[m])) =>
         deliveries[m] <= Limit + faults

LEMMA LimitType == Limit \in Nat
  BY OrchestratorAssumption DEF Limit

LEMMA SpentInit == Init => Spent
  BY LimitType DEF Init, Spent

\* Whatever ends the run of r with a fault gives all its messages back.
LEMMA SpentGivenUp ==
  ASSUME Sound, Spent, NEW r \in Replica,
         UNCHANGED <<message, deliveries, holder>>, batch' = [batch EXCEPT ![r] = {}],
         faults' = faults + 1 \/ (UNCHANGED faults /\ Lapsed(r))
  PROVE  Spent'
<1>1. ASSUME NEW m \in Message, message'[m] = "locked",
             m \notin batch'[holder'[m]] \/ Lapsed(holder[m])'
      PROVE  deliveries'[m] <= Limit + faults'
  <2>1. deliveries[m] \in Nat /\ deliveries[m] <= Limit + 1 + faults /\ faults \in Nat
    BY DEF Sound, Broker, Spent
  <2>2. CASE faults' = faults + 1
    BY <2>1, <2>2, LimitType
  <2>3. CASE UNCHANGED faults /\ Lapsed(r)
    <3>1. holder[m] \in Replica
      BY <1>1 DEF Sound, Broker
    <3>2. m \notin batch[holder[m]] \/ Lapsed(holder[m])
      <4>1. CASE holder[m] = r
        BY <2>3, <4>1
      <4>2. CASE holder[m] # r
        BY <1>1, <3>1, <4>2 DEF Lapsed, HoldsLock, Sound
      <4> QED BY <4>1, <4>2
    <3> QED BY <1>1, <2>3, <3>2 DEF Spent
  <2> QED BY <2>2, <2>3
<1>2. faults' \in Nat /\ faults' >= faults
  BY DEF Sound
<1>3. ASSUME NEW m \in Message
      PROVE  /\ deliveries'[m] <= Limit + 1 + faults'
             /\ message'[m] = "queued" => deliveries'[m] <= Limit + faults'
  BY <1>2, LimitType DEF Sound, Broker, Spent
<1> QED BY <1>1, <1>3 DEF Spent

LEMMA SpentReceive ==
  ASSUME Sound, Spent, NEW r \in Replica, Receive(r)
  PROVE  Spent'
<1>1. PICK S \in SUBSET {m \in Message : message[m] = "queued"} :
        /\ batch' = [batch EXCEPT ![r] = S]
        /\ message' = [m \in Message |-> IF m \in S THEN "locked" ELSE message[m]]
        /\ deliveries' = [m \in Message |-> deliveries[m] + IF m \in S THEN 1 ELSE 0]
        /\ holder' = [m \in Message |-> IF m \in S THEN r ELSE holder[m]]
  BY DEF Receive
<1>2. UNCHANGED faults /\ batch[r] = {} /\ faults \in Nat
  BY DEF Receive, Sound
<1>3. ~Lapsed(r)' /\ batch'[r] = S
  BY <1>1 DEF Lapsed, HoldsLock, Sound
<1>4. ASSUME NEW m \in S
      PROVE  /\ deliveries'[m] <= Limit + 1 + faults' /\ message'[m] = "locked"
             /\ m \in batch'[holder'[m]] /\ ~Lapsed(holder[m])'
  <2>1. deliveries[m] <= Limit + faults /\ deliveries[m] \in Nat /\ deliveries'[m] = deliveries[m] + 1
    BY <1>1 DEF Spent, Sound, Broker
  <2>2. message'[m] = "locked" /\ holder'[m] = r
    BY <1>1
  <2> QED BY <1>2, <1>3, <2>1, <2>2, LimitType
<1>5. ASSUME NEW m \in Message \ S
      PROVE  deliveries'[m] = deliveries[m] /\ message'[m] = message[m] /\ holder'[m] = holder[m]
  BY <1>1 DEF Sound, Broker
<1>6. ASSUME NEW m \in Message \ S, message[m] = "locked",
             m \notin batch'[holder[m]] \/ Lapsed(holder[m])'
      PROVE  m \notin batch[holder[m]] \/ Lapsed(holder[m])
  <2>1. holder[m] \in Replica
    BY <1>6 DEF Sound, Broker
  <2>2. CASE holder[m] = r
    BY <1>2, <2>2
  <2>3. CASE holder[m] # r
    <3>1. batch'[holder[m]] = batch[holder[m]]
      BY <1>1, <2>1, <2>3 DEF Sound
    <3>2. ASSUME NEW n \in batch[holder[m]], HoldsLock(holder[m], n) PROVE HoldsLock(holder[m], n)'
      <4>1. n \in Message \ S
        BY <1>1, <2>1, <3>2 DEF HoldsLock, Sound
      <4>2. message'[n] = message[n] /\ holder'[n] = holder[n] /\ holder'[m] = holder[m]
        BY <1>5, <4>1
      <4> QED BY <3>2, <4>2 DEF HoldsLock
    <3>3. holder'[m] = holder[m]
      BY <1>5
    <3> QED BY <1>6, <3>1, <3>2, <3>3 DEF Lapsed
  <2> QED BY <2>2, <2>3
<1>7. ASSUME NEW m \in Message
      PROVE  /\ deliveries'[m] <= Limit + 1 + faults'
             /\ message'[m] = "queued" => deliveries'[m] <= Limit + faults'
             /\ message'[m] = "locked" /\ (m \notin batch'[holder'[m]] \/ Lapsed(holder[m])') =>
                  deliveries'[m] <= Limit + faults'
  BY <1>2, <1>4, <1>5, <1>6 DEF Spent
<1> QED BY <1>7 DEF Spent

\* A lock that ends: it was nobody's to settle any more, or that is a fault.
LEMMA SpentExpire ==
  ASSUME Sound, Spent, NEW n \in Message, ExpireAbandoned(n) \/ ExpireHeld(n)
  PROVE  Spent'
<1>1. /\ UNCHANGED <<deliveries, holder, batch>>
      /\ message[n] = "locked"
      /\ message' = [message EXCEPT ![n] = Unlocked(n)]
      /\ (UNCHANGED faults /\ n \notin batch[holder[n]]) \/ faults' = faults + 1
  BY DEF ExpireAbandoned, ExpireHeld, Fault
<1>2. message'[n] \in {"queued", "given_up"} /\ \A m \in Message \ {n} : message'[m] = message[m]
  BY <1>1 DEF Unlocked, Sound, Broker
<1>3. \A m \in Message : deliveries[m] \in Nat /\ faults \in Nat /\ faults' \in Nat
  BY <1>1 DEF Sound, Broker
<1>4. deliveries[n] <= Limit + faults'
  BY <1>1, <1>3, LimitType DEF Spent
<1>5. ASSUME NEW m \in Message \ {n}
      PROVE  /\ deliveries'[m] <= Limit + 1 + faults'
             /\ message'[m] = "queued" => deliveries'[m] <= Limit + faults'
  BY <1>1, <1>2, <1>3, LimitType DEF Spent
<1>6. ASSUME NEW m \in Message \ {n}, message'[m] = "locked",
             m \notin batch'[holder'[m]] \/ Lapsed(holder[m])'
      PROVE  deliveries'[m] <= Limit + faults'
  <2>1. CASE faults' = faults + 1
    BY <1>1, <1>3, <2>1, LimitType DEF Spent
  <2>2. CASE UNCHANGED faults /\ n \notin batch[holder[n]]
    <3>1. Lapsed(holder[m])' => Lapsed(holder[m])
      BY <1>1, <1>2, <2>2, <1>6 DEF Lapsed, HoldsLock, Sound, Broker
    <3> QED BY <1>1, <1>2, <1>6, <2>2, <3>1 DEF Spent
  <2> QED BY <1>1, <2>1, <2>2
<1>7. deliveries'[n] <= Limit + 1 + faults' /\ deliveries'[n] <= Limit + faults'
  BY <1>1, <1>3, <1>4, LimitType
<1> QED BY <1>5, <1>6, <1>7 DEF Spent

\* A settlement queues a message again only below the limit.
LEMMA SpentSettled ==
  ASSUME Sound, Spent, NEW n \in Message, NEW decision, Settled(n, decision) = "queued"
  PROVE  deliveries[n] <= Limit
<1>1. deliveries[n] \in Nat /\ MaxDeliveryAttempts \in Nat /\ FirstCount \in {0, 1}
  BY OrchestratorAssumption DEF Sound, Broker
<1>2. ~(DeliveryCount(n) >= MaxDeliveryAttempts)
  BY DEF Settled
<1> QED BY <1>1, <1>2 DEF DeliveryCount, Limit

LEMMA SpentSettle == ASSUME Sound, Spent, NEW r \in Replica, Settle(r) PROVE Spent'
<1>1. /\ HoldsLock(r, run[r].job)
      /\ message' = [message EXCEPT ![run[r].job] = Settled(run[r].job, run[r].decision)]
      /\ batch' = [batch EXCEPT ![r] = @ \ {run[r].job}]
      /\ UNCHANGED <<deliveries, holder, faults>>
  BY DEF Settle
<1>2. PICK n \in Message : n = run[r].job
  <2>1. run[r].job \in batch[r]
    BY DEF Settle, Sound, RunsFit, Fits, Runner
  <2> QED BY <2>1 DEF Sound
<1>3. /\ \A m \in Message \ {n} : message'[m] = message[m]
      /\ message'[n] = Settled(n, run[r].decision)
      /\ message[n] = "locked" /\ holder[n] = r
  BY <1>1, <1>2 DEF HoldsLock, Sound, Broker
<1>4. message'[n] # "locked" /\ deliveries[n] <= Limit + 1 + faults
  BY <1>3, SettledType DEF Spent
<1>5. message'[n] = "queued" => deliveries[n] <= Limit + faults
  <2>1. deliveries[n] \in Nat /\ faults \in Nat
    BY DEF Sound, Broker
  <2>2. ASSUME message'[n] = "queued" PROVE deliveries[n] <= Limit
    BY <1>3, <2>2, SpentSettled
  <2> QED BY <2>1, <2>2, LimitType
<1>6. ASSUME NEW m \in Message \ {n}, message'[m] = "locked",
             m \notin batch'[holder'[m]] \/ Lapsed(holder[m])'
      PROVE  m \notin batch[holder[m]] \/ Lapsed(holder[m])
  <2>1. holder[m] \in Replica /\ UNCHANGED holder
    BY <1>1, <1>3, <1>6 DEF Sound, Broker
  <2>2. batch'[holder[m]] \subseteq batch[holder[m]] /\ batch[holder[m]] \ {n} \subseteq batch'[holder[m]]
    BY <1>1, <1>2, <2>1 DEF Sound
  <2>3. ASSUME NEW k \in batch'[holder[m]], k # n, ~HoldsLock(holder[m], k)' 
        PROVE  ~HoldsLock(holder[m], k)
    <3>1. k \in Message \ {n}
      BY <2>1, <2>2, <2>3 DEF Sound
    <3>2. message'[k] = message[k] /\ holder'[k] = holder[k] /\ holder'[m] = holder[m]
      BY <1>3, <2>1, <3>1
    <3> QED BY <2>3, <3>2 DEF HoldsLock
  <2>4. n \notin batch'[holder[m]] \/ (n \in batch[holder[m]] /\ holder[m] # r)
    <3>1. batch' = [batch EXCEPT ![r] = batch[r] \ {n}]
      BY <1>1, <1>2
    <3>2. n \notin batch'[r]
      BY <3>1 DEF Sound
    <3>3. CASE holder[m] = r
      BY <3>2, <3>3
    <3>4. CASE holder[m] # r
      BY <2>2, <3>4
    <3> QED BY <3>3, <3>4
  <2>5. n \in batch[holder[m]] /\ holder[m] # r => Lapsed(holder[m])
    BY <1>3 DEF Lapsed, HoldsLock
  <2> QED BY <1>6, <2>1, <2>2, <2>3, <2>4, <2>5 DEF Lapsed
<1>7. ASSUME NEW m \in Message
      PROVE  /\ deliveries'[m] <= Limit + 1 + faults'
             /\ message'[m] = "queued" => deliveries'[m] <= Limit + faults'
             /\ message'[m] = "locked" /\ (m \notin batch'[holder'[m]] \/ Lapsed(holder[m])') =>
                  deliveries'[m] <= Limit + faults'
  BY <1>1, <1>3, <1>4, <1>5, <1>6 DEF Spent
<1> QED BY <1>7 DEF Spent

\* A settlement that fails may have been done, and gives all the others back.
LEMMA SpentSettleFails == ASSUME Sound, Spent, NEW r \in Replica, SettleFails(r) PROVE Spent'
<1>1. /\ UNCHANGED <<deliveries, holder>> /\ faults' = faults + 1
      /\ batch' = [batch EXCEPT ![r] = {}] /\ run[r].pc = "settle"
  BY DEF SettleFails, Fault, Raise
<1>2. CASE UNCHANGED message
  BY <1>1, <1>2, SpentGivenUp
<1>3. CASE message' = [message EXCEPT ![run[r].job] = Settled(run[r].job, run[r].decision)]
  <2>1. PICK n \in Message : n = run[r].job
    <3>1. run[r].job \in batch[r]
      BY <1>1 DEF Sound, RunsFit, Fits, Runner
    <3> QED BY <3>1 DEF Sound
  <2>2. /\ \A m \in Message \ {n} : message'[m] = message[m]
        /\ message'[n] = Settled(n, run[r].decision) /\ message'[n] # "locked"
    BY <1>3, <2>1, SettledType DEF Sound, Broker
  <2>3. message'[n] = "queued" => deliveries[n] <= Limit
    BY <2>2, SpentSettled
  <2>4. ASSUME NEW m \in Message
        PROVE  /\ deliveries'[m] <= Limit + 1 + faults'
               /\ message'[m] # "queued" => deliveries'[m] <= Limit + faults'
    <3>1. deliveries[m] \in Nat /\ faults \in Nat /\ deliveries[m] <= Limit + 1 + faults
      BY DEF Sound, Broker, Spent
    <3> QED BY <1>1, <3>1, LimitType
  <2>5. ASSUME NEW m \in Message, message'[m] = "queued"
        PROVE  deliveries'[m] <= Limit + faults'
    <3>1. deliveries[m] \in Nat /\ faults \in Nat
      BY DEF Sound, Broker
    <3>2. deliveries[m] <= Limit \/ deliveries[m] <= Limit + faults
      BY <2>2, <2>3, <2>5 DEF Spent
    <3> QED BY <1>1, <3>1, <3>2, LimitType
  <2> QED BY <2>4, <2>5 DEF Spent
<1> QED BY <1>2, <1>3 DEF SettleFails

\* A run ends without a fault of its own only when it lost a lock before.
LEMMA SpentEnds ==
  ASSUME Sound, Spent, NEW r \in Replica,
         SettleTooLate(r) \/ Crash(r) \/ BeginFails(r) \/ WriteFailedFails(r)
  PROVE  Spent'
<1>1. /\ UNCHANGED <<message, deliveries, holder>> /\ batch' = [batch EXCEPT ![r] = {}]
      /\ faults' = faults + 1 \/ (UNCHANGED faults /\ SettleTooLate(r))
  BY DEF SettleTooLate, Crash, BeginFails, WriteFailedFails, Raise, Fault, broker
<1>2. SettleTooLate(r) => Lapsed(r)
  <2>1. SettleTooLate(r) => run[r].job \in batch[r]
    BY DEF SettleTooLate, Sound, RunsFit, Fits, Runner
  <2> QED BY <2>1 DEF SettleTooLate, Lapsed
<1> QED BY <1>1, <1>2, SpentGivenUp

\* Steps that leave the broker and the batches alone.
LEMMA SpentElsewhere ==
  ASSUME Sound, Spent, UNCHANGED <<message, deliveries, holder, batch>>,
         UNCHANGED faults \/ faults' = faults + 1
  PROVE  Spent'
<1>1. ASSUME NEW m \in Message
      PROVE  /\ deliveries'[m] <= Limit + 1 + faults'
             /\ message'[m] = "queued" => deliveries'[m] <= Limit + faults'
             /\ message'[m] = "locked" /\ (m \notin batch'[holder'[m]] \/ Lapsed(holder[m])') =>
                  deliveries'[m] <= Limit + faults'
  <2>1. deliveries[m] \in Nat /\ faults \in Nat
    BY DEF Sound, Broker
  <2>2. Lapsed(holder[m])' => Lapsed(holder[m])
    BY DEF Lapsed, HoldsLock
  <2> QED BY <2>1, <2>2, LimitType DEF Spent
<1> QED BY <1>1 DEF Spent

LEMMA SpentCall ==
  ASSUME Sound, Spent, NEW c \in ManualCall,
         \/ CutOff(c) \/ Respond(c) \/ BeginFails(c) \/ WriteFailedFails(c)
  PROVE  Spent'
<1>1. c \notin Replica
  BY OrchestratorAssumption
<1> QED BY <1>1, SpentElsewhere
        DEF CutOff, Respond, BeginFails, WriteFailedFails, Raise, Fault, broker

LEMMA SpentStep == ASSUME Malformed = {}, Sound, Spent, [Next]_vars PROVE Spent'
<1>1. ASSUME NEW x \in Runner, ProcessDocument(x) \/ FailInTry(x) PROVE Spent'
  BY <1>1, SpentElsewhere
     DEF ProcessDocument, Begin, RunPipeline, PostInventory, WriteResult, SendHitlMessage,
         WriteFailed, FailInTry, Fault, broker
<1>2. ASSUME NEW r \in Replica, Consume(r) PROVE Spent'
  <2>1. ~BeginMalformed(r)
    BY DEF BeginMalformed
  <2> QED BY <1>1, <1>2, <2>1, SpentReceive, SpentSettle, SpentEnds DEF Consume, Runner
<1>3. ASSUME Failures PROVE Spent'
  BY <1>1, <1>3, SpentEnds, SpentCall, SpentSettleFails, SpentExpire DEF Failures, Runner
<1>4. ASSUME UNCHANGED vars PROVE Spent'
  BY <1>4, SpentElsewhere DEF vars
<1> QED BY <1>1, <1>2, <1>3, <1>4, SpentCall, SpentExpire DEF Next, Runner

\* Beyond the limit, a message that can be read is delivered at most once for each
\* call that failed, each crash and each lock that lapsed.
THEOREM RetriesEnd == ASSUME Malformed = {} PROVE Spec => []RetryLimit
<1>1. Init => Sound /\ Spent
  BY SoundInit, SpentInit
<1>2. Sound /\ Spent /\ [Next]_vars => (Sound /\ Spent)'
  BY SoundStep, SpentStep
<1>3. Sound /\ Spent => RetryLimit
  <2> SUFFICES ASSUME Sound, Spent, NEW m \in Message
               PROVE  deliveries[m] <= MaxDeliveryAttempts + 1 - FirstCount + faults
    BY DEF RetryLimit
  <2>1. /\ deliveries[m] \in Nat /\ faults \in Nat
        /\ MaxDeliveryAttempts \in Nat /\ FirstCount \in {0, 1}
    BY OrchestratorAssumption DEF Sound, Broker
  <2> QED BY <2>1 DEF Spent, Limit
<1> QED BY <1>1, <1>2, <1>3, PTL DEF Spec

-----------------------------------------------------------------------------
(* How many faults it takes until the broker gives a message up.           *)

\* maxDeliveryCount leaves room for the attempts of handle_message and for one
\* more delivery with each fault.
FewFaults == BrokerLimit > MaxDeliveryAttempts + 1 - FirstCount + MaxFaults

NothingGivenUp == \A m \in Message : message[m] # "given_up"

UsedUp ==
  /\ \A m \in Message : message[m] = "given_up" => deliveries[m] >= BrokerLimit
  /\ faults <= MaxFaults

LEMMA UsedUpStep == ASSUME Sound, UsedUp, [Next]_vars PROVE UsedUp'
<1>1. faults' <= MaxFaults
  <2>1. faults' = faults \/ (faults < MaxFaults /\ faults' = faults + 1)
    BY DEF Next, Consume, ProcessDocument, Failures, Receive, ExpireAbandoned, ExpireHeld, Begin,
           BeginMalformed, BeginFails, RunPipeline, PostInventory, WriteResult, SendHitlMessage,
           FailInTry, WriteFailed, WriteFailedFails, Settle, SettleTooLate, SettleFails,
           Respond, Crash, CutOff, Fault, vars
  <2> QED BY <2>1, OrchestratorAssumption DEF UsedUp, Sound
<1>2. ASSUME UNCHANGED <<message, deliveries>> PROVE UsedUp'
  BY <1>1, <1>2 DEF UsedUp
<1>3. ASSUME NEW r \in Replica, Receive(r) PROVE UsedUp'
  <2>1. PICK S \in SUBSET {m \in Message : message[m] = "queued"} :
          /\ message' = [m \in Message |-> IF m \in S THEN "locked" ELSE message[m]]
          /\ deliveries' = [m \in Message |-> deliveries[m] + IF m \in S THEN 1 ELSE 0]
    BY <1>3 DEF Receive
  <2>2. ASSUME NEW m \in Message, message'[m] = "given_up" PROVE deliveries'[m] >= BrokerLimit
    <3>1. m \notin S /\ message[m] = "given_up"
      BY <2>1, <2>2
    <3>2. deliveries'[m] = deliveries[m]
      BY <2>1, <3>1 DEF Sound, Broker
    <3> QED BY <3>1, <3>2 DEF UsedUp
  <2> QED BY <1>1, <2>2 DEF UsedUp
<1>4. ASSUME NEW n, NEW s, s = "given_up" => deliveries[n] >= BrokerLimit,
             message' = [message EXCEPT ![n] = s], UNCHANGED deliveries
      PROVE  UsedUp'
  <2>1. ASSUME NEW m \in Message, message'[m] = "given_up" PROVE deliveries'[m] >= BrokerLimit
    <3>1. CASE m = n
      BY <1>4, <2>1, <3>1 DEF Sound, Broker
    <3>2. CASE m # n
      BY <1>4, <2>1, <3>2 DEF Sound, Broker, UsedUp
    <3> QED BY <3>1, <3>2
  <2> QED BY <1>1, <2>1 DEF UsedUp
<1>5. ASSUME NEW m \in Message, ExpireAbandoned(m) \/ ExpireHeld(m) PROVE UsedUp'
  <2>1. Unlocked(m) = "given_up" => deliveries[m] >= BrokerLimit
    BY DEF Unlocked
  <2>2. message' = [message EXCEPT ![m] = Unlocked(m)] /\ UNCHANGED deliveries
    BY <1>5 DEF ExpireAbandoned, ExpireHeld
  <2> QED BY <1>4, <2>1, <2>2
<1>6. ASSUME NEW r \in Replica, Settle(r) \/ SettleFails(r) PROVE UsedUp'
  <2>1. Settled(run[r].job, run[r].decision) = "given_up" => deliveries[run[r].job] >= BrokerLimit
    BY DEF Settled, Unlocked
  <2>2. /\ UNCHANGED deliveries
        /\ \/ UNCHANGED message
           \/ message' = [message EXCEPT ![run[r].job] = Settled(run[r].job, run[r].decision)]
    BY <1>6 DEF Settle, SettleFails
  <2> QED BY <1>2, <1>4, <2>1, <2>2
<1>7. ASSUME NEW x \in Runner,
             ProcessDocument(x) \/ BeginFails(x) \/ FailInTry(x) \/ WriteFailedFails(x)
      PROVE  UNCHANGED <<message, deliveries>>
  BY <1>7 DEF ProcessDocument, Begin, RunPipeline, PostInventory, WriteResult, SendHitlMessage,
              WriteFailed, BeginFails, FailInTry, WriteFailedFails, broker
<1>8. ASSUME NEW r \in Replica, BeginMalformed(r) \/ SettleTooLate(r) \/ Crash(r)
      PROVE  UNCHANGED <<message, deliveries>>
  BY <1>8 DEF BeginMalformed, SettleTooLate, Crash, broker
<1>9. ASSUME NEW c \in ManualCall, CutOff(c) \/ Respond(c)
      PROVE  UNCHANGED <<message, deliveries>>
  BY <1>9 DEF CutOff, Respond, broker
<1>10. CASE UNCHANGED vars
  BY <1>2, <1>10 DEF vars
<1> QED BY <1>2, <1>3, <1>5, <1>6, <1>7, <1>8, <1>9, <1>10 DEF Next, Consume, Failures, Runner

\* If every message can be read, the broker gives up none as long as the faults
\* leave room below maxDeliveryCount: three do, with its default of 10 and the 5
\* attempts of config.py.  Until then the exception that NoStrandedDocument and
\* NoLostHandoff make is empty.
THEOREM FewFaultsGiveUpNothing ==
  ASSUME Malformed = {}, FewFaults
  PROVE  Spec => []NothingGivenUp
<1>1. Init => Sound /\ Spent /\ UsedUp
  BY SoundInit, SpentInit, OrchestratorAssumption DEF Init, UsedUp
<1>2. Sound /\ Spent /\ UsedUp /\ [Next]_vars => (Sound /\ Spent /\ UsedUp)'
  BY SoundStep, SpentStep, UsedUpStep
<1>3. Sound /\ Spent /\ UsedUp => NothingGivenUp
  <2> SUFFICES ASSUME Sound, Spent, UsedUp, NEW m \in Message, message[m] = "given_up" PROVE FALSE
    BY DEF NothingGivenUp
  <2>1. /\ deliveries[m] \in Nat /\ faults \in Nat /\ MaxFaults \in Nat /\ BrokerLimit \in Nat
        /\ MaxDeliveryAttempts \in Nat /\ FirstCount \in {0, 1}
    BY OrchestratorAssumption DEF Sound, Broker
  <2>2. deliveries[m] <= Limit + 1 + faults /\ deliveries[m] >= BrokerLimit /\ faults <= MaxFaults
    BY DEF Spent, UsedUp
  <2> QED BY <2>1, <2>2 DEF Limit, FewFaults
<1> QED BY <1>1, <1>2, <1>3, PTL DEF Spec

-----------------------------------------------------------------------------
(* The receipts.  A runner may still post each message of its batch, but   *)
(* for the one whose posting its run has behind it, and a call may post    *)
(* until its own posting.  Every delivery and every call is worth one      *)
(* posting, made or still to be made.                                      *)

PostingBehind(x) == run[x].pc \in {"write", "handoff", "fail", "settle"}
PostingAhead(x) == run[x].pc \in {"pipeline", "post"}

MayPost(d) ==
  {e \in Runner \X Job :
     /\ Target[e[2]] = d
     /\ IF e[1] \in Replica
        THEN e[2] \in batch[e[1]] /\ ~ (run[e[1]].job = e[2] /\ PostingBehind(e[1]))
        ELSE e[2] = e[1] /\ PostingAhead(e[1])}

AttemptsMade == [j \in Job |-> Attempts(j)]

Covered(d) ==
  /\ IsFiniteSet(MayPost(d))
  /\ receipts[d] + Cardinality(MayPost(d)) <= SumFunctionOnSet(AttemptsMade, Jobs(d))

AllCovered == \A d \in Albaran : Covered(d)

LEMMA AttemptsType == ASSUME Sound PROVE \A j \in Job : AttemptsMade[j] \in Nat
  BY DEF Sound, Broker, AttemptsMade, Attempts, Job

\* What a step adds to the attempts: a delivery of each message of B, and each
\* call of B that began.
NewAttempts(B) ==
  /\ B \subseteq Job
  /\ \A m \in Message : deliveries'[m] = deliveries[m] + (IF m \in B THEN 1 ELSE 0)
  /\ \A c \in ManualCall : IF c \in B THEN run[c] = Idle /\ run'[c] # Idle
                           ELSE run'[c] = Idle <=> run[c] = Idle

LEMMA AttemptsGrow ==
  ASSUME IsFiniteSet(Job), Sound, NEW B, NewAttempts(B), NEW d
  PROVE  /\ IsFiniteSet(B \cap Jobs(d))
         /\ SumFunctionOnSet(AttemptsMade', Jobs(d))
              = SumFunctionOnSet(AttemptsMade, Jobs(d)) + Cardinality(B \cap Jobs(d))
         /\ SumFunctionOnSet(AttemptsMade, Jobs(d)) \in Nat
<1>1. \A j \in Job : AttemptsMade'[j] = AttemptsMade[j] + (IF j \in B THEN 1 ELSE 0)
  <2> SUFFICES ASSUME NEW j \in Job
               PROVE  AttemptsMade'[j] = AttemptsMade[j] + (IF j \in B THEN 1 ELSE 0)
    OBVIOUS
  <2>1. CASE j \in Message
    BY <2>1 DEF NewAttempts, AttemptsMade, Attempts
  <2>2. CASE j \in ManualCall
    <3>1. j \notin Message
      BY <2>2, OrchestratorAssumption
    <3> QED BY <2>2, <3>1 DEF NewAttempts, AttemptsMade, Attempts
  <2> QED BY <2>1, <2>2 DEF Job
<1>2. IsFiniteSet(Jobs(d)) /\ Jobs(d) \subseteq Job
  BY FS_Subset DEF Jobs
<1>3. \A j \in Jobs(d) : AttemptsMade[j] \in Nat /\ AttemptsMade[j] \in Int
  BY <1>2, AttemptsType
<1>4. \A j \in Jobs(d) : AttemptsMade[j] \in Int
                         /\ AttemptsMade'[j] = AttemptsMade[j] + (IF j \in B THEN 1 ELSE 0)
  BY <1>1, <1>2, <1>3
<1>5. SumFunctionOnSet(AttemptsMade', Jobs(d))
        = SumFunctionOnSet(AttemptsMade, Jobs(d)) + Cardinality(B \cap Jobs(d))
  <2>1. PICK f, g : f = AttemptsMade /\ g = AttemptsMade'
    OBVIOUS
  <2>2. \A j \in Jobs(d) : f[j] \in Int /\ g[j] = f[j] + (IF j \in B THEN 1 ELSE 0)
    BY <1>4, <2>1
  <2>3. SumFunctionOnSet(g, Jobs(d)) = SumFunctionOnSet(f, Jobs(d)) + Cardinality(B \cap Jobs(d))
    BY <1>2, <2>2, SumLifted
  <2> QED BY <2>1, <2>3
<1>6. IsFiniteSet(B \cap Jobs(d))
  BY <1>2, FS_Subset
<1> QED BY <1>2, <1>3, <1>5, <1>6, SumType

\* The rights N that a step gives are paid for by its attempts, and a receipt is
\* paid for with a right.
LEMMA StaysCovered ==
  ASSUME IsFiniteSet(Job), Sound, Sound', NEW d \in Albaran, Covered(d),
         NEW B, NewAttempts(B), NEW N, IsFiniteSet(N),
         Cardinality(N) <= Cardinality(B \cap Jobs(d)),
         \/ receipts'[d] = receipts[d] /\ MayPost(d)' \subseteq MayPost(d) \cup N
         \/ \E e \in MayPost(d) : /\ receipts'[d] = receipts[d] + 1
                                  /\ MayPost(d)' \subseteq MayPost(d) \ {e}
  PROVE  Covered(d)'
<1>1. PICK p, p1, n, f, f1, b :
        /\ p = MayPost(d) /\ p1 = MayPost(d)' /\ n = receipts[d]
        /\ f = SumFunctionOnSet(AttemptsMade, Jobs(d))
        /\ f1 = SumFunctionOnSet(AttemptsMade', Jobs(d))
        /\ b = Cardinality(B \cap Jobs(d))
  OBVIOUS
<1>2. f1 = f + b /\ f \in Nat /\ b \in Nat
  BY <1>1, AttemptsGrow, FS_CardinalityType
<1>3. n \in Nat /\ Cardinality(N) \in Nat
  BY <1>1, FS_CardinalityType DEF Sound, World
<1>4. IsFiniteSet(p) /\ Cardinality(p) \in Nat /\ n + Cardinality(p) <= f
  BY <1>1, FS_CardinalityType DEF Covered
<1>5. IsFiniteSet(p1) /\ receipts'[d] + Cardinality(p1) <= f1
  <2>1. ASSUME receipts'[d] = n, p1 \subseteq p \cup N
        PROVE  IsFiniteSet(p1) /\ receipts'[d] + Cardinality(p1) <= f1
    <3>1. IsFiniteSet(p \cup N) /\ Cardinality(p \cup N) <= Cardinality(p) + Cardinality(N)
      <4>1. IsFiniteSet(p \cap N)
        BY <1>4, FS_Subset
      <4>2. Cardinality(p \cap N) \in Nat
        BY <4>1, FS_CardinalityType
      <4>3. /\ IsFiniteSet(p \cup N)
            /\ Cardinality(p \cup N) = Cardinality(p) + Cardinality(N) - Cardinality(p \cap N)
        BY <1>4, FS_Union
      <4> QED BY <1>3, <1>4, <4>2, <4>3
    <3>2. IsFiniteSet(p1) /\ Cardinality(p1) <= Cardinality(p \cup N)
      BY <2>1, <3>1, FS_Subset
    <3>3. Cardinality(p1) \in Nat /\ Cardinality(p \cup N) \in Nat
      BY <3>1, <3>2, FS_CardinalityType
    <3> QED BY <1>1, <1>2, <1>3, <1>4, <2>1, <3>1, <3>2, <3>3
  <2>2. ASSUME NEW e \in p, receipts'[d] = n + 1, p1 \subseteq p \ {e}
        PROVE  IsFiniteSet(p1) /\ receipts'[d] + Cardinality(p1) <= f1
    <3>1. IsFiniteSet(p \ {e}) /\ Cardinality(p \ {e}) = Cardinality(p) - 1
      BY <1>4, <2>2, FS_RemoveElement
    <3>2. IsFiniteSet(p1) /\ Cardinality(p1) <= Cardinality(p \ {e})
      BY <2>2, <3>1, FS_Subset
    <3>3. Cardinality(p1) \in Nat
      BY <3>2, FS_CardinalityType
    <3> QED BY <1>2, <1>3, <1>4, <2>2, <3>1, <3>2, <3>3
  <2> QED BY <1>1, <2>1, <2>2
<1> QED BY <1>1, <1>5 DEF Covered, Jobs

\* Which steps keep the rights to post as they were, or fewer.
LEMMA FewerRights ==
  ASSUME NEW d,
         \A x \in Replica : /\ batch'[x] \subseteq batch[x]
                            /\ \A m \in batch'[x] : run[x].job = m /\ PostingBehind(x) =>
                                                    run'[x].job = m /\ PostingBehind(x)',
         \A c \in ManualCall : PostingAhead(c)' => PostingAhead(c)
  PROVE  MayPost(d)' \subseteq MayPost(d)
<1> SUFFICES ASSUME NEW e \in MayPost(d)' PROVE e \in MayPost(d)
  OBVIOUS
<1>1. e \in Runner \X Job /\ Target[e[2]] = d
  BY DEF MayPost
<1>2. CASE e[1] \in Replica
  BY <1>1, <1>2 DEF MayPost
<1>3. CASE e[1] \notin Replica
  <2>1. e[1] \in ManualCall /\ e[2] = e[1] /\ PostingAhead(e[1])'
    BY <1>1, <1>3 DEF MayPost, Runner
  <2> QED BY <1>1, <1>3, <2>1 DEF MayPost
<1> QED BY <1>2, <1>3

LEMMA NoNewAttempts ==
  ASSUME Sound, UNCHANGED deliveries,
         \A c \in ManualCall : run'[c] = Idle <=> run[c] = Idle
  PROVE  NewAttempts({})
<1>1. \A m \in Message : deliveries'[m] = deliveries[m] + 0
  BY DEF Sound, Broker
<1> QED BY <1>1 DEF NewAttempts

LEMMA NoNewRights ==
  ASSUME NEW d
  PROVE  IsFiniteSet({}) /\ Cardinality({}) <= Cardinality({} \cap Jobs(d))
<1>1. {} \cap Jobs(d) = {} /\ IsFiniteSet({}) /\ Cardinality({}) = 0
  BY FS_EmptySet
<1> QED BY <1>1

\* A step that posts nothing, begins nothing and gives no rights.
LEMMA NothingPosted ==
  ASSUME IsFiniteSet(Job), Sound, Sound', AllCovered, UNCHANGED <<deliveries, receipts>>,
         \A c \in ManualCall : run'[c] = Idle <=> run[c] = Idle,
         \A d \in Albaran : MayPost(d)' \subseteq MayPost(d)
  PROVE  AllCovered'
<1> SUFFICES ASSUME NEW d \in Albaran PROVE Covered(d)'
  BY DEF AllCovered
<1>1. MayPost(d)' \subseteq MayPost(d) \cup {} /\ receipts'[d] = receipts[d] /\ Covered(d)
  BY DEF AllCovered
<1> QED BY <1>1, NoNewAttempts, NoNewRights, StaysCovered

\* A run that goes on: its job stays, and a posting behind it stays behind it.
LEMMA RunGoesOn ==
  ASSUME Sound, NEW x \in Runner, Active(x), NEW a, run' = [run EXCEPT ![x] = a],
         UNCHANGED batch, a.job = run[x].job,
         a.pc \in {"post", "write", "handoff", "fail", "settle"},
         a.pc = "post" => run[x].pc = "pipeline"
  PROVE  /\ \A c \in ManualCall : run'[c] = Idle <=> run[c] = Idle
         /\ \A d \in Albaran : MayPost(d)' \subseteq MayPost(d)
         /\ run[x].pc = "post" =>
              /\ <<x, run[x].job>> \in MayPost(Subject(x))
              /\ \A d \in Albaran : <<x, run[x].job>> \notin MayPost(d)'
<1>1. run'[x] = a /\ \A y \in Runner : y # x => run'[y] = run[y]
  BY DEF Sound
<1>2. /\ run[x].pc \notin {"idle", "dead"} /\ run[x].job \in Job
      /\ run[x].job \in (IF x \in Replica THEN batch[x] ELSE {x})
  BY DEF Sound, RunsFit, Fits, Active
<1>3. run[x] # Idle /\ a # Idle
  BY <1>2 DEF Idle
<1>4. \A c \in ManualCall : run'[c] = Idle <=> run[c] = Idle
  BY <1>1, <1>3 DEF Runner
<1>5. PostingBehind(x) => PostingBehind(x)'
  BY <1>1 DEF PostingBehind
<1>6. PostingAhead(x)' => PostingAhead(x)
  BY <1>1 DEF PostingAhead
<1>7. \A y \in Runner : y # x => /\ PostingBehind(y)' <=> PostingBehind(y)
                                 /\ PostingAhead(y)' <=> PostingAhead(y)
  BY <1>1 DEF PostingBehind, PostingAhead
<1>8. ASSUME NEW d \in Albaran PROVE MayPost(d)' \subseteq MayPost(d)
  <2>1. ASSUME NEW y \in Replica, NEW m \in batch'[y], run[y].job = m, PostingBehind(y)
        PROVE  run'[y].job = m /\ PostingBehind(y)'
    BY <1>1, <1>5, <1>7, <2>1 DEF Runner
  <2>2. \A c \in ManualCall : PostingAhead(c)' => PostingAhead(c)
    BY <1>6, <1>7 DEF Runner
  <2> QED BY <2>1, <2>2, FewerRights
<1>9. ASSUME run[x].pc = "post"
      PROVE  /\ <<x, run[x].job>> \in MayPost(Subject(x))
             /\ \A d \in Albaran : <<x, run[x].job>> \notin MayPost(d)'
  <2>1. PostingAhead(x) /\ ~PostingBehind(x) /\ PostingBehind(x)' /\ ~PostingAhead(x)'
    BY <1>1, <1>9 DEF PostingAhead, PostingBehind
  <2>2. PICK j : j = run[x].job
    OBVIOUS
  <2>3. <<x, j>> \in Runner \X Job /\ <<x, j>>[1] = x /\ <<x, j>>[2] = j
    BY <1>2, <2>2
  <2>4. <<x, j>> \in MayPost(Target[j])
    BY <1>2, <2>1, <2>2, <2>3 DEF MayPost
  <2>5. ASSUME NEW d \in Albaran PROVE <<x, j>> \notin MayPost(d)'
    BY <1>1, <2>1, <2>2, <2>3 DEF MayPost
  <2> QED BY <2>2, <2>4, <2>5 DEF Subject
<1> QED BY <1>4, <1>8, <1>9

\* A run that ends: what is left of its batch has its posting still ahead.
LEMMA RunEnded ==
  ASSUME Sound, NEW x \in Runner, NEW S,
         \/ run' = [run EXCEPT ![x] = Dead]
         \/ run' = [run EXCEPT ![x] = Idle] /\ x \in Replica,
         batch' = IF x \in Replica THEN [batch EXCEPT ![x] = S] ELSE batch,
         x \in Replica => S \subseteq batch[x] \ {run[x].job} \/ S = {}
  PROVE  /\ \A c \in ManualCall : c # x => run'[c] = run[c]
         /\ x \in ManualCall => run'[x] # Idle
         /\ \A d \in Albaran : MayPost(d)' \subseteq MayPost(d)
<1>1. /\ run'[x] = Dead \/ (run'[x] = Idle /\ x \in Replica)
      /\ \A y \in Runner : y # x => run'[y] = run[y]
  BY DEF Sound
<1>2. x \in ManualCall => x \notin Replica
  BY OrchestratorAssumption
<1>3. Dead # Idle
  BY DEF Dead, Idle
<1>4. ~PostingAhead(x)'
  BY <1>1 DEF PostingAhead, Dead, Idle
<1>5. /\ \A y \in Replica : y # x => batch'[y] = batch[y]
      /\ x \in Replica => batch'[x] = S
  BY DEF Sound
<1>6. ASSUME NEW d \in Albaran PROVE MayPost(d)' \subseteq MayPost(d)
  <2>1. ASSUME NEW y \in Replica
        PROVE  /\ batch'[y] \subseteq batch[y]
               /\ \A m \in batch'[y] : run[y].job = m /\ PostingBehind(y) =>
                                       run'[y].job = m /\ PostingBehind(y)'
    <3>1. CASE y = x
      BY <1>5, <2>1, <3>1
    <3>2. CASE y # x
      <4>1. run'[y] = run[y] /\ batch'[y] = batch[y]
        BY <1>1, <1>5, <2>1, <3>2 DEF Runner
      <4> QED BY <4>1 DEF PostingBehind
    <3> QED BY <3>1, <3>2
  <2>2. \A c \in ManualCall : PostingAhead(c)' => PostingAhead(c)
    BY <1>1, <1>4 DEF Runner, PostingAhead
  <2> QED BY <2>1, <2>2, FewerRights
<1>7. \A c \in ManualCall : c # x => run'[c] = run[c]
  BY <1>1 DEF Runner
<1> QED BY <1>1, <1>2, <1>3, <1>6, <1>7

LEMMA CoveredRaise ==
  ASSUME IsFiniteSet(Job), Sound, Sound', AllCovered, NEW x \in Runner, Raise(x),
         UNCHANGED <<deliveries, receipts>>
  PROVE  AllCovered'
<1>1. \A c \in ManualCall : c # x => run'[c] = run[c]
  BY RunEnded DEF Raise
<1>2. x \in ManualCall => run'[x] # Idle
  BY RunEnded DEF Raise
<1>3. \A d \in Albaran : MayPost(d)' \subseteq MayPost(d)
  BY RunEnded DEF Raise
<1>4. CASE x \in ManualCall /\ run[x] = Idle
  <2> SUFFICES ASSUME NEW d \in Albaran PROVE Covered(d)'
    BY DEF AllCovered
  <2>1. NewAttempts({x})
    <3>1. {x} \subseteq Job /\ x \notin Message
      BY <1>4, OrchestratorAssumption DEF Job
    <3>2. \A m \in Message : deliveries'[m] = deliveries[m] + 0
      BY DEF Sound, Broker
    <3> QED BY <1>1, <1>2, <1>4, <3>1, <3>2 DEF NewAttempts
  <2>2. IsFiniteSet({}) /\ Cardinality({}) = 0 /\ Cardinality({x} \cap Jobs(d)) \in Nat
    BY <2>1, AttemptsGrow, FS_EmptySet, FS_CardinalityType
  <2>3. Cardinality({}) <= Cardinality({x} \cap Jobs(d))
    BY <2>2
  <2>4. MayPost(d)' \subseteq MayPost(d) \cup {} /\ receipts'[d] = receipts[d] /\ Covered(d)
    BY <1>3 DEF AllCovered
  <2> QED BY <2>1, <2>2, <2>3, <2>4, StaysCovered
<1>5. CASE ~(x \in ManualCall /\ run[x] = Idle)
  BY <1>1, <1>2, <1>3, <1>5, NothingPosted
<1> QED BY <1>4, <1>5

\* The steps of a run that goes on, and the posting.
LEMMA CoveredRun ==
  ASSUME IsFiniteSet(Job), Sound, Sound', AllCovered, NEW x \in Runner, Active(x), NEW a,
         run' = [run EXCEPT ![x] = a], UNCHANGED <<batch, deliveries>>, a.job = run[x].job,
         a.pc \in {"post", "write", "handoff", "fail", "settle"},
         a.pc = "post" => run[x].pc = "pipeline",
         UNCHANGED receipts \/ (run[x].pc = "post" /\ Post(x))
  PROVE  AllCovered'
<1>1. CASE UNCHANGED receipts
  BY <1>1, RunGoesOn, NothingPosted
<1>2. CASE run[x].pc = "post" /\ Post(x)
  <2> SUFFICES ASSUME NEW d \in Albaran PROVE Covered(d)'
    BY DEF AllCovered
  <2>1. /\ NewAttempts({}) /\ Covered(d)
        /\ MayPost(d)' \subseteq MayPost(d) \cup {}
    BY RunGoesOn, NoNewAttempts DEF AllCovered
  <2>2. CASE d # Subject(x)
    <3>1. receipts'[d] = receipts[d]
      BY <1>2, <2>2 DEF Post, Sound, World
    <3> QED BY <2>1, <3>1, NoNewRights, StaysCovered
  <2>3. CASE d = Subject(x)
    <3>1. receipts'[d] = receipts[d] + 1
      BY <1>2, <2>3 DEF Post, Sound, World
    <3>2. PICK e : e = <<x, run[x].job>>
      OBVIOUS
    <3>3. e \in MayPost(d) /\ e \notin MayPost(d)'
      BY <1>2, <2>3, <3>2, RunGoesOn
    <3>4. MayPost(d)' \subseteq MayPost(d) \ {e}
      BY <2>1, <3>3
    <3> QED BY <2>1, <3>1, <3>3, <3>4, NoNewRights, StaysCovered
  <2> QED BY <2>2, <2>3
<1> QED BY <1>1, <1>2

LEMMA CoveredReceive ==
  ASSUME IsFiniteSet(Job), Sound, Sound', AllCovered, NEW r \in Replica, Receive(r)
  PROVE  AllCovered'
<1>1. PICK S \in SUBSET {m \in Message : message[m] = "queued"} :
        /\ batch' = [batch EXCEPT ![r] = S]
        /\ deliveries' = [m \in Message |-> deliveries[m] + IF m \in S THEN 1 ELSE 0]
  BY DEF Receive
<1>2. UNCHANGED <<receipts, run>> /\ r \in Runner
  BY DEF Receive, world, Runner
<1>3. NewAttempts(S)
  <2>1. \A c \in ManualCall : c \notin S
    BY OrchestratorAssumption
  <2> QED BY <1>1, <1>2, <2>1 DEF NewAttempts, Job
<1> SUFFICES ASSUME NEW d \in Albaran PROVE Covered(d)'
  BY DEF AllCovered
<1> DEFINE T == S \cap Jobs(d)
           N == {r} \X T
<1>4. IsFiniteSet(T) /\ Covered(d)
  BY <1>3, AttemptsGrow DEF AllCovered
<1>5. IsFiniteSet(N) /\ Cardinality(N) <= Cardinality(T)
  <2>1. [m \in T |-> <<r, m>>] \in Surjection(T, N)
    BY DEF Surjection
  <2> QED BY <1>4, <2>1, FS_Surjection
<1>6. MayPost(d)' \subseteq MayPost(d) \cup N
  <2> SUFFICES ASSUME NEW e \in MayPost(d)', e \notin N PROVE e \in MayPost(d)
    OBVIOUS
  <2>1. e \in Runner \X Job /\ Target[e[2]] = d
    BY DEF MayPost
  <2>2. CASE e[1] \in Replica
    <3>1. e[2] \in batch'[e[1]] /\ ~ (run[e[1]].job = e[2] /\ PostingBehind(e[1]))
      BY <1>2, <2>2 DEF MayPost, PostingBehind
    <3>2. e[1] # r
      <4>1. ASSUME e[1] = r PROVE FALSE
        <5>1. batch'[r] = S
          BY <1>1 DEF Sound
        <5>2. e[2] \in T
          BY <2>1, <3>1, <4>1, <5>1 DEF Jobs
        <5> QED BY <2>1, <4>1, <5>2
      <4> QED BY <4>1
    <3>3. batch'[e[1]] = batch[e[1]]
      BY <1>1, <2>2, <3>2 DEF Sound
    <3> QED BY <2>1, <2>2, <3>1, <3>3 DEF MayPost
  <2>3. CASE e[1] \notin Replica
    BY <1>2, <2>1, <2>3 DEF MayPost, PostingAhead
  <2> QED BY <2>2, <2>3
<1>7. receipts'[d] = receipts[d]
  BY <1>2
<1> HIDE DEF N
<1> QED BY <1>3, <1>4, <1>5, <1>6, <1>7, StaysCovered

LEMMA CoveredBegin ==
  ASSUME IsFiniteSet(Job), Sound, Sound', AllCovered, NEW x \in Runner, Begin(x)
  PROVE  AllCovered'
<1>1. PICK j \in Startable(x) \ Malformed :
        run' = [run EXCEPT ![x] = [pc |-> "pipeline", job |-> j, decision |-> None]]
  BY DEF Begin
<1>2. run[x] = Idle /\ UNCHANGED <<deliveries, batch, receipts>>
  BY DEF Begin, broker
<1>3. /\ run'[x].pc = "pipeline" /\ run'[x] # Idle
      /\ \A y \in Runner : y # x => run'[y] = run[y]
  <2>1. run'[x] = [pc |-> "pipeline", job |-> j, decision |-> None]
    BY <1>1 DEF Sound
  <2>2. run'[x].pc = "pipeline" /\ Idle.pc = "idle"
    BY <2>1 DEF Idle
  <2> QED BY <1>1, <2>2 DEF Sound
<1>4. run[x].pc = "idle"
  BY <1>2 DEF Idle
<1>5. ASSUME NEW y \in Replica, NEW m, run[y].job = m, PostingBehind(y)
      PROVE  run'[y].job = m /\ PostingBehind(y)'
  <2>1. y # x
    BY <1>4, <1>5 DEF PostingBehind
  <2> QED BY <1>3, <1>5, <2>1 DEF Runner, PostingBehind
<1>6. CASE x \in Replica
  <2>1. x \notin ManualCall
    BY <1>6, OrchestratorAssumption
  <2>2. \A c \in ManualCall : run'[c] = run[c]
    BY <1>3, <2>1 DEF Runner
  <2>3. \A d \in Albaran : MayPost(d)' \subseteq MayPost(d)
    BY <1>2, <1>5, <2>2, FewerRights DEF PostingAhead
  <2> QED BY <1>2, <2>2, <2>3, NothingPosted
<1>7. CASE x \notin Replica
  <2>1. x \in ManualCall /\ x \notin Message /\ x \in Job
    BY <1>7, OrchestratorAssumption DEF Runner, Job
  <2>2. \A c \in ManualCall : c # x => run'[c] = run[c]
    BY <1>3 DEF Runner
  <2>3. NewAttempts({x})
    <3>1. \A m \in Message : deliveries'[m] = deliveries[m] + 0
      BY <1>2 DEF Sound, Broker
    <3> QED BY <1>2, <1>3, <2>1, <2>2, <3>1 DEF NewAttempts
  <2> SUFFICES ASSUME NEW d \in Albaran PROVE Covered(d)'
    BY DEF AllCovered
  <2>4. PICK N : N = IF Target[x] = d THEN {<<x, x>>} ELSE {}
    OBVIOUS
  <2>5. IsFiniteSet(N) /\ Cardinality(N) <= Cardinality({x} \cap Jobs(d))
    <3>1. CASE Target[x] = d
      <4>1. {x} \cap Jobs(d) = {x}
        BY <2>1, <3>1 DEF Jobs
      <4>2. IsFiniteSet({<<x, x>>}) /\ Cardinality({<<x, x>>}) = 1 /\ Cardinality({x}) = 1
        BY FS_Singleton
      <4> QED BY <2>4, <3>1, <4>1, <4>2
    <3>2. CASE Target[x] # d
      <4>1. N = {} /\ {x} \cap Jobs(d) = {}
        BY <2>4, <3>2 DEF Jobs
      <4>2. IsFiniteSet({}) /\ Cardinality({}) = 0
        BY FS_EmptySet
      <4> QED BY <4>1, <4>2
    <3> QED BY <3>1, <3>2
  <2>6. MayPost(d)' \subseteq MayPost(d) \cup N
    <3> SUFFICES ASSUME NEW e \in MayPost(d)', e \notin N PROVE e \in MayPost(d)
      OBVIOUS
    <3>1. e \in Runner \X Job /\ Target[e[2]] = d
      BY DEF MayPost
    <3>2. e[1] # x
      <4>1. ASSUME e[1] = x PROVE FALSE
        <5>1. e[2] = x
          BY <1>7, <4>1 DEF MayPost
        <5> QED BY <2>4, <3>1, <4>1, <5>1
      <4> QED BY <4>1
    <3>3. run'[e[1]] = run[e[1]]
      BY <1>3, <3>1, <3>2
    <3> QED BY <1>2, <3>1, <3>3 DEF MayPost, PostingBehind, PostingAhead
  <2> QED BY <1>2, <2>3, <2>5, <2>6, StaysCovered DEF AllCovered
<1> QED BY <1>6, <1>7

LEMMA CoveredOngoing ==
  ASSUME IsFiniteSet(Job), Sound, Sound', AllCovered, NEW x \in Runner,
         \/ RunPipeline(x) \/ PostInventory(x) \/ WriteResult(x)
         \/ SendHitlMessage(x) \/ WriteFailed(x) \/ FailInTry(x)
  PROVE  AllCovered'
<1>1. /\ UNCHANGED <<batch, deliveries>> /\ Active(x) /\ run[x] \in RunType
      /\ run[x].pc \in {"pipeline", "post", "write", "handoff", "fail"}
  BY DEF RunPipeline, PostInventory, WriteResult, SendHitlMessage, WriteFailed, FailInTry,
         broker, Active, Sound
<1>2. ASSUME NEW stage \in {"post", "write", "fail", "settle"}, NEW decision,
             run' = [run EXCEPT ![x].pc = stage, ![x].decision = decision],
             stage = "post" => run[x].pc = "pipeline",
             UNCHANGED receipts \/ (run[x].pc = "post" /\ Post(x))
      PROVE  AllCovered'
  <2>1. PICK a : a = [pc |-> stage, job |-> run[x].job, decision |-> decision]
    OBVIOUS
  <2>2. run' = [run EXCEPT ![x] = a]
    BY <1>2, <2>1, Further DEF Sound
  <2>3. a.job = run[x].job /\ a.pc = stage
    BY <2>1
  <2> QED BY <1>1, <1>2, <2>2, <2>3, CoveredRun
<1>3. ASSUME NEW stage \in {"handoff", "fail", "settle"},
             run' = [run EXCEPT ![x].pc = stage], UNCHANGED receipts
      PROVE  AllCovered'
  <2>1. PICK a : a = [run[x] EXCEPT !.pc = stage]
    OBVIOUS
  <2>2. run' = [run EXCEPT ![x] = a]
    BY <1>3, <2>1 DEF Sound
  <2>3. a.job = run[x].job /\ a.pc = stage
    BY <1>1, <2>1 DEF RunType
  <2> QED BY <1>1, <1>3, <2>2, <2>3, CoveredRun
<1>4. CASE RunPipeline(x)
  <2>1. UNCHANGED receipts /\ run[x].pc = "pipeline"
    BY <1>4 DEF RunPipeline, world
  <2>2. \/ run' = [run EXCEPT ![x].pc = "fail"]
        \/ \E result \in Validated(PipelineInput(Request[run[x].job].metadata)) :
              run' = [run EXCEPT ![x].pc = IF result.inventory THEN "post" ELSE "write",
                                 ![x].decision = result.decision]
    BY <1>4 DEF RunPipeline
  <2>3. CASE run' = [run EXCEPT ![x].pc = "fail"]
    BY <1>3, <2>1, <2>3
  <2>4. ASSUME NEW result,
               run' = [run EXCEPT ![x].pc = IF result.inventory THEN "post" ELSE "write",
                                  ![x].decision = result.decision]
        PROVE  AllCovered'
    <3>1. PICK stage \in {"post", "write"} : stage = IF result.inventory THEN "post" ELSE "write"
      OBVIOUS
    <3>2. run' = [run EXCEPT ![x].pc = stage, ![x].decision = result.decision]
      BY <2>4, <3>1
    <3> QED BY <1>2, <2>1, <3>2
  <2> QED BY <2>2, <2>3, <2>4
<1>5. CASE PostInventory(x)
  <2>1. PICK answer \in PostingAnswer :
          /\ run' = [run EXCEPT ![x].pc = "write",
                                ![x].decision = DecisionAfterPosting(answer)]
          /\ Post(x) \/ UNCHANGED receipts
    BY <1>5 DEF PostInventory
  <2>2. run[x].pc = "post"
    BY <1>5 DEF PostInventory
  <2> QED BY <1>2, <2>1, <2>2
<1>6. CASE WriteResult(x)
  <2>1. PICK status \in OutcomeStatus :
          run' = [run EXCEPT ![x].pc = IF status = "hitl_pending" THEN "handoff" ELSE "settle"]
    BY <1>6, StatusOfDecision DEF WriteResult
  <2>2. PICK stage \in {"handoff", "settle"} :
          stage = IF status = "hitl_pending" THEN "handoff" ELSE "settle"
    OBVIOUS
  <2>3. run' = [run EXCEPT ![x].pc = stage] /\ UNCHANGED receipts
    BY <1>6, <2>1, <2>2 DEF WriteResult
  <2> QED BY <1>3, <2>3
<1>7. CASE SendHitlMessage(x)
  BY <1>3, <1>7 DEF SendHitlMessage
<1>8. CASE WriteFailed(x)
  BY <1>2, <1>8 DEF WriteFailed
<1>9. CASE FailInTry(x)
  <2>1. run' = [run EXCEPT ![x].pc = "fail", ![x].decision = None]
    BY <1>9 DEF FailInTry
  <2>2. UNCHANGED receipts \/ (run[x].pc = "post" /\ Post(x))
    BY <1>9 DEF FailInTry, world
  <2> QED BY <1>2, <2>1, <2>2
<1> QED BY <1>4, <1>5, <1>6, <1>7, <1>8, <1>9

\* A run that ends, in its settlement, with a crash or with its exception.
LEMMA CoveredEnd ==
  ASSUME IsFiniteSet(Job), Sound, Sound', AllCovered,
         \/ \E x \in Runner : BeginFails(x) \/ WriteFailedFails(x)
         \/ \E r \in Replica : \/ BeginMalformed(r) \/ Settle(r) \/ SettleTooLate(r)
                               \/ SettleFails(r) \/ Crash(r)
         \/ \E c \in ManualCall : Respond(c) \/ CutOff(c)
  PROVE  AllCovered'
<1>1. ASSUME NEW x \in Runner, BeginFails(x) \/ WriteFailedFails(x) PROVE AllCovered'
  <2>1. Raise(x) /\ UNCHANGED <<deliveries, receipts>>
    BY <1>1 DEF BeginFails, WriteFailedFails, broker
  <2> QED BY <2>1, CoveredRaise
<1>2. ASSUME NEW r \in Replica, BeginMalformed(r) \/ SettleTooLate(r) \/ SettleFails(r)
      PROVE  AllCovered'
  <2>1. Raise(r) /\ UNCHANGED <<deliveries, receipts>> /\ r \in Runner
    BY <1>2 DEF BeginMalformed, SettleTooLate, SettleFails, broker, world, Runner
  <2> QED BY <2>1, CoveredRaise
<1>3. ASSUME NEW r \in Replica, NEW S, run' = [run EXCEPT ![r] = Idle],
             batch' = [batch EXCEPT ![r] = S], S \subseteq batch[r] \ {run[r].job} \/ S = {},
             UNCHANGED <<deliveries, receipts>>
      PROVE  AllCovered'
  <2>1. r \in Runner /\ r \notin ManualCall
    BY OrchestratorAssumption DEF Runner
  <2>2. /\ \A c \in ManualCall : c # r => run'[c] = run[c]
        /\ \A d \in Albaran : MayPost(d)' \subseteq MayPost(d)
    BY <1>3, <2>1, RunEnded
  <2> QED BY <1>3, <2>1, <2>2, NothingPosted
<1>4. ASSUME NEW r \in Replica, Settle(r) PROVE AllCovered'
  <2>1. /\ run' = [run EXCEPT ![r] = Idle] /\ UNCHANGED <<deliveries, receipts>>
        /\ batch' = [batch EXCEPT ![r] = batch[r] \ {run[r].job}]
    BY <1>4 DEF Settle, world
  <2> QED BY <1>3, <2>1
<1>5. ASSUME NEW r \in Replica, Crash(r) PROVE AllCovered'
  <2>1. /\ run' = [run EXCEPT ![r] = Idle] /\ UNCHANGED <<deliveries, receipts>>
        /\ batch' = [batch EXCEPT ![r] = {}]
    BY <1>5 DEF Crash, world, broker
  <2> QED BY <1>3, <2>1
<1>6. ASSUME NEW c \in ManualCall, Respond(c) \/ CutOff(c) PROVE AllCovered'
  <2>1. c \in Runner /\ c \notin Replica
    BY OrchestratorAssumption DEF Runner
  <2>2. Raise(c) /\ UNCHANGED <<deliveries, receipts>>
    BY <1>6, <2>1 DEF Respond, CutOff, Raise, world, broker
  <2> QED BY <2>1, <2>2, CoveredRaise
<1> QED BY <1>1, <1>2, <1>4, <1>5, <1>6

LEMMA CoveredStep ==
  ASSUME IsFiniteSet(Job), Sound, Sound', AllCovered, [Next]_vars
  PROVE  AllCovered'
<1>1. CASE \E x \in Runner : \/ RunPipeline(x) \/ PostInventory(x) \/ WriteResult(x)
                             \/ SendHitlMessage(x) \/ WriteFailed(x) \/ FailInTry(x)
  BY <1>1, CoveredOngoing
<1>2. CASE \/ \E x \in Runner : BeginFails(x) \/ WriteFailedFails(x)
           \/ \E r \in Replica : \/ BeginMalformed(r) \/ Settle(r) \/ SettleTooLate(r)
                                 \/ SettleFails(r) \/ Crash(r)
           \/ \E c \in ManualCall : Respond(c) \/ CutOff(c)
  BY <1>2, CoveredEnd
<1>3. CASE \E r \in Replica : Receive(r)
  BY <1>3, CoveredReceive
<1>4. CASE \E x \in Runner : Begin(x)
  BY <1>4, CoveredBegin
<1>5. CASE (\E m \in Message : ExpireAbandoned(m) \/ ExpireHeld(m)) \/ UNCHANGED vars
  <2>1. UNCHANGED <<deliveries, receipts, run, batch>>
    BY <1>5 DEF ExpireAbandoned, ExpireHeld, world, vars
  <2>2. \A d \in Albaran : MayPost(d)' \subseteq MayPost(d)
    BY <2>1, FewerRights DEF PostingAhead, PostingBehind
  <2> QED BY <2>1, <2>2, NothingPosted
<1>6. Replica \subseteq Runner /\ ManualCall \subseteq Runner
  BY DEF Runner
<1>7. Next => \/ \E x \in Runner : \/ RunPipeline(x) \/ PostInventory(x) \/ WriteResult(x)
                                   \/ SendHitlMessage(x) \/ WriteFailed(x) \/ FailInTry(x)
              \/ \E x \in Runner : BeginFails(x) \/ WriteFailedFails(x)
              \/ \E r \in Replica : \/ BeginMalformed(r) \/ Settle(r) \/ SettleTooLate(r)
                                    \/ SettleFails(r) \/ Crash(r)
              \/ \E c \in ManualCall : Respond(c) \/ CutOff(c)
              \/ \E r \in Replica : Receive(r)
              \/ \E x \in Runner : Begin(x)
              \/ \E m \in Message : ExpireAbandoned(m) \/ ExpireHeld(m)
  BY <1>6 DEF Next, Consume, ProcessDocument, Failures
<1> QED BY <1>1, <1>2, <1>3, <1>4, <1>5, <1>7

LEMMA CoveredInit == ASSUME IsFiniteSet(Job), Init PROVE AllCovered
<1>1. Sound
  BY SoundInit
<1>2. /\ \A x \in Runner : run[x] = Idle
      /\ \A r \in Replica : batch[r] = {}
      /\ \A d \in Albaran : receipts[d] = 0
  BY DEF Init
<1> SUFFICES ASSUME NEW d \in Albaran PROVE Covered(d)
  BY DEF AllCovered
<1>3. \A x \in Runner : ~PostingAhead(x)
  BY <1>2 DEF PostingAhead, Idle
<1>4. MayPost(d) = {}
  BY <1>2, <1>3 DEF MayPost
<1>5. IsFiniteSet(Jobs(d)) /\ Jobs(d) \subseteq Job
  BY FS_Subset DEF Jobs
<1>6. SumFunctionOnSet(AttemptsMade, Jobs(d)) \in Nat
  BY <1>1, <1>5, AttemptsType, SumType
<1>7. IsFiniteSet(MayPost(d)) /\ Cardinality(MayPost(d)) = 0
  BY <1>4, FS_EmptySet
<1> QED BY <1>2, <1>6, <1>7 DEF Covered

\* Retries multiply postings, but never past the deliveries of the messages
\* about a document and the calls for it.
THEOREM ReceiptsAreBounded == ASSUME IsFiniteSet(Job) PROVE Spec => []ReceiptsBounded
<1>1. Init => Sound /\ AllCovered
  BY SoundInit, CoveredInit
<1>2. Sound /\ AllCovered /\ [Next]_vars => (Sound /\ AllCovered)'
  BY SoundStep, CoveredStep
<1>3. Sound /\ AllCovered => ReceiptsBounded
  <2> SUFFICES ASSUME Sound, AllCovered, NEW d \in Albaran
               PROVE  receipts[d] <= SumFunctionOnSet([j \in Job |-> Attempts(j)], Jobs(d))
    BY DEF ReceiptsBounded
  <2>1. PICK f : f = SumFunctionOnSet(AttemptsMade, Jobs(d))
    OBVIOUS
  <2>2. IsFiniteSet(Jobs(d)) /\ Jobs(d) \subseteq Job
    BY FS_Subset DEF Jobs
  <2>3. f \in Nat
    BY <2>1, <2>2, AttemptsType, SumType
  <2>4. IsFiniteSet(MayPost(d)) /\ receipts[d] + Cardinality(MayPost(d)) <= f
    BY <2>1 DEF AllCovered, Covered
  <2>5. Cardinality(MayPost(d)) \in Nat /\ receipts[d] \in Nat
    BY <2>4, FS_CardinalityType DEF Sound, World
  <2> QED BY <2>1, <2>3, <2>4, <2>5 DEF AttemptsMade
<1> QED BY <1>1, <1>2, <1>3, PTL DEF Spec

-----------------------------------------------------------------------------
(* The contract.  First, what a step of the code has to do to be a step of *)
(* the contract.                                                           *)

Docs == [d \in Albaran |-> record[d].status]
States == [m \in Message |-> MessageState(m)]
Reached == [m \in Message |-> Progress(m)]

SameProgress == \A m \in Message : Progress(m)' = Progress(m)
OthersProgress(j) == \A m \in Message : m # j => Progress(m)' = Progress(m)

LEMMA StutterMap ==
  ASSUME UNCHANGED <<record, handoffs, message, deliveries>>, SameProgress
  PROVE  UNCHANGED Contract!vars
<1>1. Docs' = Docs
  BY DEF Docs
<1>2. States' = States
  BY DEF States, MessageState
<1>3. Reached' = Reached
  BY DEF Reached, SameProgress
<1> QED BY <1>1, <1>2, <1>3 DEF Docs, States, Reached, Contract!vars

LEMMA DocsMap ==
  ASSUME Sound, NEW d \in Albaran, NEW status \in Status,
         record' = [record EXCEPT ![d] = OrchestratorDocument(status)]
  PROVE  Docs' = [Docs EXCEPT ![d] = status]
<1>1. ASSUME NEW e \in Albaran PROVE Docs'[e] = [Docs EXCEPT ![d] = status][e]
  BY Written DEF Docs, Sound, World
<1> QED BY <1>1 DEF Docs

LEMMA ReachedMap ==
  ASSUME NEW j \in Message, OthersProgress(j), NEW p, Progress(j)' = p
  PROVE  Reached' = [Reached EXCEPT ![j] = p]
<1>1. ASSUME NEW m \in Message PROVE Reached'[m] = [Reached EXCEPT ![j] = p][m]
  BY DEF Reached, OthersProgress
<1> QED BY <1>1 DEF Reached

LEMMA MarkMap ==
  ASSUME Sound, NEW j \in Message, Target[j] \in Albaran, message[j] = "locked", Progress(j) = "none",
         NEW status \in {"processing"} \cup OutcomeStatus,
         record' = [record EXCEPT ![Target[j]] = OrchestratorDocument(status)],
         UNCHANGED <<handoffs, message, deliveries>>, SameProgress
  PROVE  Contract!Next
<1>1. Docs' = [Docs EXCEPT ![Target[j]] = status]
  BY DocsMap, StatusNames
<1>2. States' = States /\ States[j] = "taken"
  BY DEF States, MessageState
<1>3. Reached' = Reached /\ Reached[j] = "none"
  BY DEF Reached, SameProgress
<1>4. Contract!Mark(j, status)
  BY <1>1, <1>2, <1>3 DEF Docs, States, Reached, Contract!Mark, Contract!SetDoc
<1> QED BY <1>4 DEF Contract!Next

LEMMA RecordMap ==
  ASSUME Sound, NEW j \in Message, Target[j] \in Albaran, message[j] = "locked", Progress(j) = "none",
         NEW status \in OutcomeStatus,
         record' = [record EXCEPT ![Target[j]] = OrchestratorDocument(status)],
         UNCHANGED <<handoffs, message, deliveries>>, OthersProgress(j),
         Progress(j)' = IF status = "hitl_pending" THEN "review" ELSE "recorded"
  PROVE  Contract!Next
<1>1. Docs' = [Docs EXCEPT ![Target[j]] = status]
  BY DocsMap, StatusNames
<1>2. States' = States /\ States[j] = "taken"
  BY DEF States, MessageState
<1>3. /\ Reached' = [Reached EXCEPT ![j] = IF status = "hitl_pending" THEN "review" ELSE "recorded"]
      /\ Reached[j] = "none"
  BY ReachedMap DEF Reached
<1>4. Contract!Record(j, status)
  BY <1>1, <1>2, <1>3
     DEF Docs, States, Reached, Contract!Record, Contract!SetDoc, Contract!Reach
<1> QED BY <1>4 DEF Contract!Next

LEMMA HandOverMap ==
  ASSUME Sound, NEW j \in Message, message[j] = "locked", Progress(j) = "review",
         handoffs' = [handoffs EXCEPT ![Target[j]] = @ + 1],
         UNCHANGED <<record, message, deliveries>>, OthersProgress(j),
         Progress(j)' = "recorded"
  PROVE  Contract!Next
<1>1. Docs' = Docs
  BY DEF Docs
<1>2. States' = States /\ States[j] = "taken"
  BY DEF States, MessageState
<1>3. Reached' = [Reached EXCEPT ![j] = "recorded"] /\ Reached[j] = "review"
  BY ReachedMap DEF Reached
<1>4. Contract!HandOver(j)
  BY <1>1, <1>2, <1>3
     DEF Docs, States, Reached, Contract!HandOver, Contract!HandedOver, Contract!Reach
<1> QED BY <1>4 DEF Contract!Next

LEMMA FailureMap ==
  ASSUME Sound, NEW j \in Message, Target[j] \in Albaran, message[j] = "locked", Progress(j) = "none",
         record' = [record EXCEPT ![Target[j]] = OrchestratorDocument("failed")],
         UNCHANGED <<handoffs, message, deliveries>>, OthersProgress(j),
         Progress(j)' = "failure"
  PROVE  Contract!Next
<1>1. Docs' = [Docs EXCEPT ![Target[j]] = "failed"]
  BY DocsMap, StatusNames
<1>2. States' = States /\ States[j] = "taken"
  BY DEF States, MessageState
<1>3. Reached' = [Reached EXCEPT ![j] = "failure"] /\ Reached[j] = "none"
  BY ReachedMap DEF Reached
<1>4. Contract!RecordFailure(j)
  BY <1>1, <1>2, <1>3
     DEF Docs, States, Reached, Contract!RecordFailure, Contract!SetDoc, Contract!Reach
<1> QED BY <1>4 DEF Contract!Next

LEMMA LoseMap ==
  ASSUME Sound, NEW j \in Message, message[j] = "locked",
         UNCHANGED <<record, message, deliveries>>, OthersProgress(j), Progress(j)' = "none",
         \/ UNCHANGED handoffs
         \/ Progress(j) = "review" /\ handoffs' = [handoffs EXCEPT ![Target[j]] = @ + 1]
  PROVE  Contract!Next
<1>1. Docs' = Docs
  BY DEF Docs
<1>2. States' = States /\ States[j] = "taken"
  BY DEF States, MessageState
<1>3. Reached' = [Reached EXCEPT ![j] = "none"] /\ Reached[j] = Progress(j)
  BY ReachedMap DEF Reached
<1>4. Contract!Lose(j)
  BY <1>1, <1>2, <1>3
     DEF Docs, States, Reached, Contract!Lose, Contract!HandedOver, Contract!Reach
<1> QED BY <1>4 DEF Contract!Next

Shown(s) == IF s = "queued" THEN "waiting" ELSE IF s = "locked" THEN "taken"
            ELSE IF s = "completed" THEN "done" ELSE "given_up"

LEMMA StatesShown ==
  /\ Sound => States = [m \in Message |-> Shown(message[m])]
  /\ message' \in [Message -> MessageStates] => States' = [m \in Message |-> Shown(message'[m])]
<1>1. ASSUME NEW m \in Message, message[m] \in MessageStates
      PROVE  MessageState(m) = Shown(message[m])
  BY <1>1 DEF MessageState, MessageStates, Shown
<1>2. ASSUME NEW m \in Message, message'[m] \in MessageStates
      PROVE  MessageState(m)' = Shown(message'[m])
  BY <1>2 DEF MessageState, MessageStates, Shown
<1>3. Sound => message \in [Message -> MessageStates]
  BY DEF Sound, Broker, MessageStates
<1> QED BY <1>1, <1>2, <1>3 DEF States

\* A message leaves its lock.
LEMMA StatesMap ==
  ASSUME Sound, NEW j \in Message, NEW s \in MessageStates,
         message[j] = "locked", message' = [message EXCEPT ![j] = s]
  PROVE  States[j] = "taken" /\ States' = [States EXCEPT ![j] = Shown(s)]
<1>1. message' \in [Message -> MessageStates] /\ message \in [Message -> MessageStates]
  BY DEF Sound, Broker, MessageStates
<1>2. States' = [m \in Message |-> Shown(message'[m])] /\ States = [m \in Message |-> Shown(message[m])]
  BY <1>1, StatesShown
<1>3. [m \in Message |-> Shown(message'[m])]
        = [[m \in Message |-> Shown(message[m])] EXCEPT ![j] = Shown(s)]
  BY <1>1
<1> QED BY <1>2, <1>3 DEF Shown

LEMMA ReleaseMap ==
  ASSUME Sound, NEW j \in Message, message[j] = "locked", Progress(j) = "none",
         message' = [message EXCEPT ![j] = Unlocked(j)],
         UNCHANGED <<record, handoffs, deliveries>>, SameProgress
  PROVE  Contract!Next
<1>1. Docs' = Docs
  BY DEF Docs
<1>2. /\ States[j] = "taken"
      /\ States' = [States EXCEPT ![j] = IF deliveries[j] >= BrokerLimit THEN "given_up" ELSE "waiting"]
  <2>1. CASE deliveries[j] >= BrokerLimit
    BY <2>1, StatesMap DEF MessageStates, Unlocked, Shown
  <2>2. CASE ~(deliveries[j] >= BrokerLimit)
    BY <2>2, StatesMap DEF MessageStates, Unlocked, Shown
  <2> QED BY <2>1, <2>2
<1>3. Reached' = Reached /\ Reached[j] = "none"
  BY DEF Reached, SameProgress
<1>4. Contract!Release(j)
  BY <1>1, <1>2, <1>3
     DEF Docs, States, Reached, Contract!Release, Contract!Move, Contract!Kept
<1> QED BY <1>4 DEF Contract!Next

LEMMA FinishMap ==
  ASSUME Sound, NEW j \in Message, message[j] = "locked", NEW decision,
         Progress(j) = IF decision = "failed" THEN "failure" ELSE "recorded",
         message' = [message EXCEPT ![j] = Settled(j, decision)],
         UNCHANGED <<record, handoffs, deliveries>>, OthersProgress(j), Progress(j)' = "none"
  PROVE  Contract!Next
<1>1. Docs' = Docs
  BY DEF Docs
<1>2. Reached' = [Reached EXCEPT ![j] = "none"] /\ Reached[j] = Progress(j)
  BY ReachedMap DEF Reached
<1>3. CASE decision # "failed"
  <2>1. States[j] = "taken" /\ States' = [States EXCEPT ![j] = "done"]
    BY <1>3, StatesMap DEF MessageStates, Shown, Settled
  <2>2. Contract!Finish(j)
    BY <1>1, <1>2, <1>3, <2>1
       DEF Docs, States, Reached, Contract!Finish, Contract!Move, Contract!Reach
  <2> QED BY <2>2 DEF Contract!Next
<1>4. CASE decision = "failed" /\ DeliveryCount(j) >= MaxDeliveryAttempts
  <2>1. States[j] = "taken" /\ States' = [States EXCEPT ![j] = "given_up"]
    BY <1>4, StatesMap DEF MessageStates, Shown, Settled
  <2>2. deliveries[j] >= MaxDeliveryAttempts + 1 - FirstCount
    BY <1>4, OrchestratorAssumption DEF DeliveryCount, Sound, Broker
  <2>3. Contract!Finish(j)
    BY <1>1, <1>2, <1>4, <2>1, <2>2
       DEF Docs, States, Reached, Contract!Finish, Contract!Move, Contract!Reach
  <2> QED BY <2>3 DEF Contract!Next
<1>5. CASE decision = "failed" /\ ~(DeliveryCount(j) >= MaxDeliveryAttempts)
  <2>1. /\ States[j] = "taken"
        /\ States' = [States EXCEPT ![j] = IF deliveries[j] >= BrokerLimit THEN "given_up" ELSE "waiting"]
    <3>1. CASE deliveries[j] >= BrokerLimit
      BY <1>5, <3>1, StatesMap DEF MessageStates, Shown, Settled, Unlocked
    <3>2. CASE ~(deliveries[j] >= BrokerLimit)
      BY <1>5, <3>2, StatesMap DEF MessageStates, Shown, Settled, Unlocked
    <3> QED BY <3>1, <3>2
  <2>2. deliveries[j] < MaxDeliveryAttempts + 1 - FirstCount
    BY <1>5, OrchestratorAssumption DEF DeliveryCount, Sound, Broker
  <2>3. Contract!Finish(j)
    BY <1>1, <1>2, <1>5, <2>1, <2>2
       DEF Docs, States, Reached, Contract!Finish, Contract!Move, Contract!Reach, Contract!Kept
  <2> QED BY <2>3 DEF Contract!Next
<1> QED BY <1>3, <1>4, <1>5

LEMMA TakeMap ==
  ASSUME Sound, NEW S \in SUBSET {m \in Message : message[m] = "queued"},
         message' = [m \in Message |-> IF m \in S THEN "locked" ELSE message[m]],
         deliveries' = [m \in Message |-> deliveries[m] + IF m \in S THEN 1 ELSE 0],
         UNCHANGED <<record, handoffs>>, SameProgress
  PROVE  Contract!Next
<1>1. Docs' = Docs /\ Reached' = Reached
  BY DEF Docs, Reached, SameProgress
<1>2. /\ message \in [Message -> MessageStates] /\ message' \in [Message -> MessageStates]
      /\ \A m \in S : message[m] = "queued"
  BY DEF Sound, Broker, MessageStates
<1>3. /\ \A m \in S : States[m] = "waiting"
      /\ States' = [m \in Message |-> IF m \in S THEN "taken" ELSE States[m]]
  <2>1. States = [m \in Message |-> Shown(message[m])] /\ States' = [m \in Message |-> Shown(message'[m])]
    BY <1>2, StatesShown
  <2> QED BY <1>2, <2>1 DEF Shown
<1>4. deliveries' = [m \in Message |-> IF m \in S THEN deliveries[m] + 1 ELSE deliveries[m]]
  BY DEF Sound, Broker
<1>5. Contract!Take(S)
  BY <1>1, <1>3, <1>4 DEF Docs, States, Reached, Contract!Take
<1> QED BY <1>5 DEF Contract!Next

-----------------------------------------------------------------------------
(* Then the progress of an attempt, which is in the run of its consumer.   *)

Late(r) == run[r].pc \in {"handoff", "settle"}

LEMMA ProgressHeld ==
  ASSUME Sound, Held, NEW r \in Replica, NEW j \in batch[r]
  PROVE  /\ run[r].job # j \/ ~Late(r) => Progress(j) = "none"
         /\ run[r].job = j /\ run[r].pc = "handoff" => Progress(j) = "review"
         /\ run[r].job = j /\ run[r].pc = "settle" =>
              Progress(j) = IF run[r].decision = "failed" THEN "failure" ELSE "recorded"
<1>1. message[j] = "locked" /\ holder[j] = r
  BY DEF Held
<1> QED BY <1>1 DEF Progress, Late

LEMMA ProgressLater ==
  ASSUME Sound, Held, NEW r \in Replica, NEW j \in batch[r], UNCHANGED <<message, holder>>
  PROVE  /\ run'[r].job # j \/ ~Late(r)' => Progress(j)' = "none"
         /\ run'[r].job = j /\ run'[r].pc = "handoff" => Progress(j)' = "review"
         /\ run'[r].job = j /\ run'[r].pc = "settle" =>
              Progress(j)' = IF run'[r].decision = "failed" THEN "failure" ELSE "recorded"
<1>1. message'[j] = "locked" /\ holder'[j] = r
  BY DEF Held
<1> QED BY <1>1 DEF Progress, Late

LEMMA ProgressUnlocked ==
  ASSUME NEW m \in Message
  PROVE  /\ message[m] # "locked" => Progress(m) = "none"
         /\ message'[m] # "locked" => Progress(m)' = "none"
  BY DEF Progress

LEMMA ProgressAbandoned ==
  ASSUME Sound, NEW m \in Message, message[m] = "locked", m \notin batch[holder[m]]
  PROVE  Progress(m) = "none"
<1>1. PICK r \in Replica : r = holder[m]
  BY DEF Sound, Broker
<1>2. run[r].job # m \/ ~Late(r)
  BY <1>1 DEF Late, Sound, RunsFit, Fits, Runner
<1> QED BY <1>1, <1>2 DEF Progress, Late

\* Only the run of r changes, and the lock of j, which is what r is about.
LEMMA ProgressFrame ==
  ASSUME Sound, NEW r \in Replica, NEW j, UNCHANGED holder,
         \A q \in Replica : q # r => run'[q] = run[q],
         \A m \in Message : m # j => message'[m] = message[m],
         run[r].job = j \/ ~Late(r), run'[r].job = j \/ ~Late(r)'
  PROVE  OthersProgress(j)
<1> SUFFICES ASSUME NEW m \in Message, m # j PROVE Progress(m)' = Progress(m)
  BY DEF OthersProgress
<1>1. message'[m] = message[m] /\ holder'[m] = holder[m]
  OBVIOUS
<1>2. CASE message[m] # "locked"
  BY <1>1, <1>2, ProgressUnlocked
<1>3. CASE message[m] = "locked" /\ holder[m] # r
  <2>1. holder[m] \in Replica
    BY <1>3 DEF Sound, Broker
  <2>2. run'[holder[m]] = run[holder[m]]
    BY <1>3, <2>1
  <2> QED BY <1>1, <1>3, <2>2 DEF Progress
<1>4. CASE message[m] = "locked" /\ holder[m] = r
  <2>1. Progress(m) = "none"
    BY <1>4 DEF Progress, Late
  <2>2. Progress(m)' = "none"
    BY <1>1, <1>4 DEF Progress, Late
  <2> QED BY <2>1, <2>2
<1> QED BY <1>2, <1>3, <1>4

LEMMA ProgressEarly ==
  ASSUME Sound, NEW r \in Replica, UNCHANGED <<message, holder>>,
         \A q \in Replica : q # r => run'[q] = run[q], ~Late(r), ~Late(r)'
  PROVE  SameProgress
<1>1. PICK j : j \notin Message
  BY OrchestratorAssumption DEF Job
<1>2. OthersProgress(j)
  BY ProgressFrame
<1> QED BY <1>1, <1>2 DEF OthersProgress, SameProgress

-----------------------------------------------------------------------------
(* Last, the steps of the code, one by one.                                *)

Kept == Contract!Next \/ UNCHANGED Contract!vars

LEMMA KeptBroker ==
  ASSUME Undisturbed, Sound, Held,
         \/ \E r \in Replica : Receive(r)
         \/ \E m \in Message : ExpireAbandoned(m)
  PROVE  Kept
<1>1. ASSUME NEW r \in Replica, Receive(r) PROVE Kept
  <2>1. PICK S \in SUBSET {m \in Message : message[m] = "queued"} :
          /\ message' = [m \in Message |-> IF m \in S THEN "locked" ELSE message[m]]
          /\ deliveries' = [m \in Message |-> deliveries[m] + IF m \in S THEN 1 ELSE 0]
          /\ holder' = [m \in Message |-> IF m \in S THEN r ELSE holder[m]]
    BY <1>1 DEF Receive
  <2>2. UNCHANGED <<record, handoffs, run>> /\ run[r] = Idle
    BY <1>1 DEF Receive, world
  <2>3. ASSUME NEW m \in Message PROVE Progress(m)' = Progress(m)
    <3>1. CASE m \in S
      <4>1. message'[m] = "locked" /\ holder'[m] = r /\ run'[r].pc = "idle"
        BY <2>1, <2>2, <3>1 DEF Idle
      <4>2. Progress(m)' = "none"
        BY <4>1 DEF Progress
      <4>3. Progress(m) = "none"
        BY <2>1, <3>1, ProgressUnlocked
      <4> QED BY <4>2, <4>3
    <3>2. CASE m \notin S
      <4>1. message'[m] = message[m] /\ holder'[m] = holder[m]
        BY <2>1, <3>2
      <4> QED BY <2>2, <4>1 DEF Progress
    <3> QED BY <3>1, <3>2
  <2> QED BY <2>1, <2>2, <2>3, TakeMap DEF SameProgress, Kept
<1>2. ASSUME NEW n \in Message, ExpireAbandoned(n) PROVE Kept
  <2>1. /\ UNCHANGED <<record, handoffs, deliveries, holder, run>> /\ message[n] = "locked"
        /\ message' = [message EXCEPT ![n] = Unlocked(n)] /\ n \notin batch[holder[n]]
    BY <1>2 DEF ExpireAbandoned, world
  <2>2. Progress(n) = "none"
    BY <2>1, ProgressAbandoned
  <2>3. message'[n] # "locked" /\ \A m \in Message : m # n => message'[m] = message[m]
    BY <2>1 DEF Unlocked, Sound, Broker
  <2>4. ASSUME NEW m \in Message PROVE Progress(m)' = Progress(m)
    <3>1. CASE m = n
      BY <2>2, <2>3, <3>1, ProgressUnlocked
    <3>2. CASE m # n
      BY <2>1, <2>3, <3>2 DEF Progress
    <3> QED BY <3>1, <3>2
  <2> QED BY <2>1, <2>2, <2>4, ReleaseMap DEF SameProgress, Kept
<1> QED BY <1>1, <1>2

\* Before the outcome is written, runs only mark their documents.
LEMMA KeptMark ==
  ASSUME Undisturbed, Sound, Held, NEW r \in Replica, NEW j \in batch[r] \ Malformed,
         NEW status \in {"processing"} \cup OutcomeStatus,
         record' = [record EXCEPT ![Target[j]] = OrchestratorDocument(status)],
         UNCHANGED <<handoffs, message, deliveries, holder>>,
         \A q \in Replica : q # r => run'[q] = run[q], ~Late(r), ~Late(r)'
  PROVE  Kept
<1>1. j \in Message /\ message[j] = "locked" /\ j \in batch[r]
  BY Alone
<1>2. Target[j] \in Albaran
  BY <1>1, Aimed, Replicas
<1>3. Progress(j) = "none"
  BY <1>1, ProgressHeld
<1> QED BY <1>1, <1>2, <1>3, ProgressEarly, MarkMap DEF Kept

LEMMA KeptQuiet ==
  ASSUME Sound, NEW r \in Replica, UNCHANGED <<record, handoffs, message, deliveries, holder>>,
         \A q \in Replica : q # r => run'[q] = run[q], ~Late(r), ~Late(r)'
  PROVE  Kept
  BY ProgressEarly, StutterMap DEF Kept

LEMMA KeptEarly ==
  ASSUME Undisturbed, Sound, Held, NEW r \in Replica,
         Begin(r) \/ RunPipeline(r) \/ PostInventory(r)
  PROVE  Kept
<1>1. /\ UNCHANGED <<handoffs, message, deliveries, holder>> /\ ~Late(r)
      /\ \A q \in Replica : q # r => run'[q] = run[q]
      /\ ~Late(r)'
  <2>1. UNCHANGED <<handoffs, message, deliveries, holder>> /\ ~Late(r)
    BY DEF Begin, RunPipeline, PostInventory, broker, world, Late, Idle
  <2> QED BY <2>1, EarlyRun DEF Late
<1>2. CASE Begin(r)
  <2>1. PICK j \in batch[r] \ Malformed :
          record' = [record EXCEPT ![Target[j]] = OrchestratorDocument("processing")]
    BY <1>2 DEF Begin, Startable
  <2> QED BY <1>1, <2>1, KeptMark
<1>3. CASE RunPipeline(r) \/ PostInventory(r)
  BY <1>1, <1>3, KeptQuiet DEF RunPipeline, PostInventory, world
<1> QED BY <1>2, <1>3

LEMMA KeptWrite ==
  ASSUME Undisturbed, Sound, Held, NEW r \in Replica, WriteResult(r)
  PROVE  Kept
<1>1. /\ UNCHANGED <<handoffs, message, deliveries, holder>> /\ run[r].pc = "write"
      /\ r \in Runner /\ Active(r)
  BY DEF WriteResult, broker, Runner, Active
<1>2. PICK status \in OutcomeStatus :
        /\ Write(r, status)
        /\ \A q \in Replica : q # r => run'[q] = run[q]
        /\ run'[r].job = run[r].job /\ run'[r].decision = run[r].decision
        /\ run'[r].pc = IF status = "hitl_pending" THEN "handoff" ELSE "settle"
  BY WriteRun
<1>3. PICK j \in Message : /\ j = run[r].job /\ j \in batch[r]
                           /\ Subject(r) = Target[j] /\ Target[j] \in Albaran
  BY <1>1, AtWork
<1>4. run[r].decision # "failed"
  BY <1>1 DEF Sound, RunsFit, Fits, Routed
<1>5. message[j] = "locked" /\ Progress(j) = "none"
  BY <1>1, <1>3, Alone, ProgressHeld DEF Late
<1>6. Progress(j)' = IF status = "hitl_pending" THEN "review" ELSE "recorded"
  BY <1>1, <1>2, <1>3, <1>4, ProgressLater
<1>7. OthersProgress(j)
  BY <1>1, <1>2, <1>3, ProgressFrame
<1>8. record' = [record EXCEPT ![Target[j]] = OrchestratorDocument(status)]
  BY <1>2, <1>3 DEF Write
<1> QED BY <1>1, <1>3, <1>5, <1>6, <1>7, <1>8, RecordMap DEF Kept

LEMMA KeptSend ==
  ASSUME Undisturbed, Sound, Held, NEW r \in Replica, SendHitlMessage(r)
  PROVE  Kept
<1>1. /\ UNCHANGED <<record, message, deliveries, holder>> /\ run[r].pc = "handoff"
      /\ r \in Runner /\ Active(r)
  BY DEF SendHitlMessage, broker, Runner, Active
<1>2. PICK j \in Message : j = run[r].job /\ j \in batch[r] /\ Subject(r) = Target[j]
  BY <1>1, AtWork
<1>3. run[r].decision # "failed"
  BY <1>1 DEF Sound, RunsFit, Fits, Routed
<1>4. message[j] = "locked" /\ Progress(j) = "review"
  BY <1>1, <1>2, Alone, ProgressHeld
<1>5. Progress(j)' = "recorded"
  BY <1>1, <1>2, <1>3, SendRun, ProgressLater
<1>6. OthersProgress(j)
  BY <1>1, <1>2, SendRun, ProgressFrame
<1>7. handoffs' = [handoffs EXCEPT ![Target[j]] = @ + 1]
  BY <1>2 DEF SendHitlMessage, HandOver
<1> QED BY <1>1, <1>4, <1>5, <1>6, <1>7, HandOverMap DEF Kept

LEMMA KeptFail ==
  ASSUME Undisturbed, Sound, Held, NEW r \in Replica, FailInTry(r) \/ WriteFailed(r)
  PROVE  Kept
<1>1. /\ UNCHANGED <<message, deliveries, holder>> /\ r \in Runner /\ Active(r)
      /\ \A q \in Replica : q # r => run'[q] = run[q]
  <2>1. UNCHANGED <<message, deliveries, holder>> /\ r \in Runner /\ Active(r)
    BY DEF FailInTry, WriteFailed, broker, Runner, Active
  <2> QED BY <2>1, FailRun
<1>2. PICK j \in Message :
        /\ j = run[r].job /\ j \in batch[r] /\ j \notin Malformed
        /\ Subject(r) = Target[j] /\ Target[j] \in Albaran
  BY <1>1, AtWork
<1>3. message[j] = "locked"
  BY <1>2, Alone
<1>4. OthersProgress(j)
  BY <1>1, <1>2, FailRun, ProgressFrame
<1>5. CASE WriteFailed(r)
  <2>1. /\ record' = [record EXCEPT ![Target[j]] = OrchestratorDocument("failed")]
        /\ UNCHANGED handoffs /\ run[r].pc = "fail"
    BY <1>2, <1>5 DEF WriteFailed, Write
  <2>2. Progress(j) = "none"
    BY <1>2, <2>1, ProgressHeld DEF Late
  <2>3. Progress(j)' = "failure"
    BY <1>1, <1>2, <1>5, FailRun, ProgressLater
  <2> QED BY <1>1, <1>2, <1>3, <1>4, <2>1, <2>2, <2>3, FailureMap DEF Kept
<1>6. CASE FailInTry(r)
  <2>1. ~Late(r)'
    BY <1>6, FailRun DEF Late
  <2>2. CASE run[r].pc = "handoff"
    <3>1. UNCHANGED record /\ (UNCHANGED handoffs \/ HandOver(r))
      BY <1>6, <2>2 DEF FailInTry, world
    <3>2. run[r].decision # "failed"
      BY <1>1, <2>2 DEF Sound, RunsFit, Fits, Routed
    <3>3. Progress(j) = "review" /\ Progress(j)' = "none"
      BY <1>1, <1>2, <2>1, <2>2, <3>2, ProgressHeld, ProgressLater
    <3>4. UNCHANGED handoffs \/ handoffs' = [handoffs EXCEPT ![Target[j]] = @ + 1]
      BY <1>2, <3>1 DEF HandOver
    <3> QED BY <1>1, <1>3, <1>4, <3>1, <3>3, <3>4, LoseMap DEF Kept
  <2>3. CASE run[r].pc # "handoff"
    <3>1. ~Late(r) /\ UNCHANGED handoffs
      BY <1>6, <2>3 DEF FailInTry, world, Late
    <3>2. UNCHANGED record \/ \E status \in OutcomeStatus : Write(r, status)
      BY <1>6, <2>3, StatusOfDecision DEF FailInTry, world
    <3>3. ASSUME NEW status \in OutcomeStatus, Write(r, status) PROVE Kept
      <4>1. record' = [record EXCEPT ![Target[j]] = OrchestratorDocument(status)]
        BY <1>2, <3>3 DEF Write
      <4> QED BY <1>1, <1>2, <2>1, <3>1, <4>1, KeptMark
    <3> QED BY <1>1, <2>1, <3>1, <3>2, <3>3, KeptQuiet
  <2> QED BY <2>2, <2>3
<1> QED BY <1>5, <1>6

LEMMA EndRun ==
  ASSUME Sound, NEW r \in Replica,
         Raise(r) \/ run' = [run EXCEPT ![r] = Idle]
  PROVE  ~Late(r)' /\ \A q \in Replica : q # r => run'[q] = run[q]
  BY DEF Raise, Idle, Dead, Late, Sound, Runner

LEMMA KeptRaise ==
  ASSUME Undisturbed, Sound, Held, NEW r \in Replica,
         BeginFails(r) \/ WriteFailedFails(r) \/ BeginMalformed(r)
  PROVE  Kept
<1>1. UNCHANGED <<handoffs, message, deliveries, holder>> /\ Raise(r) /\ ~Late(r)
  BY DEF BeginFails, WriteFailedFails, BeginMalformed, broker, world, Late, Idle
<1>2. ASSUME NEW j \in batch[r] \ Malformed, NEW status \in {"processing"} \cup OutcomeStatus,
             record' = [record EXCEPT ![Target[j]] = OrchestratorDocument(status)]
      PROVE  Kept
  BY <1>1, <1>2, EndRun, KeptMark
<1>3. CASE UNCHANGED record
  BY <1>1, <1>3, EndRun, KeptQuiet
<1>4. CASE BeginFails(r)
  <2>1. UNCHANGED record \/ \E j \in batch[r] \ Malformed :
          record' = [record EXCEPT ![Target[j]] = OrchestratorDocument("processing")]
    BY <1>4 DEF BeginFails, Startable
  <2> QED BY <1>2, <1>3, <2>1
<1>5. CASE WriteFailedFails(r)
  <2>1. Subject(r) = Target[run[r].job] /\ run[r].job \in batch[r] \ Malformed
    BY <1>5, AtWork DEF WriteFailedFails, Active
  <2>2. UNCHANGED record \/ record' = [record EXCEPT ![Target[run[r].job]] = OrchestratorDocument("failed")]
    BY <1>5, <2>1 DEF WriteFailedFails, Write
  <2> QED BY <1>2, <1>3, <2>1, <2>2, StatusNames
<1> QED BY <1>3, <1>4, <1>5 DEF BeginMalformed, world

\* What ends an attempt: a settlement, or a loss of all it achieved.
LEMMA KeptEnd ==
  ASSUME Undisturbed, Sound, Held, NEW r \in Replica,
         Settle(r) \/ SettleFails(r) \/ SettleTooLate(r) \/ Crash(r)
  PROVE  Kept
<1>1. /\ UNCHANGED <<record, handoffs, deliveries, holder>>
      /\ Raise(r) \/ run' = [run EXCEPT ![r] = Idle]
  BY DEF Settle, SettleFails, SettleTooLate, Crash, world, broker
<1>2. ~Late(r)' /\ \A q \in Replica : q # r => run'[q] = run[q]
  BY <1>1, EndRun
<1>3. CASE UNCHANGED message /\ ~Late(r)
  BY <1>1, <1>2, <1>3, KeptQuiet
<1>4. ASSUME Late(r) PROVE Kept
  <2>1. PICK j \in Message : j = run[r].job /\ j \in batch[r]
    BY <1>4, AtWork DEF Late, Active
  <2>2. message[j] = "locked" /\ holder[j] = r
    BY <2>1, Alone
  <2>3. CASE UNCHANGED message
    <3>1. OthersProgress(j)
      BY <1>1, <1>2, <2>1, <2>3, ProgressFrame
    <3>2. Progress(j)' = "none"
      BY <1>1, <1>2, <2>1, <2>3, ProgressLater
    <3> QED BY <1>1, <2>2, <2>3, <3>1, <3>2, LoseMap DEF Kept
  <2>4. CASE /\ run[r].pc = "settle"
             /\ message' = [message EXCEPT ![j] = Settled(j, run[r].decision)]
    <3>1. message'[j] # "locked" /\ \A m \in Message : m # j => message'[m] = message[m]
      BY <2>4, SettledType DEF Sound, Broker
    <3>2. OthersProgress(j)
      BY <1>1, <1>2, <2>1, <3>1, ProgressFrame
    <3>3. Progress(j)' = "none"
      BY <3>1, ProgressUnlocked
    <3>4. Progress(j) = IF run[r].decision = "failed" THEN "failure" ELSE "recorded"
      BY <2>1, <2>4, ProgressHeld
    <3> QED BY <1>1, <2>2, <2>4, <3>2, <3>3, <3>4, FinishMap DEF Kept
  <2> QED BY <2>1, <2>3, <2>4 DEF Settle, SettleFails, SettleTooLate, Crash, broker
<1>5. ~Late(r) => UNCHANGED message
  BY DEF Settle, SettleFails, SettleTooLate, Crash, broker, Late
<1> QED BY <1>3, <1>4, <1>5

LEMMA KeptStep == ASSUME Undisturbed, Sound, Held, [Next]_vars PROVE Kept
<1>1. ASSUME NEW r \in Replica, Consume(r) PROVE Kept
  BY <1>1, KeptBroker, KeptEarly, KeptWrite, KeptSend, KeptFail, KeptRaise, KeptEnd
     DEF Consume, ProcessDocument
<1>2. ASSUME NEW m \in Message, ExpireAbandoned(m) PROVE Kept
  BY <1>2, KeptBroker
<1>3. ASSUME Failures PROVE Kept
  <2>1. \A m \in Message : ~ExpireHeld(m)
    BY DEF ExpireHeld, Undisturbed
  <2>2. \E r \in Replica : \/ BeginFails(r) \/ FailInTry(r) \/ WriteFailedFails(r)
                           \/ SettleFails(r) \/ Crash(r)
    BY <1>3, <2>1, Replicas DEF Failures, Undisturbed
  <2> QED BY <2>2, KeptRaise, KeptFail, KeptEnd
<1>4. ASSUME UNCHANGED vars PROVE Kept
  <2>1. UNCHANGED <<record, handoffs, message, deliveries, holder, run>>
    BY <1>4 DEF vars
  <2>2. SameProgress
    BY <2>1 DEF SameProgress, Progress
  <2> QED BY <2>1, <2>2, StutterMap DEF Kept
<1> QED BY <1>1, <1>2, <1>3, <1>4 DEF Next, Undisturbed

LEMMA KeptInit == ASSUME Init PROVE Contract!Init
<1>1. Docs = [d \in Albaran |-> "absent"]
  BY DEF Init, Docs, NoDocument
<1>2. States = [m \in Message |-> "waiting"] /\ Reached = [m \in Message |-> "none"]
  BY DEF Init, States, MessageState, Reached, Progress
<1> QED BY <1>1, <1>2 DEF Init, Docs, States, Reached, Contract!Init

\* However many replicas there are, and whatever fails or crashes, the consumers
\* give every message the treatment the contract promises.
THEOREM ContractIsKept == ASSUME Undisturbed PROVE Spec => KeepsContract
<1>1. Init => Contract!Init
  BY KeptInit
<1>2. Steady /\ [Next]_vars => [Contract!Next]_(Contract!vars)
  BY KeptStep DEF Steady, Kept
<1> QED BY <1>1, <1>2, AlwaysSteady, PTL DEF Spec, KeepsContract, Contract!Spec

=============================================================================
