---------------------------- MODULE Flow0Proofs -----------------------------
(***************************************************************************)
(* Proofs about Flow0Dedup, for any notifications, keys, executions and    *)
(* faults.                                                                 *)
(*                                                                         *)
(* What is forwarded or acknowledged was found or written before, and an   *)
(* upsert never removes a key from Cosmos: it replaces a document by one   *)
(* of the same key.  The bound on the forwards counts, with the forwards   *)
(* of a key, the executions on their way to one: nobody sets out once the  *)
(* key is recorded.                                                        *)
(***************************************************************************)
EXTENDS Flow0Dedup, FiniteSetTheorems, TLAPS

Recorded(R, k) == \E r \in R : r.key = k

Covered(R, e) ==
  \E f \in Event : (f = e \/ NameDateOf[f] = NameDateOf[e]) /\ Recorded(R, KeyOf[f])

\* Every document was built from a notification.
RecordsAreDocuments == \A r \in record : \E f \in Event : r = Document(f)

JobsLooked ==
  \A j \in Job : /\ job[j].pc = "forward" => Recorded(record, KeyOf[job[j].event])
                 /\ job[j].pc = "complete" => Covered(record, job[j].event)

Known ==
  /\ TypeOK /\ RecordsAreDocuments /\ JobsLooked
  /\ ForwardedIsRecorded
  /\ \A e \in Event : message[e] = "completed" => Covered(record, e)

-----------------------------------------------------------------------------
LEMMA TypesInit == Init => TypeOK
  BY Flow0Assumption DEF Init, TypeOK, Idle

LEMMA DocumentType ==
  ASSUME NEW e \in Event
  PROVE  Document(e) \in [key : Key, nameDate : NameDate, pk : Partition]
  BY Flow0Assumption DEF Document

LEMMA TypesStep == TypeOK /\ [Next]_vars => TypeOK'
<1> SUFFICES ASSUME TypeOK, [Next]_vars PROVE TypeOK'
  OBVIOUS
<1> USE Flow0Assumption
<1>1. ASSUME NEW j \in Job, Receive(j) PROVE TypeOK'
  BY <1>1 DEF Receive, TypeOK, Idle
<1>2. ASSUME NEW j \in Job, Lookup(j) PROVE TypeOK'
  BY <1>2 DEF Lookup, Goto, TypeOK, broker
<1>3. ASSUME NEW j \in Job, Upsert(j) PROVE TypeOK'
  <2>1. job[j].event \in Event
    BY <1>3 DEF Upsert, TypeOK
  <2>2. record' \subseteq [key : Key, nameDate : NameDate, pk : Partition]
    BY <1>3, <2>1, DocumentType DEF Upsert, Replacing, TypeOK
  <2> QED BY <1>3, <2>2 DEF Upsert, Goto, TypeOK, broker
<1>4. ASSUME NEW j \in Job, Forward(j) PROVE TypeOK'
  BY <1>4 DEF Forward, Forwarding, Goto, TypeOK, broker
<1>5. ASSUME NEW j \in Job, Fail(j) PROVE TypeOK'
  <2>1. job[j].event \in Event
    BY <1>5 DEF Fail, TypeOK
  <2>2. record' \subseteq [key : Key, nameDate : NameDate, pk : Partition]
    BY <1>5, <2>1, DocumentType DEF Fail, Replacing, TypeOK
  <2>3. forwarded' \in [Key -> Nat]
    BY <1>5 DEF Fail, Forwarding, TypeOK
  <2> QED BY <1>5, <2>2, <2>3 DEF Fail, Fault, Goto, TypeOK, broker
<1>6. ASSUME NEW j \in Job, Complete(j) \/ Abandon(j) PROVE TypeOK'
  <2>1. CASE Complete(j)
    BY <2>1 DEF Complete, Exit, Idle, TypeOK
  <2>2. CASE Abandon(j)
    BY <2>2 DEF Abandon, Exit, Idle, Unlocked, TypeOK
  <2> QED BY <1>6, <2>1, <2>2
<1>7. ASSUME NEW j \in Job, CompleteTooLate(j) PROVE TypeOK'
  BY <1>7 DEF CompleteTooLate, Goto, TypeOK, broker
<1>8. ASSUME NEW j \in Job, Crash(j) PROVE TypeOK'
  BY <1>8 DEF Crash, Exit, Idle, Fault, TypeOK, broker
<1>9. ASSUME NEW e \in Event, ExpireAbandoned(e) \/ ExpireHeld(e) PROVE TypeOK'
  BY <1>9 DEF ExpireAbandoned, ExpireHeld, Fault, Unlocked, TypeOK
<1>10. CASE UNCHANGED vars
  BY <1>10 DEF vars, broker, TypeOK, Idle
<1> QED BY <1>1, <1>2, <1>3, <1>4, <1>5, <1>6, <1>7, <1>8, <1>9, <1>10 DEF Next, Execute

\* The state of Flow 0 always has its types, and a lock its holder.
THEOREM Flow0Types == Spec => []TypeOK
  BY TypesInit, TypesStep, PTL DEF Spec

-----------------------------------------------------------------------------
\* A document may replace another, but no key is ever lost.
LEMMA KeysStay ==
  ASSUME TypeOK, [Next]_vars, NEW k, Recorded(record, k)
  PROVE  Recorded(record', k)
<1>1. ASSUME NEW e \in Event, record' = Replacing(e) PROVE Recorded(record', k)
  <2>1. PICK r \in record : r.key = k
    BY DEF Recorded
  <2>2. CASE r.key # KeyOf[e] \/ r.pk # PartitionOf[e]
    BY <1>1, <2>1, <2>2 DEF Replacing, Recorded
  <2>3. CASE r.key = KeyOf[e]
    <3>1. Document(e) \in record' /\ Document(e).key = k
      BY <1>1, <2>1, <2>3 DEF Replacing, Document
    <3> QED BY <3>1 DEF Recorded
  <2> QED BY <2>2, <2>3
<1>2. CASE UNCHANGED record
  BY <1>2 DEF Recorded
<1>3. ASSUME NEW j \in Job, Upsert(j) \/ Fail(j)
      PROVE  UNCHANGED record \/ \E e \in Event : record' = Replacing(e)
  BY <1>3 DEF Upsert, Fail, TypeOK
<1>4. UNCHANGED record \/ \E j \in Job : Upsert(j) \/ Fail(j)
  BY DEF Next, Execute, vars, Receive, Lookup, Forward, Complete, CompleteTooLate, Abandon, Crash,
         ExpireAbandoned, ExpireHeld
<1> QED BY <1>1, <1>2, <1>3, <1>4

LEMMA KnownInit == Init => Known
<1> SUFFICES ASSUME Init PROVE Known
  OBVIOUS
<1>1. TypeOK
  BY TypesInit
<1>2. RecordsAreDocuments /\ JobsLooked /\ ForwardedIsRecorded
  BY DEF Init, RecordsAreDocuments, JobsLooked, ForwardedIsRecorded, Idle
<1>3. \A e \in Event : message[e] = "completed" => Covered(record, e)
  BY DEF Init
<1> QED BY <1>1, <1>2, <1>3 DEF Known

LEMMA KnownStep == Known /\ [Next]_vars => Known'
<1> SUFFICES ASSUME Known, [Next]_vars PROVE Known'
  OBVIOUS
<1> USE Flow0Assumption DEF Known
<1>1. TypeOK'
  BY TypesStep
<1>2. \A e \in Event : Covered(record, e) => Covered(record', e)
  BY KeysStay DEF Covered
<1>3. \A k \in Key : Recorded(record, k) => Recorded(record', k)
  BY KeysStay
<1>4. RecordsAreDocuments'
  <2>1. ASSUME NEW e \in Event, record' = Replacing(e) PROVE RecordsAreDocuments'
    BY <2>1 DEF Replacing, RecordsAreDocuments
  <2>2. CASE UNCHANGED record
    BY <2>2 DEF RecordsAreDocuments
  <2>3. ASSUME NEW j \in Job, Upsert(j) \/ Fail(j)
        PROVE  UNCHANGED record \/ \E e \in Event : record' = Replacing(e)
    BY <2>3 DEF Upsert, Fail, TypeOK
  <2>4. UNCHANGED record \/ \E j \in Job : Upsert(j) \/ Fail(j)
    BY DEF Next, Execute, vars, Receive, Lookup, Forward, Complete, CompleteTooLate, Abandon,
           Crash, ExpireAbandoned, ExpireHeld
  <2> QED BY <2>1, <2>2, <2>3, <2>4
<1>5. JobsLooked'
  <2> SUFFICES ASSUME NEW i \in Job
               PROVE  /\ job'[i].pc = "forward" => Recorded(record', KeyOf[job'[i].event])
                      /\ job'[i].pc = "complete" => Covered(record', job'[i].event)
    BY DEF JobsLooked
  <2>1. CASE job'[i] = job[i]
    BY <1>2, <1>3, <2>1 DEF JobsLooked, TypeOK
  <2>2. CASE Lookup(i)
    <3> DEFINE e == job[i].event
    <3>1. e \in Event /\ job'[i].event = e /\ UNCHANGED record
      BY <2>2 DEF Lookup, Goto, TypeOK
    <3>2. job'[i].pc # "forward" /\ (job'[i].pc = "complete" => Existing(e) # {})
      BY <2>2 DEF Lookup, Goto, TypeOK
    <3>3. Existing(e) # {} => Covered(record, e)
      BY <3>1 DEF Existing, Covered, Recorded, RecordsAreDocuments, Document
    <3> QED BY <1>2, <3>1, <3>2, <3>3
  <2>3. CASE Upsert(i)
    <3>1. /\ job[i].event \in Event /\ job'[i].event = job[i].event /\ job'[i].pc = "forward"
          /\ record' = Replacing(job[i].event)
      BY <2>3 DEF Upsert, Goto, TypeOK
    <3>2. Document(job[i].event) \in record' /\ Document(job[i].event).key = KeyOf[job[i].event]
      BY <3>1 DEF Replacing, Document
    <3> QED BY <3>1, <3>2 DEF Recorded
  <2>4. CASE Forward(i)
    <3>1. /\ job[i].event \in Event /\ job'[i].event = job[i].event /\ job'[i].pc = "complete"
          /\ job[i].pc = "forward"
      BY <2>4 DEF Forward, Goto, TypeOK
    <3> QED BY <1>2, <3>1 DEF JobsLooked, Covered
  <2>5. ASSUME job'[i] # job[i] PROVE Lookup(i) \/ Upsert(i) \/ Forward(i)
                                       \/ job'[i].pc \in {"idle", "lookup", "abandon"}
    <3>1. ASSUME NEW j \in Job, job' = [job EXCEPT ![j] = Idle]
          PROVE  job'[i].pc = "idle"
      BY <2>5, <3>1 DEF Idle, TypeOK
    <3>2. ASSUME NEW j \in Job, Fail(j) \/ CompleteTooLate(j) PROVE job'[i].pc = "abandon"
      BY <2>5, <3>2 DEF Fail, CompleteTooLate, Goto, TypeOK
    <3>3. ASSUME NEW j \in Job, Receive(j) PROVE job'[i].pc = "lookup"
      BY <2>5, <3>3 DEF Receive, TypeOK
    <3>4. ASSUME NEW j \in Job, Lookup(j) \/ Upsert(j) \/ Forward(j) PROVE i = j
      BY <2>5, <3>4 DEF Lookup, Upsert, Forward, Goto, TypeOK
    <3> QED BY <2>5, <3>1, <3>2, <3>3, <3>4
            DEF Next, Execute, vars, Complete, Abandon, Crash, Exit, ExpireAbandoned, ExpireHeld
  <2> QED BY <2>1, <2>2, <2>3, <2>4, <2>5
<1>6. ForwardedIsRecorded'
  <2>1. ASSUME NEW j \in Job, job[j].pc = "forward", Forwarding(j) PROVE ForwardedIsRecorded'
    <3>1. job[j].event \in Event /\ KeyOf[job[j].event] \in Key
      BY <2>1 DEF TypeOK
    <3> QED BY <1>3, <2>1, <3>1 DEF Forwarding, ForwardedIsRecorded, JobsLooked, Recorded, TypeOK
  <2>2. CASE UNCHANGED forwarded
    BY <1>3, <2>2 DEF ForwardedIsRecorded, Recorded
  <2>3. UNCHANGED forwarded \/ \E j \in Job : job[j].pc = "forward" /\ Forwarding(j)
    BY DEF Next, Execute, vars, Receive, Lookup, Upsert, Forward, Fail, Complete,
           CompleteTooLate, Abandon, Crash, ExpireAbandoned, ExpireHeld
  <2> QED BY <2>1, <2>2, <2>3
<1>7. \A e \in Event : message'[e] = "completed" => Covered(record', e)
  <2>1. ASSUME NEW e \in Event, message'[e] = "completed", message[e] # "completed"
        PROVE  \E j \in Job : job[j].pc = "complete" /\ job[j].event = e
    <3>1. ASSUME NEW j \in Job, Receive(j) \/ Abandon(j) PROVE FALSE
      BY <2>1, <3>1 DEF Receive, Abandon, Unlocked, TypeOK
    <3>2. ASSUME NEW f \in Event, ExpireAbandoned(f) \/ ExpireHeld(f) PROVE FALSE
      BY <2>1, <3>2 DEF ExpireAbandoned, ExpireHeld, Unlocked, TypeOK
    <3>3. ASSUME NEW j \in Job, Complete(j) PROVE job[j].pc = "complete" /\ job[j].event = e
      BY <2>1, <3>3 DEF Complete, TypeOK
    <3> QED BY <2>1, <3>1, <3>2, <3>3 DEF Next, Execute, vars, broker, Lookup, Upsert, Forward,
               Fail, CompleteTooLate, Crash
  <2> QED BY <1>2, <2>1 DEF JobsLooked
<1> QED BY <1>1, <1>4, <1>5, <1>6, <1>7

LEMMA KnownAlways == Spec => []Known
  BY KnownInit, KnownStep, PTL DEF Spec

\* The orchestrator is never sent a document that is not in Cosmos, though other
\* executions replace documents between the upsert and the send.
THEOREM Flow0ForwardedIsRecorded == Spec => []ForwardedIsRecorded
<1>1. Known => ForwardedIsRecorded
  BY DEF Known
<1> QED BY <1>1, KnownAlways, PTL

\* A notification is acknowledged only once its blob, or one announced under its
\* name on its date, is among the documents, and stays there.
THEOREM Flow0AcknowledgedIsRecorded == Spec => []AcknowledgedIsRecorded
<1>1. Known => AcknowledgedIsRecorded
  BY DEF Known, AcknowledgedIsRecorded, Covered, Recorded
<1> QED BY <1>1, KnownAlways, PTL

-----------------------------------------------------------------------------
(* The bound on the forwards of a key.                                     *)

OnTheWay(k) == {j \in Job : job[j].pc \in {"upsert", "forward"} /\ KeyOf[job[j].event] = k}

Counted == \A k \in Key : forwarded[k] + Cardinality(OnTheWay(k)) <= Cardinality(Job)

LEMMA OnTheWayFinite ==
  ASSUME NEW k
  PROVE  IsFiniteSet(OnTheWay(k)) /\ Cardinality(OnTheWay(k)) \in Nat
         /\ IsFiniteSet(Job) /\ Cardinality(Job) \in Nat
         /\ Cardinality(OnTheWay(k)) <= Cardinality(Job)
<1>1. OnTheWay(k) \subseteq Job
  BY DEF OnTheWay
<1>2. IsFiniteSet(Job)
  BY Flow0Assumption
<1> QED BY <1>1, <1>2, FS_Subset, FS_CardinalityType

\* For one key, a step only takes executions off the way, or takes one off and
\* forwards, or puts one on the way while the key has never been forwarded.
LEMMA OneOfThree ==
  ASSUME Known, [Next]_vars, NEW k \in Key
  PROVE  \/ OnTheWay(k)' \subseteq OnTheWay(k) /\ forwarded'[k] = forwarded[k]
         \/ \E j \in OnTheWay(k) : /\ OnTheWay(k)' \subseteq OnTheWay(k) \ {j}
                                   /\ forwarded'[k] \in {forwarded[k], forwarded[k] + 1}
         \/ forwarded'[k] = 0
<1> USE Flow0Assumption DEF Known
<1>1. CASE UNCHANGED <<job, forwarded>>
  BY <1>1 DEF OnTheWay
<1>2. ASSUME NEW j \in Job, UNCHANGED forwarded,
             job' = [job EXCEPT ![j] = Idle] \/ (job[j].pc = "upsert" /\ Goto(j, "forward"))
             \/ Goto(j, "complete") \/ Goto(j, "abandon")
      PROVE  OnTheWay(k)' \subseteq OnTheWay(k) /\ forwarded'[k] = forwarded[k]
  BY <1>2 DEF OnTheWay, Goto, Idle, TypeOK
<1>3. ASSUME NEW j \in Job, Receive(j) PROVE OnTheWay(k)' \subseteq OnTheWay(k)
  BY <1>3 DEF Receive, OnTheWay, TypeOK
<1>4. ASSUME NEW j \in Job, job[j].pc = "forward", Forwarding(j),
             Goto(j, "complete") \/ Goto(j, "abandon")
      PROVE  \/ OnTheWay(k)' \subseteq OnTheWay(k) /\ forwarded'[k] = forwarded[k]
             \/ \E i \in OnTheWay(k) : /\ OnTheWay(k)' \subseteq OnTheWay(k) \ {i}
                                       /\ forwarded'[k] \in {forwarded[k], forwarded[k] + 1}
  <2>1. job'[j].pc \notin {"upsert", "forward"} /\ \A i \in Job \ {j} : job'[i] = job[i]
    BY <1>4 DEF Goto, TypeOK
  <2>2. OnTheWay(k)' \subseteq OnTheWay(k) \ {j}
    BY <2>1 DEF OnTheWay
  <2>3. CASE KeyOf[job[j].event] = k
    <3>1. j \in OnTheWay(k)
      BY <1>4, <2>3 DEF OnTheWay
    <3>2. forwarded'[k] = forwarded[k] + 1
      BY <1>4, <2>3 DEF Forwarding, TypeOK
    <3> QED BY <2>2, <3>1, <3>2
  <2>4. CASE KeyOf[job[j].event] # k
    BY <1>4, <2>2, <2>4 DEF Forwarding, TypeOK
  <2> QED BY <2>3, <2>4
<1>5. ASSUME NEW j \in Job, Lookup(j)
      PROVE  \/ OnTheWay(k)' \subseteq OnTheWay(k) /\ forwarded'[k] = forwarded[k]
             \/ forwarded'[k] = 0
  <2> DEFINE e == job[j].event
  <2>1. e \in Event /\ UNCHANGED forwarded /\ \A i \in Job \ {j} : job'[i] = job[i]
    BY <1>5 DEF Lookup, Goto, TypeOK
  <2>2. CASE job'[j].pc = "upsert" /\ KeyOf[e] = k
    <3>1. Existing(e) = {}
      BY <1>5, <2>2 DEF Lookup, Goto, TypeOK
    <3>2. ~ Recorded(record, k)
      BY <2>2, <3>1 DEF Existing, Recorded
    <3> QED BY <2>1, <3>2 DEF ForwardedIsRecorded, Recorded, TypeOK
  <2>3. CASE job'[j].pc # "upsert" \/ KeyOf[e] # k
    <3>1. job'[j].event = e /\ job'[j].pc # "forward"
      BY <1>5 DEF Lookup, Goto, TypeOK
    <3> QED BY <2>1, <2>3, <3>1 DEF OnTheWay
  <2> QED BY <2>2, <2>3
<1>6. ASSUME NEW j \in Job, Fail(j)
      PROVE  Goto(j, "abandon") /\ (UNCHANGED forwarded \/ (job[j].pc = "forward" /\ Forwarding(j)))
  BY <1>6 DEF Fail
<1>7. ASSUME NEW j \in Job, Execute(j) \/ Fail(j) \/ Crash(j)
      PROVE  \/ Lookup(j) \/ Receive(j) \/ Fail(j)
             \/ job[j].pc = "forward" /\ Forwarding(j) /\ Goto(j, "complete")
             \/ /\ UNCHANGED forwarded
                /\ \/ job' = [job EXCEPT ![j] = Idle] \/ (job[j].pc = "upsert" /\ Goto(j, "forward"))
                   \/ Goto(j, "complete") \/ Goto(j, "abandon")
  BY <1>7 DEF Execute, Upsert, Forward, Complete, CompleteTooLate, Abandon, Crash, Exit
<1>8. \/ UNCHANGED <<job, forwarded>>
      \/ \E j \in Job : Execute(j) \/ Fail(j) \/ Crash(j)
  BY DEF Next, vars, ExpireAbandoned, ExpireHeld
<1>9. ASSUME NEW j \in Job, Receive(j) PROVE UNCHANGED forwarded
  BY <1>9 DEF Receive
<1> QED BY <1>1, <1>2, <1>3, <1>4, <1>5, <1>6, <1>7, <1>8, <1>9

LEMMA CountedInit == Init => Counted
<1> SUFFICES ASSUME Init, NEW k \in Key
             PROVE  forwarded[k] + Cardinality(OnTheWay(k)) <= Cardinality(Job)
  BY DEF Counted
<1>1. forwarded[k] = 0
  BY DEF Init
<1> QED BY <1>1, OnTheWayFinite

LEMMA CountedStep == Known /\ Counted /\ [Next]_vars => Counted'
<1> SUFFICES ASSUME Known, Counted, [Next]_vars, NEW k \in Key
             PROVE  forwarded'[k] + Cardinality(OnTheWay(k)') <= Cardinality(Job)
  BY DEF Counted
<1> DEFINE W == OnTheWay(k)
           V == OnTheWay(k)'
<1>1. /\ IsFiniteSet(W) /\ Cardinality(W) \in Nat /\ Cardinality(Job) \in Nat
      /\ forwarded[k] \in Nat /\ forwarded[k] + Cardinality(W) <= Cardinality(Job)
  BY OnTheWayFinite DEF Known, TypeOK, Counted
<1>2. /\ V \subseteq Job /\ IsFiniteSet(Job)
      /\ IsFiniteSet(V) /\ Cardinality(V) \in Nat /\ Cardinality(V) <= Cardinality(Job)
  <2>1. V \subseteq Job /\ IsFiniteSet(Job)
    BY Flow0Assumption DEF OnTheWay
  <2> QED BY <2>1, FS_Subset, FS_CardinalityType
<1> HIDE DEF W, V
<1>3. CASE V \subseteq W /\ forwarded'[k] = forwarded[k]
  <2>1. Cardinality(V) <= Cardinality(W)
    BY <1>1, <1>3, FS_Subset
  <2> QED BY <1>1, <1>2, <1>3, <2>1 DEF V
<1>4. ASSUME NEW j \in W, V \subseteq W \ {j},
             forwarded'[k] \in {forwarded[k], forwarded[k] + 1}
      PROVE  forwarded'[k] + Cardinality(OnTheWay(k)') <= Cardinality(Job)
  <2>1. IsFiniteSet(W \ {j}) /\ Cardinality(W \ {j}) = Cardinality(W) - 1
    BY <1>1, <1>4, FS_RemoveElement
  <2>2. Cardinality(V) <= Cardinality(W \ {j})
    BY <1>4, <2>1, FS_Subset
  <2> QED BY <1>1, <1>2, <1>4, <2>1, <2>2 DEF V
<1>5. CASE forwarded'[k] = 0
  BY <1>2, <1>5 DEF V
<1>6. \/ V \subseteq W /\ forwarded'[k] = forwarded[k]
      \/ \E j \in W : V \subseteq W \ {j} /\ forwarded'[k] \in {forwarded[k], forwarded[k] + 1}
      \/ forwarded'[k] = 0
  BY OneOfThree DEF V, W
<1> QED BY <1>3, <1>4, <1>5, <1>6

\* A document is forwarded at most once per concurrent execution, for any number
\* of notifications, redeliveries, crashes and lapsed locks.
THEOREM Flow0ForwardsBounded == Spec => []ForwardsBounded
<1>1. Init => Known /\ Counted
  BY KnownInit, CountedInit
<1>2. (Known /\ Counted) /\ [Next]_vars => (Known /\ Counted)'
  BY KnownStep, CountedStep
<1>3. Known /\ Counted => ForwardsBounded
  BY OnTheWayFinite DEF Known, Counted, ForwardsBounded, TypeOK
<1> QED BY <1>1, <1>2, <1>3, PTL DEF Spec

-----------------------------------------------------------------------------
(* Documents nobody will forward.                                          *)

LEMMA RememberedStep ==
  TypeOK /\ ForgottenOnlyByFault /\ [Next]_vars => ForgottenOnlyByFault'
<1> SUFFICES ASSUME TypeOK, ForgottenOnlyByFault, [Next]_vars, faults' = 0,
                    NEW r \in record'
             PROVE  \/ forwarded'[r.key] > 0
                    \/ \E j \in Job : job'[j].pc = "forward" /\ KeyOf[job'[j].event] = r.key
  BY DEF ForgottenOnlyByFault
<1> USE Flow0Assumption
<1> DEFINE Remembered == \/ forwarded'[r.key] > 0
                         \/ \E j \in Job : job'[j].pc = "forward" /\ KeyOf[job'[j].event] = r.key
<1>1. faults = 0
  <2>1. faults' = faults \/ faults' = faults + 1
    BY DEF Next, Execute, vars, broker, Receive, Lookup, Upsert, Forward, Fail, Complete,
           CompleteTooLate, Abandon, Crash, ExpireAbandoned, ExpireHeld, Fault
  <2> QED BY <2>1 DEF TypeOK
<1>2. \/ UNCHANGED vars
      \/ \E j \in Job : Execute(j)
      \/ \E e \in Event : ExpireAbandoned(e)
  BY <1>1 DEF Next, Fail, Crash, ExpireHeld, Fault
<1>3. ASSUME r \in record PROVE Remembered
  <2>1. \/ forwarded[r.key] > 0
        \/ \E j \in Job : job[j].pc = "forward" /\ KeyOf[job[j].event] = r.key
    BY <1>1, <1>3 DEF ForgottenOnlyByFault
  <2>2. r.key \in Key
    BY <1>3 DEF TypeOK
  <2>3. CASE UNCHANGED <<job, forwarded>>
    BY <2>1, <2>3
  <2>4. ASSUME NEW j \in Job, Forward(j) PROVE Remembered
    <3>1. job[j].pc = "forward" /\ KeyOf[job[j].event] \in Key
      BY <2>4 DEF Forward, TypeOK
    <3>2. \A i \in Job \ {j} : job'[i] = job[i]
      BY <2>4 DEF Forward, Goto, TypeOK
    <3>3. \A k \in Key : forwarded[k] > 0 => forwarded'[k] > 0
      BY <2>4, <3>1 DEF Forward, Forwarding, TypeOK
    <3>4. forwarded'[KeyOf[job[j].event]] > 0
      BY <2>4, <3>1 DEF Forward, Forwarding, TypeOK
    <3> QED BY <2>1, <2>2, <3>1, <3>2, <3>3, <3>4
  <2>5. ASSUME NEW j \in Job, UNCHANGED forwarded, job[j].pc # "forward",
               \A i \in Job \ {j} : job'[i] = job[i]
        PROVE  Remembered
    BY <2>1, <2>5
  <2>6. ASSUME NEW j \in Job, Execute(j), ~ Forward(j)
        PROVE  /\ UNCHANGED forwarded /\ job[j].pc # "forward"
               /\ \A i \in Job \ {j} : job'[i] = job[i]
    BY <2>6 DEF Execute, Receive, Lookup, Upsert, Complete, CompleteTooLate, Abandon, Exit, Goto,
                Idle, TypeOK
  <2> QED BY <1>2, <2>3, <2>4, <2>5, <2>6 DEF vars, ExpireAbandoned
<1>4. ASSUME r \notin record PROVE Remembered
  <2>1. PICK j \in Job : Upsert(j)
    BY <1>2, <1>4 DEF vars, Execute, Receive, Lookup, Forward, Complete, CompleteTooLate, Abandon,
                      ExpireAbandoned
  <2>2. r = Document(job[j].event)
    BY <1>4, <2>1 DEF Upsert, Replacing
  <2>3. job'[j].pc = "forward" /\ job'[j].event = job[j].event
    BY <2>1 DEF Upsert, Goto, TypeOK
  <2> QED BY <2>2, <2>3 DEF Document
<1> QED BY <1>3, <1>4

\* Without a fault no document is left in Cosmos that nobody will forward.
THEOREM Flow0ForgottenOnlyByFault == Spec => []ForgottenOnlyByFault
<1>1. Init => ForgottenOnlyByFault
  BY DEF Init, ForgottenOnlyByFault
<1>2. (Known /\ ForgottenOnlyByFault) /\ [Next]_vars => (Known /\ ForgottenOnlyByFault)'
  BY KnownStep, RememberedStep DEF Known
<1> QED BY <1>1, <1>2, KnownInit, PTL DEF Spec
=============================================================================
