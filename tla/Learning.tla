------------------------------ MODULE Learning ------------------------------
(***************************************************************************)
(* The weekly learning job over the feature flags server.  A cycle         *)
(* analyses the records of a week, writes the profile of each supplier     *)
(* and, where that is switched on, the flags it proposes, one after the    *)
(* other through the server's functions; the first write that fails ends   *)
(* it.  The job is one of the processes of FlagStore; the others serve     *)
(* the agents and the operators.                                           *)
(***************************************************************************)
EXTENDS FlagStore, Reputation

CONSTANTS
  Job,       \* the process of the learning job
  History,   \* what the job may find in Cosmos: records, the newest first
  Reply,     \* events the agent may answer with
  Operable,  \* what the other processes may set: pairs of a key and a value
  Listable,  \* flags with a prefix in common that the other processes may list
  ApplyFeatureFlagProposals,
  AnalysisWindowDays, QueryBatchSize,
  MaxCycles  \* bound on the cycles of the job

\* Records whose suppliers have configuration documents.
IsHistory(records) ==
  /\ records \in Seq(Range(records))
  /\ \A r \in Range(records) : SupplierId(r) \subseteq Config

ASSUME LearningAssumption ==
  /\ Job \in Proc
  /\ None # "true"
  /\ Flag = Config \X {"tolerance_pct", "auto_approve", "force_hitl"}
  /\ \A s \in Config :
       /\ Profile \subseteq ValueOf[s]
       /\ Tolerance \subseteq ValueOf[<<s, "tolerance_pct">>]
       /\ {"true", "false"} \subseteq ValueOf[<<s, "auto_approve">>]
       /\ {"true", "false"} \subseteq ValueOf[<<s, "force_hitl">>]
  /\ \A store \in History : IsHistory(store)
  /\ \A update \in Operable : update[1] \in Key /\ update[2] \in ValueOf[update[1]]
  /\ \A S \in Listable : S \subseteq Flag
  /\ ApplyFeatureFlagProposals \in BOOLEAN /\ MaxCycles \in Nat
  /\ AnalysisWindowDays \in Nat /\ QueryBatchSize \in Nat

VARIABLES
  cycle,   \* state of the job
  cycles,  \* cycles begun
  plan,    \* what the cycle set out to write, and what the properties know of it
  todo,    \* writes the cycle has left
  earned,  \* suppliers whose profile was written as eligible
  advised  \* suppliers a report with a list of the agent's would approve

jobVars == <<cycle, cycles, plan, todo, earned, advised>>
vars == <<storeVars, jobVars>>

NoPlan == [writes |-> <<>>, plain |-> {}, silent |-> TRUE]

Init ==
  /\ StoreInit
  /\ cycle = "idle"
  /\ cycles = 0
  /\ plan = NoPlan
  /\ todo = <<>>
  /\ earned = {}
  /\ advised = {}

\* The records of the window, by any of their stamps, which are given in days
\* before the cycle.
StampFields == {"created_at", "updated_at", "completed_at"}

ListProcessedRecords(store) ==
  LET recent == At(store, {i \in DOMAIN store :
        \E f \in StampFields \cap DOMAIN store[i] : store[i][f] <= AnalysisWindowDays})
  IN SubSeq(recent, 1, Min({QueryBatchSize, Len(recent)}))

UnderOneName(records) ==
  LET h == Grouped(records) IN
  {s \in Config : \E i \in DOMAIN h :
     /\ SupplierId(h[i]) = {s}
     /\ \A j \in DOMAIN h : SupplierId(h[j]) = {s} => SameGroup(h, i, j)}

\* A write that the store knows.
WriteOf(K) == UNION {[key : {k}, value : ValueOf[k]] : k \in K}
KnownWrite == WriteOf(Key)

\* The lists of the agent's report are given by the writes they lead to.  They
\* need not follow from any records, nor the one from the other.
NoReport == [updates |-> <<>>, proposals |-> <<>>]

\* _coerce_report: an answer that fits no report counts as none.
CoerceReport(payload) == IF payload.fits THEN payload.report ELSE NoReport

\* The last event of the workflow is the answer.
GenerateReport(events) == IF events = <<>> THEN NoReport ELSE CoerceReport(Last(events))

ASSUME RepliesAreKnown ==
  \A events \in Reply :
    /\ GenerateReport(events).updates \in Seq(WriteOf(Config))
    /\ GenerateReport(events).proposals \in Seq(WriteOf(Flag))

\* A list of the agent's report is used when there is a report and the list
\* is not empty, and the job's own otherwise.  Nothing in it is looked at.
Chosen(own, heard) == IF heard = <<>> THEN own ELSE heard

\* Mutant of Writes: the flags go first.
FlagsFirst(updates, proposals) ==
  (IF ApplyFeatureFlagProposals THEN proposals ELSE <<>>) \o updates

Writes(updates, proposals) ==
  updates \o (IF ApplyFeatureFlagProposals THEN proposals ELSE <<>>)

WritesOf(h, report) ==
  Writes(Chosen(Profiles(Reputations(h)), report.updates),
         Chosen(Proposals(Reputations(h)), report.proposals))

\* What analyze sets out to write after it found store and heard events.
Plan(store, events) ==
  LET h == ListProcessedRecords(store)
      report == GenerateReport(events)
  IN [writes |-> WritesOf(h, report),
      plain  |-> UnderOneName(h),
      silent |-> report.updates = <<>> /\ report.proposals = <<>>]

Plans == {Plan(store, events) : store \in History, events \in Reply}

Approved(writes) ==
  {s \in Config : \E i \in DOMAIN writes :
     writes[i].key = <<s, "auto_approve">> /\ writes[i].value = "true"}

\* analyze, in a new process, up to its first write.
StartCycle ==
  /\ cycle # "write"
  /\ cycles < MaxCycles
  /\ plan' \in Plans
  /\ todo' = plan'.writes
  /\ advised' = IF plan'.silent THEN advised ELSE advised \cup Approved(todo')
  /\ cycle' = IF todo' = <<>> THEN "done" ELSE "write"
  /\ cycles' = cycles + 1
  /\ cache' = [cache EXCEPT ![Job] = [k \in Key |-> NoEntry]]
  /\ UNCHANGED <<document, process, clock, faults, history, earned>>

\* The query for the records or the agent fails: the job fails before it writes.
AnalysisFails ==
  /\ cycle # "write"
  /\ cycles < MaxCycles
  /\ Restart(Job)
  /\ cycle' = "failed"
  /\ cycles' = cycles + 1
  /\ plan' = NoPlan
  /\ UNCHANGED <<todo, earned, advised>>

StartWrite ==
  /\ cycle = "write"
  /\ Begin(Job, "set", Head(todo).key, Head(todo).value)
  /\ UNCHANGED jobVars

JobCall == Call(Job) /\ UNCHANGED jobVars

EndWrite ==
  /\ EndSet(Job)
  /\ todo' = Tail(todo)
  /\ cycle' = IF Len(todo) = 1 THEN "done" ELSE "write"
  /\ earned' = earned \cup {s \in Config : KeyAt(Job) = s /\ process[Job].value.eligible}
  /\ UNCHANGED <<cycles, plan, advised>>

\* No exception is caught: the job fails and what it wrote stays.
JobFails ==
  /\ cycle = "write"
  /\ CallFails(Job) \/ Restart(Job)
  /\ cycle' = "failed"
  /\ plan' = NoPlan
  /\ todo' = <<>>
  /\ UNCHANGED <<cycles, earned, advised>>

\* The processes that serve the agents and the operators.
Others ==
  /\ \E p \in Proc \ {Job} :
       \/ \E update \in Operable : Begin(p, "get", update[1], None)
       \/ \E update \in Operable : Begin(p, "set", update[1], update[2])
       \/ \E S \in Listable : ListFlags(p, S)
       \/ Call(p) \/ EndSet(p) \/ CallFails(p) \/ Restart(p)
  /\ UNCHANGED jobVars

Next ==
  \/ StartCycle \/ AnalysisFails \/ StartWrite \/ JobCall \/ EndWrite \/ JobFails
  \/ Others
  \/ Tick /\ UNCHANGED jobVars

Spec == Init /\ [][Next]_vars

-----------------------------------------------------------------------------
(* Properties.                                                             *)

TypeOK ==
  /\ StoreTypeOK
  /\ cycle \in {"idle", "write", "done", "failed"}
  /\ cycles \in Nat
  /\ plan \in [writes : Seq(KnownWrite), plain : SUBSET Config, silent : BOOLEAN]
  /\ todo \in Seq(KnownWrite)
  /\ earned \subseteq Config /\ advised \subseteq Config

About(s) == {s, <<s, "auto_approve">>, <<s, "tolerance_pct">>}
OnlyTheJobWrites(s) == \A k \in About(s) : writers[k] \subseteq {Job}

\* No later write is about the key of the i-th.
IsLastWord(writes, i) == \A j \in DOMAIN writes : j > i => writes[j].key # writes[i].key

\* When a cycle is through, every document that only the job writes says what
\* the cycle last set out to write to it, whatever an earlier cycle that failed half way
\* left behind.  And if the report is the job's own, the flags of each supplier
\* it analysed under one name say what the supplier's profile says.  Nothing
\* makes them agree when the agent contributes a list: its proposals are
\* written as they are, next to a profile that may say the opposite.
FlagsFollowProfile ==
  cycle = "done" =>
    /\ \A i \in DOMAIN plan.writes :
         IsLastWord(plan.writes, i) /\ writers[plan.writes[i].key] \subseteq {Job} =>
           document[plan.writes[i].key].value = plan.writes[i].value
    /\ plan.silent /\ ApplyFeatureFlagProposals =>
         \A s \in plan.plain : OnlyTheJobWrites(s) =>
           /\ document[<<s, "auto_approve">>].value = Text(document[s].value.eligible)
           /\ document[<<s, "tolerance_pct">>].value = document[s].value.tolerance

\* The job never switches a supplier to auto approval of its own accord before
\* the supplier's profile was written as eligible: a cycle that fails leaves
\* profiles ahead of flags, and not the other way round.  The exception is what
\* the agent contributes to: a supplier that a report with a list of the agent's
\* approves is switched whatever any profile says.
AutoApproveIsEarned ==
  \A s \in Config :
    OnlyTheJobWrites(s) /\ document[<<s, "auto_approve">>].value = "true" =>
      s \in earned \cup advised
=============================================================================
