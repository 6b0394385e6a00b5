-------------------------- MODULE ProcessingRecord --------------------------
(***************************************************************************)
(* The Cosmos document of one albaran in the container                     *)
(* "processing-records".  The orchestrator, the HITL web form, the HITL    *)
(* callback handler and the escalation timer all read and write the same   *)
(* document, each time with a whole-document upsert that carries no etag:  *)
(* whatever a writer did not put in its copy is lost.                      *)
(*                                                                         *)
(* A document is kept as the four fields the services branch on.  All its  *)
(* other fields (OCR payload, e-mail addresses, URLs, ...) travel with     *)
(* them unread.                                                            *)
(***************************************************************************)
EXTENDS Naturals

CONSTANTS
  None,         \* an absent field, or nothing at all
  DecisionId    \* identities of reviewer decisions

\* "absent" stands for "no document with this id".
Status == {"absent", "processing", "completed", "hitl_pending", "rejected",
           "failed", "pending", "reminded", "escalated", "expired",
           "decided", "cancelled"}

\* Statuses OrchestratorService._resolve_status gives to a finished run.
OutcomeStatus == {"completed", "hitl_pending", "rejected", "failed"}

\* The statuses CosmosEscalationStore.list_pending_reviews asks for.
PendingStatus == {"pending", "reminded", "escalated"}

\* EscalationLevel, without "expired", which no code ever writes.
Level == {"initial", "reminder_24h", "escalation_48h", "final_72h"}

\* The levels the escalation timer sends notices for.
Notice == Level \ {"initial"}

Rank == [l \in Level |-> CASE l = "initial"        -> 0
                           [] l = "reminder_24h"   -> 1
                           [] l = "escalation_48h" -> 2
                           [] l = "final_72h"      -> 3]

Document == [status : Status, level : Level,
             createdAt : Nat \cup {None}, decision : DecisionId \cup {None}]

NoDocument == [status |-> "absent", level |-> "initial",
               createdAt |-> None, decision |-> None]

\* What OrchestratorService upserts: an OrchestrationResult dumped to JSON has
\* neither created_at nor escalation_level nor hitl_decision, so a write of
\* the orchestrator erases all three.
OrchestratorDocument(status) == [NoDocument EXCEPT !.status = status]
=============================================================================
