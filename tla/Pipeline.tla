------------------------------ MODULE Pipeline ------------------------------
(***************************************************************************)
(* What becomes of the content of a blob: the OCR that comes first, the    *)
(* control of AlbaranPipeline.run (which agents answer, in which order)    *)
(* and the routing decision that follows.  The agents are language models: *)
(* an answer may be any value of its set.                                  *)
(***************************************************************************)
CONSTANTS
  SkipTriageSuppliers, \* suppliers trusted to send delivery notes only
  Suspicious           \* texts that a blocked pattern matches

-----------------------------------------------------------------------------
(* OCR.                                                                    *)

BlobContent == {"document", "missing", "empty", "broken"}

Downloads(content) == content # "missing"

\* build_analyze_request gets the bytes in base64; nothing in, an error out.
RequestIsValid(content) == content # "empty"

\* run_analysis: what Document Intelligence refuses is raised.
Recognizes(content) == content # "broken"

\* download_blob and analyze_document.
Analyzes(content) == Downloads(content) /\ RequestIsValid(content) /\ Recognizes(content)

-----------------------------------------------------------------------------
(* The input.                                                              *)

\* _extract_total_amount: "low" and "high" are the amounts on either side of
\* low_value_coherence_threshold; another value is not a number.
TotalAmount(metadata) ==
  {"low", "high"} \cap {metadata[f] : f \in {"total_amount"} \cap DOMAIN metadata}

\* _build_pipeline_input, as far as it decides anything: the text goes to the
\* agents only.
PipelineInput(metadata) ==
  [total |-> TotalAmount(metadata),
   supplier |-> {metadata[f] : f \in {"supplier_id", "supplier_hint"} \cap DOMAIN metadata}]

\* The patterns see text as business data, so that a supplier whose own name has
\* two dashes in a row is Suspicious as well.
RedactionToken == "[blocked-untrusted-input]"
SanitizedText(text) == IF text \in Suspicious THEN RedactionToken ELSE text
SanitizedPayload(texts) == {SanitizedText(text) : text \in texts}

\* The amount is a number and passes.
SanitizeInput(input) == [input EXCEPT !.supplier = SanitizedPayload(@)]

ShouldSkipTriage(input) == input.supplier \cap SkipTriageSuppliers # {}
ShouldSkipCoherence(input) == input.total = {"low"}

-----------------------------------------------------------------------------
(* The agents.                                                             *)

\* _coerce_model: an answer that does not fit its model is None.
Coerced(answer) == answer \cup {"unreadable"}

\* The models take any text for a decision; "manual_review" stands for all that
\* _resolve_status does not know.
RoutingWord == {"extract", "reject", "manual_review", "approve", "hitl_review", "posted"}
TriageAnswer == Coerced(RoutingWord)
ValidatorAnswer == Coerced(RoutingWord)
PostingAnswer == Coerced({"failure", "success"})

Answers == [triage : TriageAnswer, validator : ValidatorAnswer]

StopsAtTriage(input, answers) ==
  ~ShouldSkipTriage(input) /\ answers.triage \notin {"extract", "unreadable"}

\* Only what the validator approves goes on to the inventory agent.
GoesToInventory(input, answers) ==
  /\ ~StopsAtTriage(input, answers) /\ ~ShouldSkipCoherence(input)
  /\ answers.validator = "approve"

Decision(input, answers) ==
  IF StopsAtTriage(input, answers) THEN answers.triage
  ELSE IF ShouldSkipCoherence(input) THEN "extract"
  ELSE IF answers.validator = "unreadable" THEN "hitl_review"
  ELSE answers.validator

\* How the run may stand after the validator.
Validated(input) ==
  LET clean == SanitizeInput(input)
  IN  {[inventory |-> GoesToInventory(clean, answers),
        decision |-> Decision(clean, answers)] : answers \in Answers}

\* The decision after the inventory agent.
DecisionAfterPosting(answer) == IF answer = "success" THEN "posted" ELSE "hitl_review"

RoutingDecision == RoutingWord \cup {"failed"}

\* OrchestratorService._resolve_status.
ResolveStatus(decision) ==
  CASE decision \in {"posted", "approve", "extract"} -> "completed"
    [] decision = "hitl_review"                      -> "hitl_pending"
    [] decision = "reject"                           -> "rejected"
    [] OTHER                                         -> "failed"
=============================================================================
