------------------------------- MODULE Drifts -------------------------------
(***************************************************************************)
(* How the reconciler compares the records of Cosmos with the receipts of  *)
(* Business Central: the name either side gives an albaran, the totals,    *)
(* and the drifts with the action each suggests.  Amounts are in cents.    *)
(***************************************************************************)
EXTENDS Integers, Sequences

CONSTANTS
  None,        \* a field that is not there
  Unreadable,  \* a total that float() rejects
  Tolerance    \* amount_tolerance

Type == {"missing_in_bc", "missing_in_cosmos", "amount_mismatch", "status_mismatch"}
Action == {"repost", "hitl_review", "investigate", "ignore"}

\* The first candidate that is a name: albaran_id or document_number, what the
\* pipeline extracted, the number of the order, the id of the record; on the
\* other side vendorShipmentNo and the numbers and ids after it.
NameIn(candidates) ==
  LET names == SelectSeq(candidates, LAMBDA c : c # None)
  IN  IF names = <<>> THEN None ELSE Head(names)

\* The first candidate that does not fail to convert: one that is not there
\* converts to no total, and those after it are not looked at.
TotalIn(candidates) ==
  LET totals == SelectSeq(candidates, LAMBDA c : c # Unreadable)
  IN  IF totals = <<>> THEN None ELSE Head(totals)

Repostable == {"approved", "posted", "ready_to_post"}

Distance(a, b) == IF a > b THEN a - b ELSE b - a

SuggestedAction(type, status, difference) ==
  CASE type = "missing_in_bc"   -> IF status \in Repostable THEN "repost" ELSE "hitl_review"
    [] type = "amount_mismatch" -> IF difference <= 1 THEN "ignore" ELSE "hitl_review"
    [] OTHER                    -> "investigate"

Drift(name, type, status, difference) ==
  [albaran |-> name, type |-> type, status |-> status,
   action |-> SuggestedAction(type, status, difference)]

\* What is compared under one name that both sides have: amounts if both are
\* known, and statuses.
Compared(name, cosmos, bc) ==
  LET apart == Distance(cosmos.total, bc.total)
      known == cosmos.total # None /\ bc.total # None
  IN  (IF known /\ apart > Tolerance
       THEN {Drift(name, "amount_mismatch", cosmos.status, apart)} ELSE {})
      \cup (IF cosmos.status # bc.status
            THEN {Drift(name, "status_mismatch", cosmos.status, 0)} ELSE {})

\* cosmos and bc are the two sides by name.
CandidateDrifts(cosmos, bc) ==
  {Drift(n, "missing_in_bc", cosmos[n].status, 0) : n \in (DOMAIN cosmos) \ DOMAIN bc}
  \cup {Drift(n, "missing_in_cosmos", None, 0) : n \in (DOMAIN bc) \ DOMAIN cosmos}
  \cup UNION {Compared(n, cosmos[n], bc[n]) : n \in (DOMAIN cosmos) \cap DOMAIN bc}
=============================================================================
