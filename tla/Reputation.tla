----------------------------- MODULE Reputation -----------------------------
(***************************************************************************)
(* What the learning job makes of a week of processed records: a profile   *)
(* of each supplier and the flags it proposes.  Rates and scores are       *)
(* integers, parts of Scale, which every division here goes into evenly    *)
(* for up to six records of up to six lines.                               *)
(***************************************************************************)
EXTENDS Integers, Sequences, FiniteSets, FiniteSetsExt, SequencesExt

\* The elements of s at the positions in I, in the order of s.
At(s, I) == FlattenSeq([i \in DOMAIN s |-> IF i \in I THEN <<s[i]>> ELSE <<>>])

Scale == 36000

SUCCESS_STATUSES == {"posted", "completed", "approved", "success"}

-----------------------------------------------------------------------------
(* What the job reads from a record: a function from the fields the record *)
(* has, those inside pipeline_result included, to their values.  Lists are *)
(* given by their length, and a field the job would skip because its value *)
(* is blank or of another type is left out.                                *)

\* The value of the first of the fields that r has, if it has any.
FirstOf(r, fields) ==
  LET given == SelectSeq(fields, LAMBDA f : f \in DOMAIN r)
  IN {r[f] : f \in IF given = <<>> THEN {} ELSE {Head(given)}}

SupplierId(r) ==
  FirstOf(r, <<"supplier_id", "vendor_number", "vendorNumber",
               "extraction.supplier_tax_id", "triage.supplier_id">>)

SupplierName(r) ==
  FirstOf(r, <<"supplier_name", "vendor_name", "vendorName", "extraction.supplier_name">>)

\* _extract_status, which falls back on the Boolean inventory_success.
Status(r) ==
  IF "status" \in DOMAIN r THEN {r.status}
  ELSE {IF posted THEN "posted" ELSE "failed" : posted \in FirstOf(r, <<"inventory_success">>)}

Succeeds(r) == Status(r) \cap SUCCESS_STATUSES # {}

OneOf(S) == IF S = {} THEN 0 ELSE CHOOSE x \in S : TRUE

\* _extract_discrepancies is the default for a record without the key: one that
\* has it with something else than a list counts as having none, 0 here.
Discrepancies(r) == OneOf(FirstOf(r, <<"discrepancies", "validation.discrepancies">>))

\* A number of lines that is not positive stands for one that is unreadable.
TotalLines(r) ==
  OneOf(FirstOf([f \in {g \in (DOMAIN r) \cap {"total_lines", "line_items", "lines"} : r[g] # 0}
                      |-> r[f]],
                   <<"total_lines", "line_items", "lines">>))

Clamped(rate) == Max({0, Min({rate, Scale})})

\* A rate the record states itself goes first; {} is one that is unreadable.
\* Without lines a record is all discrepancy as soon as it has one.
DiscrepancyRate(r) ==
  IF "discrepancy_rate" \in DOMAIN r THEN {Clamped(rate) : rate \in r.discrepancy_rate}
  ELSE IF TotalLines(r) > 0 THEN {Clamped((Discrepancies(r) * Scale) \div TotalLines(r))}
  ELSE {IF Discrepancies(r) = 0 THEN 0 ELSE Scale}

SignatureIsGood(r) == FirstOf(r, <<"signature_reliable", "signature_valid", "has_signature">>)

-----------------------------------------------------------------------------
(* build_supplier_reputation.  I holds the positions in the history h of   *)
(* the records of one supplier.                                            *)

MeanOf(I, value(_)) == MapThenSumSet(value, I) \div Cardinality(I)

SuccessRate(h, I) == MeanOf(I, LAMBDA i : IF Succeeds(h[i]) THEN Scale ELSE 0)

AvgDiscrepancyRate(h, I) ==
  LET rated == {i \in I : DiscrepancyRate(h[i]) # {}}
  IN IF rated = {} THEN 0 ELSE MeanOf(rated, LAMBDA i : OneOf(DiscrepancyRate(h[i])))

SignatureReliability(h, I) ==
  LET considered == {i \in I : SignatureIsGood(h[i]) # {}}
  IN IF considered = {} THEN Scale \div 2
     ELSE MeanOf(considered, LAMBDA i : IF SignatureIsGood(h[i]) = {TRUE} THEN Scale ELSE 0)

Tolerance == {"1.00", "2.00", "3.00"}
Profile == [eligible : BOOLEAN, tolerance : Tolerance]

RecommendedTolerance(score, rate) ==
  IF 20 * score >= 19 * Scale /\ 100 * rate <= Scale THEN "1.00"
  ELSE IF 20 * score >= 17 * Scale /\ 100 * rate <= 3 * Scale THEN "2.00"
  ELSE "3.00"

Eligible(total, score, rate) ==
  total >= 3 /\ 10 * score >= 9 * Scale /\ 50 * rate <= Scale

BuildReputation(h, I) ==
  LET rate == AvgDiscrepancyRate(h, I)
      score == (5 * SuccessRate(h, I) + 3 * (Scale - rate)
                  + 2 * SignatureReliability(h, I)) \div 10
  IN [supplier |-> OneOf(SupplierId(h[Min(I)])),
      poor |-> 2 * score < Scale,
      profile |-> [eligible |-> Eligible(Cardinality(I), score, rate),
                   tolerance |-> RecommendedTolerance(score, rate)]]

-----------------------------------------------------------------------------
(* _group_by_supplier: by the supplier's id and name, in order of the      *)
(* first record of each.  A record without one of them is left out.        *)

Grouped(h) ==
  At(h, {i \in DOMAIN h : SupplierId(h[i]) # {} /\ SupplierName(h[i]) # {}})

SameGroup(h, i, j) ==
  SupplierId(h[i]) = SupplierId(h[j]) /\ SupplierName(h[i]) = SupplierName(h[j])

FirstRecords(h) == {i \in DOMAIN h : \A j \in 1..(i - 1) : ~SameGroup(h, i, j)}

Reputations(records) ==
  LET h == Grouped(records) IN
  At([i \in DOMAIN h |-> BuildReputation(h, {j \in DOMAIN h : SameGroup(h, i, j)})],
     FirstRecords(h))

-----------------------------------------------------------------------------
(* propose_feature_flag_updates, with the insights of the job itself.      *)

Update(supplier, flag, value) == [key |-> <<supplier, flag>>, value |-> value]
Text(b) == IF b THEN "true" ELSE "false"

\* Mutant of FromReputation: auto approval is proposed but never withdrawn.
NeverWithdrawn(r) ==
  <<Update(r.supplier, "tolerance_pct", r.profile.tolerance)>>
  \o (IF r.profile.eligible THEN <<Update(r.supplier, "auto_approve", "true")>> ELSE <<>>)
  \o (IF r.poor THEN <<Update(r.supplier, "force_hitl", "true")>> ELSE <<>>)

FromReputation(r) ==
  <<Update(r.supplier, "tolerance_pct", r.profile.tolerance),
    Update(r.supplier, "auto_approve", Text(r.profile.eligible))>>
  \o (IF r.poor THEN <<Update(r.supplier, "force_hitl", "true")>> ELSE <<>>)

FromInsight(r) ==
  CASE r.profile.eligible -> <<Update(r.supplier, "auto_approve", "true")>>
    [] ~r.profile.eligible /\ r.poor -> <<Update(r.supplier, "force_hitl", "true")>>
    [] OTHER -> <<>>

\* A proposal that was made before, by whichever reputation, is left out.
Deduplicated(proposals) ==
  At(proposals,
     {i \in DOMAIN proposals : \A j \in 1..(i - 1) : proposals[j] # proposals[i]})

ForEach(reputations, Of(_)) == FlattenSeq([m \in DOMAIN reputations |-> Of(reputations[m])])

Proposals(reputations) ==
  Deduplicated(ForEach(reputations, FromReputation) \o ForEach(reputations, FromInsight))

\* _persist_reputations: the configuration of each supplier.
Profiles(reputations) ==
  [m \in DOMAIN reputations |->
     [key |-> reputations[m].supplier, value |-> reputations[m].profile]]
=============================================================================
