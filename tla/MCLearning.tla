----------------------------- MODULE MCLearning -----------------------------
(* Small instances of Learning for TLC. *)
EXTENDS Learning, TLC

CONSTANTS s1, job, server

\* What the orchestrator, a callback and an older import leave behind.
Clean(name) ==
  [created_at |-> 3, status |-> "completed", has_signature |-> TRUE, lines |-> 2]
    @@ ("extraction.supplier_tax_id" :> s1) @@ ("extraction.supplier_name" :> name)

Failed(name) ==
  [updated_at |-> 1, inventory_success |-> FALSE, signature_valid |-> FALSE,
   total_lines |-> 1, vendorNumber |-> s1, vendor_name |-> name]
    @@ ("validation.discrepancies" :> 1) @@ ("triage.supplier_id" :> "other")

Anonymous == [created_at |-> 0, status |-> "failed", supplier_id |-> s1, discrepancies |-> 4]
Unstamped == [f \in DOMAIN Failed("n") \ {"updated_at"} |-> Failed("n")[f]]
Old == [completed_at |-> 9] @@ Unstamped

Reliable == <<Clean("n"), Anonymous, Unstamped, Clean("n"), Clean("n"), Old, Failed("n")>>
Risky == <<Failed("n")>>
TwoNames == <<Clean("n"), Failed("m")>>

Suppliers == {s1}
Flags == Suppliers \X {"tolerance_pct", "auto_approve", "force_hitl"}
Values == [k \in Flags \cup Suppliers |->
             IF k \in Suppliers
             THEN Profile
             ELSE IF k[2] = "tolerance_pct" THEN Tolerance
             ELSE {"true", "false"}]
Weeks == {Reliable, Risky, TwoNames}
Unfit == [fits |-> FALSE]
\* The agent does not answer, or contradicts itself.
Contradiction ==
  [updates |-> <<[key |-> s1, value |-> [eligible |-> FALSE, tolerance |-> "3.00"]]>>,
   proposals |-> <<[key |-> <<s1, "auto_approve">>, value |-> "true"]>>]
Replies == {<<Unfit>>, <<Unfit, [fits |-> TRUE, report |-> Contradiction]>>}
Operated == {<<<<s1, "auto_approve">>, "false">>}
Lists == {{<<s1, "auto_approve">>}}

\* What follows the last write of a document is looked at before the first cycle.
LastWriteEarly == cycles > 0 => \A k \in Key : document[k].stamp < MaxWrites
=============================================================================
