-------------------------- MODULE MCReconciliation --------------------------
(* A small instance of Reconciliation for TLC.  Nothing at the top of the  *)
(* record names the document: its name is the number that was extracted.   *)
EXTENDS Reconciliation

CONSTANT d1

MCCosmosNames == [d \in Doc |-> <<None, None, "number", "order", "id">>]
MCToolName ==
  [operation \in {"list_vendors", "list_purchase_orders", "get_po_lines", "list_items",
                  "list_purchase_receipts", "create_purchase_receipt",
                  "create_purchase_receipt_line", "post_purchase_receipt"} |-> operation]
MCRecipients == <<"", "ops">>
MCReceiptNames == [d \in Doc |-> <<None, "number", "order">>]
=============================================================================
