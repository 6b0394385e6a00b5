--------------------------- MODULE BusinessCentral ---------------------------
(***************************************************************************)
(* The client of the MCP server of Business Central: how it reads the      *)
(* answer to one call of a tool.  An answer has the tools the server       *)
(* exposes, an error flag, structured content, and parts of text; a part   *)
(* that is blank is None and one that is not JSON is NotJSON.              *)
(***************************************************************************)
EXTENDS Sequences

CONSTANTS
  None,
  NotJSON,
  NotAnObject,  \* an entry of a list that is no object
  Failed,       \* an exception, which ends the caller
  ToolName      \* the tool of each operation, which the environment may rename

\* JSON data: a scalar, an object with an id, or a list of entries, which may be
\* bare or under one of three keys.
Collections == {"list", "value", "items", "results"}
Content(shape, entries) == [shape |-> shape, entries |-> entries]

\* BCMCPToolNames.
Operations == {"list_vendors", "list_purchase_orders", "get_po_lines", "list_items",
               "list_purchase_receipts", "create_purchase_receipt",
               "create_purchase_receipt_line", "post_purchase_receipt"}

\* An operation the client does not know is a KeyError.
ToolNameFor(operation) == IF operation \in Operations THEN ToolName[operation] ELSE Failed

\* The parts are joined by a newline: two of them are no JSON any more.
Body(text) ==
  LET parts == SelectSeq(text, LAMBDA part : part # None)
  IN  CASE Len(parts) = 0 -> None
        [] Len(parts) = 1 -> Head(parts)
        [] OTHER          -> NotJSON

ParseToolResult(answer) ==
  CASE answer.isError                                -> Failed
    [] ~answer.isError /\ answer.structured # None   -> answer.structured
    [] OTHER                                         -> Body(answer.text)

CallOperation(operation, answer) ==
  IF ToolNameFor(operation) \notin answer.tools THEN Failed ELSE ParseToolResult(answer)

\* Text that is not JSON is an object with the field "raw"; no text, and a
\* scalar, are no entries at all.
UnwrapCollection(payload) ==
  CASE payload = None    -> {}
    [] payload = NotJSON -> {[id |-> None]}
    [] OTHER             -> IF payload.shape = "scalar" THEN {}
                            ELSE payload.entries \ {NotAnObject}

\* Every model of the client requires an id.
Validated(entries) == IF \E e \in entries : e.id = None THEN Failed ELSE entries

ListPurchaseReceipts(answer) ==
  LET payload == CallOperation("list_purchase_receipts", answer)
  IN  IF payload = Failed THEN Failed ELSE Validated(UnwrapCollection(payload))
=============================================================================
