--------------------------- MODULE MCOrchestrator ---------------------------
(* Small instances of Orchestrator for TLC. *)
EXTENDS Orchestrator

CONSTANTS m1, m2, m3, c1, r1, r2

\* The notification of a blob uploaded through the web, with some metadata.
Notification(name, metadata) ==
  [id |-> <<"event", name>>, eventType |-> "BlobCreated", subject |-> name,
   eventTime |-> [month |-> 1, day |-> 1],
   data |-> [url |-> <<"raw", "session", name>>, eTag |-> name, metadata |-> metadata]]

Forwarded(name) ==
  ForwardMessage(BuildRecord(Notification(name, [total_amount |-> "low"])))

\* The same blob, sent to the endpoint by hand under its processing id.
ByHand(name) ==
  [blob_url |-> <<"raw", "session", name>>, processing_id |-> Forwarded(name).albaran_id,
   metadata |-> [total_amount |-> "low", supplier_id |-> "trusted",
                supplier_hint |-> "north -- south"]]

\* A notification that names no blob.
NoBlob == [list |-> <<[Notification("a", NoMetadata) EXCEPT !.data = [eTag |-> "a"]]>>]

\* Flow 0 forwards one blob twice, and a third message cannot be read.
QueueBodies ==
  m1 :> Forwarded("a") @@ m2 :> Forwarded("a") @@ m3 :> NoBlob

\* One message per blob, the first of them sent by hand as well.
LapseBodies ==
  m1 :> Forwarded("a") @@ m2 :> Forwarded("b") @@ c1 :> ByHand("a")

\* A message that cannot be read, and a notification that skipped Flow 0 and
\* whose supplier would be trusted under a name without dashes.
PoisonBodies ==
  m1 :> NoBlob @@ m2 :> Notification("b", [supplier_id |-> "north -- south"])

\* "b" is an empty file.
SomeContent ==
  [url \in {<<"raw", "session", name>> : name \in {"a", "b"}} |->
     IF Last(url) = "b" THEN "empty" ELSE "document"]
=============================================================================
