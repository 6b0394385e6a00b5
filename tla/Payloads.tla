------------------------------ MODULE Payloads ------------------------------
(***************************************************************************)
(* What the ingestion and the extraction queue carry, and what their       *)
(* consumers read from it.  A body is a record with the fields its JSON    *)
(* object has; a JSON array is [list |-> the sequence of its objects].     *)
(* A URL is the sequence of the segments of its path, a time is a month    *)
(* and a day in it, and a digest is what it was made from.                 *)
(***************************************************************************)
EXTENDS SequencesExt

Has(body, field) == field \in DOMAIN body

-----------------------------------------------------------------------------
(* Event Grid notifications.                                               *)

EnvelopeFields == {"id", "eventType", "subject", "eventTime", "data"}

Item(body) == IF Has(body, "list") THEN Head(body.list) ELSE body

\* parse_event_grid_payload: only the first event of an array is read.
Parses(body) ==
  /\ Has(body, "list") => body.list # <<>>
  /\ EnvelopeFields \subseteq DOMAIN Item(body)

\* EventGridEnvelope.blob_url raises without data.url.
HasBlob(body) == Parses(body) /\ Has(Item(body).data, "url")

BlobName(event) == Last(event.data.url)

HashFields == <<"blob_hash", "blobHash", "content_md5", "contentMd5">>

\* BlobCreatedData.blob_hash: the first such field the uploader gave, if any.
BlobHash(event) ==
  LET given == SelectSeq(HashFields, LAMBDA f : Has(event.data.metadata, f))
  IN {event.data.metadata[f] : f \in IF given = <<>> THEN {} ELSE {Head(given)}}

DedupKey(event) ==
  IF BlobHash(event) # {} THEN <<"hash", BlobHash(event)>>
  ELSE IF Has(event.data, "eTag") THEN <<"etag", event.data.eTag>>
  ELSE <<"name-date", BlobName(event), event.eventTime>>

StoreId(url) == IF Len(url) >= 4 THEN url[4] ELSE "unknown-store"

PartitionKey(store, time) == <<store, time.month>>

-----------------------------------------------------------------------------
(* From Flow 0 to the orchestrator.                                        *)

\* build_processing_record.  The blob's metadata goes under "blob_metadata".
BuildRecord(event) ==
  LET store == StoreId(event.data.url) IN
    [id |-> DedupKey(event), pk |-> PartitionKey(store, event.eventTime),
     store_id |-> store, event_id |-> event.id, event_time |-> event.eventTime,
     dedup_key |-> DedupKey(event), blob_url |-> event.data.url,
     blob_path |-> event.data.url, blob_name |-> BlobName(event),
     source_metadata |-> [blob_metadata |-> event.data.metadata]]

\* build_forward_message.
ForwardMessage(rec) ==
  [albaran_id |-> rec.id, dedup_key |-> rec.dedup_key,
   blob_url |-> rec.blob_url, blob_path |-> rec.blob_path,
   blob_name |-> rec.blob_name, store_id |-> rec.store_id,
   event_id |-> rec.event_id, event_time |-> rec.event_time,
   metadata |-> rec.source_metadata]

\* ForwardedExtractionMessage: what it must have, and all it may have.
ForwardedFields == {"albaran_id", "dedup_key", "blob_url", "blob_path", "blob_name",
                    "store_id", "event_id", "event_time"}

OptionalFields == {"status", "blob_etag", "metadata", "upload_session_id",
                   "uploader_oid", "albaran_group"}

IsForwarded(body) ==
  /\ ForwardedFields \subseteq DOMAIN body
  /\ DOMAIN body \subseteq ForwardedFields \cup OptionalFields

Given(body, field, default) == IF Has(body, field) THEN body[field] ELSE default
NoMetadata == [f \in {} |-> f]

ForwardedRequest(body) ==
  [blob_url |-> body.blob_url, processing_id |-> body.albaran_id,
   metadata |-> Given(body, "metadata", NoMetadata)]

-----------------------------------------------------------------------------
(* deserialize_message.                                                    *)

\* _try_event_grid_request.
IsEvent(body) ==
  /\ Has(body, "list") \/ {"id", "eventType", "data"} \subseteq DOMAIN body
  /\ HasBlob(body)

\* Here the document has the id of the event, not a digest of its key, and the
\* metadata of the blob is at hand under its own names as well.
EventRequest(event) ==
  [blob_url |-> event.data.url, processing_id |-> event.id,
   metadata |-> [blob_metadata |-> event.data.metadata] @@ event.data.metadata]

PlainRequest(body) ==
  [blob_url |-> body.blob_url, metadata |-> Given(body, "metadata", NoMetadata)]
    @@ [f \in {"processing_id"} \cap DOMAIN body |-> body[f]]

\* Does deserialize_message return a request?
Deserializes(body) ==
  \/ IsEvent(body)
  \/ IF Has(body, "albaran_id") THEN IsForwarded(body) ELSE Has(body, "blob_url")

Deserialize(body) ==
  IF IsEvent(body) THEN EventRequest(Item(body))
  ELSE IF Has(body, "albaran_id") THEN ForwardedRequest(body)
  ELSE PlainRequest(body)

\* _build_processing_id.
ProcessingId(request) ==
  IF Has(request, "processing_id") THEN request.processing_id
  ELSE <<"sha1", request.blob_url, request.metadata>>
=============================================================================
