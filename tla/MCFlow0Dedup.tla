---------------------------- MODULE MCFlow0Dedup ----------------------------
(* Small instances of Flow0Dedup for TLC. *)
EXTENDS Flow0Dedup, SessionIntake

CONSTANTS e1, e2, e3, e4, j1, j2

Uploaded(id, name, fields) ==
  [id |-> id, eventType |-> "BlobCreated", subject |-> name,
   eventTime |-> [month |-> 1, day |-> 1],
   data |-> fields @@ [url |-> <<"raw", id, name>>, metadata |-> NoMetadata]]

\* One blob under two names, another under the first of them, whose uploader
\* gave no hash, and an array whose only event names no blob.
Body ==
  e1 :> Uploaded("e1", "a.pdf", [metadata |-> [blobHash |-> "h"], eTag |-> "t1"]) @@
  e2 :> Uploaded("e2", "b.pdf", [metadata |-> [content_md5 |-> "h"], eTag |-> "t2"]) @@
  e3 :> Uploaded("e3", "a.pdf", [eTag |-> "t3"]) @@
  e4 :> [list |-> <<[Uploaded("e4", "c.pdf", NoMetadata) EXCEPT !.data = [eTag |-> "t4"]]>>]

Readable == {e \in Event : HasBlob(Body[e])}
Unreadable == Event \ Readable

\* What the executions compute from the bodies; nothing is, of unreadable ones.
OfBody(F(_), unknown) ==
  [e \in Event |-> IF e \in Readable THEN F(Item(Body[e])) ELSE unknown]

NameAndDate(event) == <<BlobName(event), event.eventTime>>
PartitionOfBody(event) == BuildRecord(event).pk

Keys == OfBody(DedupKey, <<>>)
NameDates == OfBody(NameAndDate, <<>>)
Partitions == OfBody(PartitionOfBody, <<>>)

AllKeys == {Keys[e] : e \in Event}
AllNameDates == {NameDates[e] : e \in Event}
AllPartitions == {Partitions[e] : e \in Event}

-----------------------------------------------------------------------------
(* The intake of upload sessions, over all sessions of up to three files.   *)

SessionFile == [albaran_group : {"", "g1", "default"}, filename : {"1.png", "2.png"},
                blob_path : {<<"s", "1.png">>, <<"2.png">>}]
Sessions == {[session_id |-> "s", files |-> files] : files \in SeqOf(SessionFile, 3) \ {<<>>}}
ThisMonth == [month |-> 1, day |-> 31]
NextMonth == [month |-> 2, day |-> 1]

\* Every file is a page of exactly one document, and pages keep their order.
ASSUME EveryFileHasOneDocument ==
  \A payload \in Sessions :
    LET all == HandleSessionMessage(payload, ThisMonth, CallsOf(payload))
    IN  /\ Len(payload.files) = MapThenSumSet(LAMBDA r : r.source_metadata.page_count, all.upserted)
        /\ Len(all.sent) = Cardinality({r.id : r \in all.upserted})
        /\ \A r \in all.upserted : \A i \in 1..r.source_metadata.page_count :
             r.source_metadata.blob_paths[i] =
               FilesOf(payload, r.source_metadata.albaran_group)[i].blob_path

\* A retry sends a group at most twice and leaves one document for it, as long
\* as the month is the same; over midnight of its last day it leaves a second
\* document with the same id.
ASSUME RetryRepeats ==
  \A payload \in Sessions, later \in {ThisMonth, NextMonth} :
    \A n \in 0..CallsOf(payload) :
      LET both == Retried(payload, n, ThisMonth, later)
          ids == {d.id : d \in both.documents}
          twice == Cardinality(both.documents) - Cardinality(ids)
      IN  /\ \A id \in ids : Cardinality({i \in DOMAIN both.sent : both.sent[i].albaran_id = id}) \in 1..2
          /\ twice = IF later = ThisMonth THEN 0 ELSE (n + 1) \div 2
=============================================================================
