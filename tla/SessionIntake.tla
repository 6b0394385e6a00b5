---------------------------- MODULE SessionIntake ----------------------------
(***************************************************************************)
(* handle_session_message of Flow 0: the intake of a confirmed upload      *)
(* session, with one document for each group of its files.  No service     *)
(* reads the topic the upload web publishes sessions to, and only tests    *)
(* call this code; it is described here as what a call leaves behind when  *)
(* it is cut short after some of its calls to Cosmos and the broker.       *)
(***************************************************************************)
EXTENDS Payloads, Integers

GroupOf(file) == IF file.albaran_group = "" THEN "default" ELSE file.albaran_group

\* The keys of the dict: the groups in the order of their first files.
Groups(payload) ==
  LET files == payload.files
      firsts == {i \in DOMAIN files : \A j \in 1..(i - 1) : GroupOf(files[j]) # GroupOf(files[i])}
  IN  [i \in 1..Cardinality(firsts) |-> GroupOf(files[SetToSortSeq(firsts, <)[i]])]

FilesOf(payload, group) == SelectSeq(payload.files, LAMBDA f : GroupOf(f) = group)

\* A path without a slash has no store; the web gives a session and a name.
StoreOfSession(path) == IF Len(path) > 1 THEN StoreId(path) ELSE "upload-web"

\* The id does not depend on the files, the partition key on when this runs.
GroupRecord(payload, group, now) ==
  LET pages == FilesOf(payload, group)
      paths == [i \in DOMAIN pages |-> pages[i].blob_path]
      store == StoreOfSession(Head(paths))
      key == <<"session", payload.session_id, group>>
  IN  [id |-> key, pk |-> PartitionKey(store, now), store_id |-> store,
       event_id |-> payload.session_id, event_time |-> now, dedup_key |-> key,
       blob_url |-> Head(paths), blob_path |-> Head(paths),
       blob_name |-> Head(pages).filename,
       source_metadata |-> [albaran_group |-> group, blob_paths |-> paths,
                            page_count |-> Len(paths)]]

\* _forward_session_group.
ForwardSessionGroup(rec) ==
  [albaran_group |-> rec.source_metadata.albaran_group] @@ ForwardMessage(rec)

\* What the first n calls leave: for each group in turn an upsert and a send.
HandleSessionMessage(payload, now, n) ==
  LET records == [i \in DOMAIN Groups(payload) |-> GroupRecord(payload, Groups(payload)[i], now)]
  IN  [upserted |-> {records[i] : i \in {k \in DOMAIN records : 2 * k - 1 <= n}},
       sent |-> [i \in 1..(n \div 2) |-> ForwardSessionGroup(records[i])]]

\* Both runs of a message that was abandoned after n calls and delivered again.
CallsOf(payload) == 2 * Len(Groups(payload))

Retried(payload, n, now, later) ==
  LET first == HandleSessionMessage(payload, now, n)
      second == HandleSessionMessage(payload, later, CallsOf(payload))
      kept == {r \in first.upserted : \A s \in second.upserted : r.id # s.id \/ r.pk # s.pk}
  IN  [documents |-> kept \cup second.upserted, sent |-> first.sent \o second.sent]
=============================================================================
