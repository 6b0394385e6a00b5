# Verdecora albarán processing: TLA+ models, checks and proofs

Verdecora receives delivery notes (*albaranes*) as scans, extracts them with agents, validates them
against Business Central, asks a person when in doubt, and posts the receipt. The services are small and
mostly stateless. What is hard about them is between them: one Cosmos document per albarán that four
services read and overwrite as a whole, three Service Bus hops that deliver at least once, a reviewer,
a timer and a callback that act on one review at the same time, browsers whose responses overtake each
other, and a nightly job that compares two systems while both move. These modules model that, TLC checks it on
small instances, and TLAPS proves the main results for all instances.

## 1. Inventory

Paths are relative to `src/`.

| Part | Code | State it keeps | Operations | What is hard |
|---|---|---|---|---|
| Upload web | `src/upload_web/routes/api.py`, `services/upload_session.py`, `services/file_validator.py` | sessions in a dict of the process: status, files, preflight | create, sas, register, preflight, confirm, status | sync endpoints run in a thread pool on shared objects without a lock; publishing is best effort; memory is lost on restart |
| Upload web, session | `middleware/session_security.py`, `src/shared/auth/entra.py` | a signed cookie in the browser, with the user, two times and a CSRF token | load, issue, refresh on every response, log out | responses out of order bring old cookies back; two timeouts; two sources of the user |
| Upload web, preflight | `services/preflight.py`, `services/store_detector.py` | none | read an analysis, score it, advise, choose a store | the score of files, and a status written late |
| Flow 0 | `src/services/flow0_dedup/dedup_handler.py`, `main.py` | Cosmos records with a dedup key | look up, upsert, forward, settle | look-up and upsert are not atomic; redelivery after a partial failure; three executions at once |
| Orchestrator | `src/services/orchestrator/orchestration.py`, `handler.py`, `main.py` | the Cosmos record's status; the consumer task | read a payload, receive, process, settle; `POST /process` | at-least-once delivery, three kinds of payload, batches under one lock period, a consumer task nobody restarts |
| Agent pipeline | `src/agents/pipeline.py`, `security.py` | none | sanitise, triage, extract, coherence, validate, post | agents may answer anything; what is trusted is decided after sanitising |
| HITL web form | `src/services/hitl_webform/routes.py`, `auth.py` | the record | recognise a reviewer, save a decision, publish it | read, await, whole-document upsert |
| HITL callback | `src/services/hitl_webform/callbacks.py` | the record, Business Central | apply a decision, cancel a review | posting before writing; redelivery |
| Escalation timer | `src/services/escalation/`, `src/agents/communication_agent.py` | the record's level and status | list, choose a level, send, track | works from a listing that is stale by the time it writes |
| Reconciliation | `src/services/reconciliation/`, `src/mcp/bc_mcp/`, `src/mcp/acs_email_mcp/` | none | list records, list receipts, compare, ask an agent, mail a report | two listings of different moments, windows over stamps that others write, a restart after a mail |
| Learning | `src/services/learning/` | supplier profiles, flags (in the store below) | weekly analysis: group, rate, propose, write | profiles and flags are written one by one, and the first failure ends the cycle |
| Feature flags | `src/mcp/feature_flags_mcp/server.py` | flags and supplier configurations in Cosmos; a cache in each process | get, set, list | a write invalidates the writer's cache only; versions are counted from the cache |
| Adapters | `src/mcp/*` | clients | Cosmos, mail, Business Central, OCR | an answer that is empty, odd or an error |

Who talks to whom:

    upload web --topic--> (nothing in src/ reads it)
    blob storage --ingestion queue--> Flow 0 --extraction queue--> orchestrator --queue hitl-review--> (no reader in src/)
    escalation timer --mail--> reviewer --HTTP--> web form --topic hitl-decisions--> callback --> Business Central
    orchestrator, web form, callback, timer <--> one Cosmos document per albarán
    reconciliation job --list--> Cosmos, Business Central; --mail--> operators
    learning job --set_flag, set_supplier_config--> flags store <--get, set, list-- agents, operators

What makes each part correct:

* *Upload*: what the user was told is registered is in the message, on the page and in the list; limits hold for a user
  who waits for answers; a session is sent once; advice is cautious.
* *Session*: no cookie outlives its sign-in, a page is not served to an idle session that nothing revived, a form stays
  valid, whatever order responses come in.
* *Flow 0*: what is forwarded is recorded, what is acknowledged is recorded, duplicates are bounded, nothing
  is forgotten, every notification settles.
* *Orchestrator*: no document is stranded and no hand-over lost, but by a message that the broker itself gives up;
  postings and retries are bounded, every message settles.
* *Review*: the document tells the truth about notices, decisions and receipts although writers overwrite
  each other; reviews end; accepted decisions are applied.
* *Reconciliation*: what is listed as completed is not called missing, every decision is in some listing, every day has its report.
* *Flags and learning*: a process is never answered with less than a read or a write of its own told it, and from its
  cache with nothing older than the time to live; documents follow the last complete cycle across those that failed; the job
  earns the approvals it gives, but for those that the agent advises.

The list of what is hard to test, with its source line and the properties aimed at it, is `hazards` in
`PROJECT.json`.

## 2. Modules

| Module | Models | Extends / uses |
|---|---|---|
| `ProcessingRecord` | the Cosmos document and its statuses | |
| `Payloads` | what a queue message or a manual call carries, and the request made of it | |
| `Pipeline` | sanitising, and the routing decisions of `AlbaranPipeline.run` | |
| `Orchestrator` | consumer replicas, the queue, `process_document`, manual calls | `ProcessingRecord`, `Payloads`, `Pipeline`, `AtLeastOnce` (refinement) |
| `AtLeastOnce` | abstract: what the queue and its consumers promise | |
| `ReviewerAuth` | which headers make a request a reviewer's | |
| `HitlReview` | timer, communication agent, web form, decisions topic, callback, operator | `ProcessingRecord`, `ReviewerAuth` |
| `Flow0Dedup` | Flow 0 job executions and their queue | |
| `SessionIntake` | pure operators: `handle_session_message` | |
| `Preflight` | pure operators: analysis, score, advice, store | |
| `UploadSession` | one upload session under concurrent requests | `Preflight` |
| `EasyAuth` | pure operators: the user that the platform's headers name | |
| `WebSession` | the session cookie of one browser, with requests that overtake each other | `EasyAuth` |
| `FlagStore` | the flags server: documents, caches, calls | |
| `Reputation` | pure operators: profile of a supplier, proposals | |
| `Learning` | cycles of the learning job over the store | `FlagStore`, `Reputation` |
| `Drifts` | pure operators: the two sides of an albarán and what differs | |
| `BusinessCentral`, `Mail` | pure operators: how an answer of either server is read | |
| `Reconciliation` | the daily job, and the documents that move meanwhile | `Drifts`, `Mail`, `BusinessCentral` |
| `HitlReviewProofs`, `OrchestratorProofs`, `Flow0Proofs`, `LearningProofs`, `UploadProofs`, `WebSessionProofs`, `ReconciliationProofs` | proofs about the module each extends | `TLAPS` |
| `DataTheorems` | lemmas about sums and concatenations | used by `OrchestratorProofs`, `UploadProofs`, `LearningProofs` |
| `MC…` | the constants of the small instances | |

### How state and actions correspond to the code

**A document** is the record of the fields that are branched on: `status`, `level` (`escalation_level`),
`createdAt` and `decision` (`hitl_decision`). All writers use `upsert_item` without an etag, so a write
replaces the document; a writer that copied what it read (`dict(review_record)`) writes that copy back. Each
read that is followed by an `await` and a write is therefore two actions, with the copy kept in the actor
(`seen` for the timer, `request[w].copy`, `handler[h].copy`, `cancelling`).

**`HitlReview`.** `StartCycle` is the clock reading and listing of `run_once`; `SendNotice` and `TrackNotice`
are the two halves of `handle_hitl_review`; `Decide`, `SaveDecision` and `PublishDecision` are the read, the
upsert and the publish of `submit_review_decision`; `ReceiveDecision`, `PostInventory`, `WriteOutcome` are
`handle_decision`; `BeginCancel` and `EndCancel` are `cancel_review`. Two actors are outside `src/`. The
subscriber that calls `handle_decision` is taken to be a peek-lock receiver (`SettleDecision`, `FailHandler`,
`ExpireLock`). What opens a review is taken from the end-to-end tests: they seed a pending document with a
`created_at` and call `handle_hitl_review` at level *initial* (`OpenReview`, `TrackInitial`).

**`Orchestrator`.** A runner is a replica's consumer task or one manual call; `run[x].pc` is where its
`process_document` stands: `Begin` (write *processing*), `RunPipeline`, `PostInventory`, `WriteResult`,
`SendHitlMessage`, `WriteFailed` (the except clause), then `Settle` or `Respond`. An exception that
`handle_message` does not catch ends the consumer task for good (`Raise`), because nothing awaits or restarts
it; `Crash` restarts the whole replica. A call that fails may have been done: `FailInTry`, `BeginFails`,
`WriteFailedFails` and `SettleFails` have both outcomes. The broker counts deliveries: a message that comes back for the
`BrokerLimit`-th time is *given_up*, the dead-lettering by Service Bus that no code of the repository sees.

**`Payloads`, `Pipeline`.** A body is a record of the fields that are there. `Deserialize` tells an Event Grid event, what Flow 0
forwards and a manual request apart as `deserialize_message` does, and `ProcessingId` names the document; `SanitizedPayload`
replaces text that a pattern blocks before the supplier is looked up among the trusted. The decisions of agents are plain strings in
the models (`models/albaran.py:56`, `models/validation.py:33`): any agent may answer any `RoutingWord`, where *manual_review* stands
for every word that `_resolve_status` does not know.

**`Flow0Dedup`.** One execution takes one message: `Lookup`, `Upsert`, `Forward`, `Complete`, or `Abandon` by the
except clause. A key stands for the result of `build_dedup_key`, a `NameDate` for the pair the second arm
of the query compares, and an upsert replaces the record of the same key in the same partition.

**`UploadSession`.** FastAPI runs the plain `def` endpoints in a thread pool. A step is what a thread does
between two accesses to the session: `ReadTotal`, then `AppendFile` or `RefuseFile`, then `LookAtStatus` and
`StartUploading`, and so on; the pages run on the event loop between them. `before` is what was answered when a request
came, and `shown` what a page, a list or a message has. `Preflight` has the score in parts of a hundred.

**`WebSession`, `EasyAuth`.** `Arrive` is the middleware up to the handler: it loads the cookie the request brought, resolves
the user from the headers, and redirects, refuses or goes on; `Respond` is the response with the cookie that the middleware
sets, or that `/logout` deletes. Responses on their way arrive in any order. `Tick` lets the browser drop a cookie whose age
is up. `LeftOver` is what a browser has from before: cookies of another key, or broken ones. `worked` (the last
protected request that was served), `revived` (the last exempt request after it that set the session again) and `signedIn` are history. What a base64 string decodes to is a
choice of the instance.

**`Reconciliation`.** `StartRun` reads the clock; `ListRecords` and `ListReceipts` are the two listings, at different
moments; `AskAgent` and `SendReport` follow; `FailRun` is an exception anywhere, after which the platform starts the job once
more. A clock tick is a part of a day, `Day` is the window, and `CronAt` the distance from midnight, because receipts are
filtered by date and records by instant. The documents are the environment: each step of `Document` is what the orchestrator,
the callback, the web form's operator or a person in Business Central does to a record or a receipt, one writer at a time.
`straddled` has the documents a run started between the stamp and the write of.

**`FlagStore`, `Reputation`, `Learning`.** The server's tools are synchronous, so a process has one call under way;
it interleaves with other processes at each call to Cosmos (`Query` … `FillCache` or `FindNothing`, `Upsert` …
`EndSet`). `ListFlags` is one query and touches no cache. A stamp, which the code does not have, counts the writes of each document, so that properties can say which
of two documents is older. `LoseReply` is the write that is done and reported as failed. Rates and scores of
`Reputation` are integers, parts of `Scale`. The code computes them in floating point: how it rounds a
score that lies on a threshold is not modelled. `StartCycle` is `analyze` up to its first write, in a process without a
cache, and `Plan` what it sets out to write; an answer of the agent replaces the proposals or the profiles if its list is not empty, whatever the list
says: `plan` remembers whether one did (`silent`), and `advised` the suppliers such a report approves. Nothing in `analyze`
catches an exception: `JobFails` ends the cycle and leaves what it wrote.

**Assumptions.** Each container of Cosmos is one store on which reads and writes happen in one order. The account is deployed with
Session consistency (`infra/modules/cosmos.bicep:34`), under which a process may read what another has replaced already: a
read in the models is the moment its answer was current, and what a property says about reads that come *after* a write of another
process needs the stronger order. `UploadSession` has a configured Service Bus namespace; without one `_publish_to_service_bus`
returns before it sends (`api.py:226-228`), and every confirmed session stays unsent without a fault. The runs of the daily job have
recipients; the deployment sets none, a case only the theorem `Reported` covers.

**Faults.** Every failing call, crash and lapsed lock counts against `MaxFaults`. It bounds the runs only; the
proofs hold for every value. Some properties name it (`OneNoticePerLevel`, `ReceiptsAccountedFor`,
`RetryLimit`, `DailyReport`): they say how much each fault may cost.

## 3. Runs

All runs set `CHECK_DEADLOCK FALSE`: requests are made once and queues run empty, so each system stops.

| Run | Module | Checks | What it shows |
|---|---|---|---|
| `HitlReview` | `MCHitlReview` | `TypeOK`, `LevelWasNotified`, `OneNoticePerLevel`, `OutcomeMatchesDecision`, `ReceiptsAccountedFor` | The escalation timer, two reviewers, a callback and the operator on one review, with a fault: stale copies forge neither a level nor an outcome and make the timer repeat no notice, and every receipt is explained. |
| `HitlEnds` | `MCHitlReview` | `PendingReviewEnds`, `AcceptedDecisionIsApplied` | Two reviews and a batch of one, with a fault: every open review comes to an end although the oldest is listed first every time, and an accepted decision is applied. |
| `HitlResponseStops` (violated) | `MCHitlReview` | `ResponseStopsEscalation` | The escalation cycle overwrites a decided review with the copy it listed. |
| `OrchQueue` | `MCOrchestrator` | `TypeOK`, `NoStrandedDocument`, `NoLostHandoff`, `KeepsContract` | Two messages about one document, a third that cannot be read, two replicas and a fault: unless the broker gave a message up at its own limit, no document is left in processing and no review without its hand-over; and the consumers implement the contract AtLeastOnce. |
| `OrchLapse` | `MCOrchestrator` | `ReceiptsBounded`, `RetryLimit`, `EveryMessageSettles` | A document that fails every time, a manual call and a lock that may run out: postings stay bounded, the failing message is dead-lettered at its last attempt, and every message settles. |
| `OrchPoison` (violated) | `MCOrchestrator` | `EveryMessageSettles` | One message that cannot be deserialized ends the consumer task of each replica it is delivered to, and the messages after it stay in the queue. |
| `Flow0Jobs` | `MCFlow0Dedup` | `TypeOK`, `ForwardedIsRecorded`, `AcknowledgedIsRecorded`, `ForwardsBounded`, `ForgottenOnlyByFault`, `EveryNotificationSettles` | Two job executions racing on four notifications, two of one blob, two of one name and one malformed, with a fault. |
| `Flow0Lost` (violated) | `MCFlow0Dedup` | `AcknowledgedIsForwarded` | A job that fails between the upsert and the send leaves a record that makes the retry skip the blob as a duplicate. |
| `UploadThreads` | `MCUploadSession` | `TypeOK`, `AnsweredFilesFit`, `AnswersAreComplete`, `UnsentOnlyByFault`, `SentAgainHasCause`, `AdviceIsCautious` | Four requests of every kind on one session, interleaved at each access, with a failing publish or signature, or a restart. |
| `LearningFlags` | `MCLearning` | `TypeOK`, `StaleAtMostTTL`, `VersionCountsWrites`, `FlagsFollowProfile`, `AutoApproveIsEarned`, `AnswersNeverGoBack` | Two cycles of the learning job, with a report of the agent that contradicts itself, and another process on the documents of one supplier, with a fault: documents say what the last cycle set out to write although an earlier one failed half way, the job earns the approvals it gives of its own accord, and the per-process caches neither go back, but from a list to a read, nor stay stale. |
| `Reconcile` | `MCReconciliation` | `TypeOK`, `NoFalseMissing`, `DecisionsAreListed`, `DailyReport` | The daily job over two days and a half while one document is processed, decided, posted, cancelled and taken back, with two faults: a document listed as completed is not called missing, decisions are listed by some run, and every day has its report. |
| `WebSession` | `MCWebSession` | `TypeOK`, `SessionIsBounded`, `FormsStayValid`, `IdleIsNoticed` | Two users and two requests at once in one browser: late responses that bring back an older cookie neither prolong a session nor make an idle one pass for used, and the form of a page stays valid. |

**Bounds.** Two of each actor that can race (reviewers, callbacks, replicas, messages about one document, job
executions) are enough for an overlap of two read-modify-write sequences; in the review a timer or the operator is the
third party, at the orchestrator a manual call, in Flow 0 a blob of the same name. The batch of one with two reviews is
the smallest in which a review can be starved. `HitlReview` has one review, two reviewers, a callback, the operator and two
ticks: reminder and escalation come one after the other, and the final threshold falls together with the escalation's;
`HitlResponseStops` has three ticks for three thresholds, `HitlEnds` two reviews and a request of somebody who is no
reviewer. One fault allows a failure and the recovery from it; the daily job has two, because its platform starts a
failed run once more. `OrchQueue` has two messages about one document that differ in what they carry, and one that cannot be
read, and a broker whose limit of three a crash reaches, so that it gives a message up; `OrchLapse` has a message that fails each time. Upload sessions have four requests of any kind, so that two
registrations, a preflight and a confirmation can overlap, and sizes at, below and above both limits. `LearningFlags` has a
reliable week, a risky one and one with a supplier under two names, in any order, an agent that says nothing or contradicts itself (a
profile that is not eligible and an approval), a time to live and a longest read of one tick each, two ticks and one fault. A document is written three times before the first cycle and two times from then on, with
what holds right after the third (`LastWriteEarly`): enough for an entry that goes stale while
another process writes, and for a cycle that fails between a profile and its flags and is followed by another one.
`Reconcile` has one document over two days and a half, a tick of half a day, a run that is not at midnight, a batch of
one that an older receipt may fill, and totals within and beyond the tolerance. `WebSession` has two users, two requests at
once, an idle timeout of one tick and an absolute one of three in four ticks, one of whom a principal without expiry names and the other a token that expires, headers that name nobody, a cookie of another
key and a broken one. Symmetry is used on sets whose members the specification does
not tell apart, in runs without liveness; the action property of `WebSession` is about single steps. Pure operators are checked where a module has a run over them, and
`MCFlow0Dedup` evaluates two statements about `SessionIntake` as assumptions: each file of a session is in one document
(`EveryFileHasOneDocument`), and a message that is delivered again forwards the groups it had forwarded again
(`RetryRepeats`).

**Fairness.** The timer is an hourly job and the clock runs: weak fairness of `Timer` and `Tick`. A coroutine whose
process is not stopped finishes: weak fairness of `TrackInitial`, `EndCancel`, `WebForm`, `Callback`. A consumer task
that lives polls its queue, and the broker ends the locks of consumers that are gone: weak fairness of `Consume` and
`ExpireAbandoned`; the scaler starts Flow 0 jobs while the queue is not empty: weak fairness of `Execute`. Reviewers,
operators, manual calls and faults have none. A consumer task that died is not restarted, because nothing in the code
restarts it.

**Violations.** Three runs check one statement each of the documentation or a comment, and TLC shows how the code breaks
it; `findings` in `PROJECT.json` quotes the statements:

* `HitlResponseStops`: the timer lists a pending review and awaits the mail; meanwhile the reviewer decides and the
  request is accepted; the timer then writes its copy back, *reminded*, and the review is pending again.
* `OrchPoison`: a payload that `deserialize_message` rejects raises outside the `try` of `handle_message` and ends the
  consumer task; the lock runs out, the message goes to the next replica and ends that one too.
* `Flow0Lost`: the record is upserted, the send to the extraction queue fails, the message is abandoned, and its
  redelivery finds the record and is completed as a duplicate.

**Other divergences met while modelling.** The models contain each of these, and no run is spent on them:

* `save_decision` overwrites an accepted decision, where `docs/user/hitl-user-manual.md:47` says a decision cannot be
  changed directly; an approving decision delivered twice posts twice, where
  `docs/architecture/architecture-decision-record.md:289` promises idempotent agent code (`ReceiptsAccountedFor` bounds it).
* `_resolve_status` (`orchestration.py:279`) turns the triage decision *manual_review* into *failed* and hands nothing
  over, where `src/agents/README.md:6` says it is sent to manual review.
* A document of low value is *completed* without a receipt (`pipeline.py:176`), where `docs/user/upload-web-manual.md:89`
  says completed means registered in Business Central.
* A second message about a finished document starts it again from *processing* (`orchestration.py:294`); the decision
  record, line 328, shows an idempotency guard.
* Two Flow 0 executions may both forward a blob (`dedup_handler.py:242-251`; `ForwardsBounded` bounds it), and the
  name-and-date arm of the query drops a blob with a hash of its own (`dedup_handler.py:73`), where
  `src/services/flow0_dedup/README.md:8` calls it a fallback.
* A preflight that ends after the confirmation, or a first registration that is late, takes a confirmed session back
  (`api.py:157`, `api.py:67`), where `docs/user/upload-web-manual.md:74` says a confirmation cannot be undone; a publish that
  failed is not repeated (`api.py:168`); two racing registrations can exceed the session limit (`api.py:82`); a restart
  loses the sessions (`upload_session.py:13`), where line 130 of the manual says files are kept.
* `set_flag` erases the overrides of a flag (`server.py:193`), where `docs/operations/configuration-guide.md:154` says flags
  support them. `list_flags` answers from Cosmos and leaves the cache as it is (`server.py:205-227`), so that a `get_flag` after
  it may answer with an older document. With two writers the version of a flag can go back, because it is counted from the cache
  (`VersionCountsWrites` is limited to one writer).
* The learning job proposes *force_hitl* for a risky supplier and never withdraws it (`flag_proposer.py:24`), so that a
  supplier that recovers has *auto_approve* and *force_hitl* at once. The agent's `feature_flag_proposals` are written as they
  are (`analyzer.py:104-113`, `147-154`): they may approve a supplier whose profile says the opposite. Of three profiles under one supplier id, the
  third may lose its word to the second (`flag_proposer.py:34`).
* What Flow 0 forwards has the metadata of the blob one level deeper than the orchestrator looks (`Payloads`): `total_amount`
  and `supplier_id` act only for a direct notification or a manual call. A direct notification is processed under the id of
  its event instead of the digest; of an array only the first event is read; the path of a web upload has three parts, so
  that its store is always *unknown-store*. A trusted supplier whose name contains `--` is redacted before the trust check.
* Nobody consumes the topic the upload web publishes to, and nothing calls `handle_session_message`; it would forward a
  message's groups again on each retry, and after a month boundary leave two documents of one id.
* An endpoint that signs after the confirmation, or a preflight, lets a session be sent again (`SentAgainHasCause`), while
  the plain repetition that section 1.4 of the runbook recommends does not send again. `processing_status` is never written;
  the page creates a session on every view; one name twice in a session is one blob; the list of sessions raises when a
  session is created meanwhile; the result of `sanitize_filename` is not used.
* `/logout` deletes the cookie, and the middleware sets it again when the request had a user; an expired cookie redirects
  every path, `/logout` too; a user from principal headers has no expiry, and the landing page redirects on a token header
  that is there, valid or not.
* Automatic documents carry no time stamp, so the daily job never lists them and reports their receipts as missing in Cosmos,
  where `docs/architecture/post-mvp-agents.md:7` says it detects differences; the learning job's query has the same gap. The two
  sides may name a document differently; `NoFalseMissing` needs that they do not (`NamesAgree`). A decision that a run starts in the
  middle of, and what happens before a late start, may be in no listing. An answer
  without text passes for no receipts, and *repost* is suggested for statuses that no service writes. A mail that was sent
  without an identifier raises, and the restarted job sends a second report (`DailyReport`).
* A review that waits, or is decided, and has no receipt yet is reported as *missing_in_bc*, and one with a receipt as a
  *status_mismatch*; so is every reconciled record, whose *completed* differs from the *posted* of a receipt
  (`reconciler.py:169-171`, `386-388`). `tests/unit/test_reconciliation.py:139` expects no drift for a match, with a record whose
  status is *posted*, which no service writes.
* An idle browser is sent to `/logout`, which is exempt from the test for idleness and sets the session again with a fresh
  `last_activity` (`session_security.py:194-195`, `210-212`, `228-229`): the next protected page is served without a sign-in, where
  `docs/user/upload-web-manual.md:110-112` and `docs/user/uat-checklist.md:82-87` say that the user signs in again. `IdleIsNoticed` counts such
  a request beside the last work; over `worked` alone TLC refutes it.
* A message that the broker gives up after crashes leaves its document in *processing* (`orchestration.py:294`) or its review
  without a hand-over (`orchestration.py:322`), and nothing looks for either.
* A triage answer of *approve* or *posted* ends a document as *completed*, with no validation and no receipt.

## 4. Proofs

All proofs hold for every value of the constants under the named assumptions of the modules
(`HitlAssumption`, `OrchestratorAssumption`, `Flow0Assumption`, `FlagStoreAssumption`, `LearningAssumption`, `RepliesAreKnown`,
`UploadAssumption`, `SessionAssumption`, `ReconciliationAssumption`): disjoint identities, finite sets of jobs and documents, natural
bounds, that a scan has likenesses between none and full, and that the store has a document for each supplier the learning job or its
agent may name. A theorem that needs more says so: `ThresholdsPositive`, `Undisturbed`, `NamesAgree`, or a finite set of jobs where the
property itself is a sum over them.

Between them the theorems state every invariant and every action property that a passing run checks; what is left to TLC is the
liveness at the end of this section.

**`HitlReviewProofs`.** Types come from `Shape`: `TypeOK`, that a request or handler under way names a known
albarán or decision (`RequestsKnown`, `HandlersKnown`), and that what the timer still has to notify was due
when it listed it (`SeenAreDue`, without which `NextLevel` chooses from an empty set). `LevelWasNotified` and
`OutcomeMatchesDecision` are not inductive: a document may be overwritten by any copy an actor holds, so they
must be known of every copy. `Honest` says that every document, every copy and what every actor is about to
write *tells the truth* (`TellsTruth`) about the mails sent, the receipts posted and the verdicts given. Mails
and receipts only grow and verdicts of copies in use never change (`StepExtends`), so a truth lasts
(`TruthLasts`), and each action either copies a truth or writes a new one. `OneNoticePerLevel` is not inductive either, as a stale
copy that is written back lowers the level of a document. `NoticesKept` therefore looks at the levels above the one of a document
and above the one of the timer's copy: none of them has been notified but for faults, except the one that was just sent and is not
tracked yet; and a review that is being opened is younger than every threshold. The last part needs the thresholds to be
positive (`ThresholdsPositive`), which `EscalationConfig` does not validate: with `HITL_REMINDER_AFTER_HOURS=0`, TLC finds the timer
listing a review whose opening notice is not tracked, and the tracking then erases the reminder's level, so that the reminder goes
out again. `ReceiptsAccountedFor` is a count: in `Balance` each receipt, each decision that waits and each callback that
is about to post is one published approval or one fault, and moving a decision from one of these to the next keeps the sum.

**`OrchestratorProofs`.** `Sound` has the types and that a run under way fits its consumer's batch (`RunsFit`). Two of the
theorems and the refinement assume `Undisturbed`: locks do not lapse and nobody calls `POST /process`. Both are real
(`OrchLapse` has them), and both leave behind a document that no message stands for, so the theorems are false without the
assumption. Under it `Held` says that a message in a batch is locked by that consumer alone, so nobody else is at work on it;
and `OutcomeIsDue` and `ReviewIsDue` strengthen the two invariants to *a message about the document is still open and its
holder is not about to complete it, or the broker gave one up*, which a step preserves because a message is completed only after its
own write. `FewFaultsGiveUpNothing` says when the exception is empty (`FewFaults`: the broker's limit leaves room for the attempts of
the consumers and a delivery per fault), from `UsedUp`, that a message given up was delivered as often as the broker allows, and `Spent`, what deliveries cost.
`ReceiptsAreBounded` needs it neither: `Covered` counts a runner that may still post (`MayPost`) as a posting, so that what is
posted and what may be never exceeds the attempts made, whoever else is at work.
`RetriesEnd` needs no such assumption but that every message can be read: `Spent` counts deliveries against the faults, and
knows that a message in the queue or in a batch whose lock lapsed has been delivered once less than one that is held.
`ContractIsKept` is a step simulation: for each action, one lemma per kind of contract step (`TakeMap`, `MarkMap`,
`RecordMap`, `HandOverMap`, `FailureMap`, `ReleaseMap`, `FinishMap`, `LoseMap`) shows what it does to the mapped state, where
the progress of a message is read off the run of its holder, and every other action is shown to stutter.

**`Flow0Proofs`.** `Known` says that a job that is past its look-up looked at a well-formed event, that what is
about to be forwarded is recorded, and that what is about to be acknowledged is recorded itself or under its
name and date; an upsert replaces records but never removes a key (`KeysStay`). `ForwardsBounded` needs a
count: for each key, the forwards made plus the executions between look-up and forward never exceed the number
of executions (`Counted`). The first upsert of a key closes the way for all later look-ups, so the executions
on the way can only become fewer after the first forward.

**`LearningProofs`.** Types come from `Shape`, which adds that a cycle has something left to write exactly while the
job's process may be in a call. `StepsOfStore` reduces every step of the job and of the other processes to a step of
the store; the three invariants are then about the store alone. `Aged`: every entry expires in time, and a read
under way has not taken too long. `Ordered`: what a process was answered with is not newer than Cosmos and not
newer than anything it may still answer with, in its cache or in a call. `Listing`: what a list had is not newer than Cosmos, and not
newer than what a call read or wrote after it; only an answer from the cache may be older. `Counted`: while a process is the only
writer of a flag and nothing failed, all it has of the flag is what Cosmos has, but for its cache between the
write and the end of the call.

The two properties of the job rest on what a cycle sets out to write, which is proved first, from the definitions of
`Reputation`: every write is one the store knows (`WritesAreKnown`), all profiles go before all flags and, where both lists are the
job's own, an approval is proposed for a supplier only with an eligible profile of it (`CycleEarns`), and the writes about a supplier
known under one name all fit one profile, with a write for each of its two flags (`CycleFits`). Of a list of the agent nothing is known
but that its writes are some the store takes; `advised` has what it approves. `JobInv` carries both through the calls of the job. `FirstCall` and `Landed`
tie a call to the write it makes; `FlagsEarned` says that each approval that is written or left to write is earned, or has its
profile before it; `Following` that for each such supplier there is one profile that all writes left fit, and all documents that have
no write left; `Behind` that the writes left are the end of the plan, and that a document says what the last write before them says of it. Neither property is inductive by itself, as each is silent about a cycle half way.

**`UploadProofs`.** Every action is first reduced to what it does to the session and to one request (`StepOfSession`,
`StepOf`), so that each part of the invariant is proved once. `AnswersAreComplete` needs that files are only ever added
while the session is there (`FilesKept`) and that what was answered before a request came was registered by then
(`BeforeIsAnswered`). `AnsweredFilesFit` needs that the total a registration read, however old it is, counted all files answered
before the request came (`Measured`). That a preflight is cautious, and its types, follow from how a summary is made
(`Summarized`): the score of a scan is at most full, and a match has a store. The two properties about sending need history: a confirmed session has a request that will send it or
has sent it (`ConfirmedIsSent`), and a status that was confirmed and is not any more was changed by a request of another kind
(`ChangeHasCause`).

**`WebSessionProofs`.** The invariant is about every payload the browser has or is about to get (`Carried`). `AllBacked`: it
was last used no later than the last work or the last exempt request that revived it, and ends no later than the absolute timeout after the last request
Easy Auth vouched for; refreshing copies the end and never moves it. `OneToken`: unless two requests raced, those of one
user have one token. `IdleNoticed` is an action property and follows from the first, because what a response
brings back may be old, but never claims to be newer than it is.

**`ReconciliationProofs`.** `Story` follows one document: no stamp is in the future, a decision under way is about a record
that waits for it, and what is completed was posted, not before any stamp of its record. Each of the nine steps of a document
keeps it (`DocumentStep`). With it, a record that was listed as completed in the window has a receipt that the filter by
date does not drop, unless it was taken back or the listing was cut, which is `NoFalseMissing`. `DecisionsAreListed` is inductive once the times of the job are known
(`Times`: without faults a run starts when it is due). `DailyReport` counts: twice the missing reports never exceed the
faults, less one during a second attempt (`Counted`).

**`DataTheorems`.** Sums (`SumFunctionOnSet`) and concatenations (`FlattenSeq`) of the community modules are recursive
functions. What they compute is proved by minimal counterexample, from the well-founded order of the finite subsets of a set and
from the least natural number of a set, as an induction theorem with an operator parameter is of no use here.

**What stays with TLC.** Liveness under fairness and everything with `ENABLED` (`PendingReviewEnds`, `AcceptedDecisionIsApplied`,
`EveryMessageSettles`, `EveryNotificationSettles`); what lapsing locks and manual calls do beyond `RetryLimit` and `ReceiptsBounded`; that the
rates and scores of `Reputation` are the numbers they should be, which no theorem depends on; and the two statements about
`SessionIntake` that `MCFlow0Dedup` evaluates.

## 5. Not modelled

* **Flow 0 deduplication** (partly): handle_message and the job around it as actions; handle_session_message, which nothing in src/ calls, as operators with its retries.
* **upload sessions** (partly): The life of one session under concurrent requests of every kind, the list of the sessions and the page among them; file names and MIME types are checked without state and left out.
* **upload web pages** (partly): The page that opens a session on every view and the list of the sessions are requests of UploadSession; rendering, settings and telemetry are left out.
* **upload preflight** (partly): Reading an analysis, the score, the advice and the choice of the store, as operators; that the matching of names is approximate is a choice of the constants.
* **upload SAS** (partly): A signature that is given or fails, as a request; the address it signs is left out.
* **Entra authentication** (partly): What the headers of the platform make of a request: principal, token, claims, groups and expiry, as operators; decoding is a choice of the constants, and the dependencies of FastAPI, which only raise the errors, are left out.
* **learning** (partly): The query, the grouping, the profile, the agent's report with any lists of its own, the proposals and the writes of a cycle. Left out: the parts of a profile no flag depends on (processing times, common issues, notes), and the summary.
* **feature flags** (partly): Reading, writing and listing flags and supplier configurations, and the cache of each process. Left out: the overrides of a flag, which set_flag erases.
* **MCP servers and clients** (partly): How the client of Business Central reads an answer, how the mail server decides that a mail was sent, and the analysis of a document are operators; the Cosmos tools hand each call to the SDK, and the other tools of the OCR server, which nobody calls, are left out.
* **security headers** (not modelled): Constant response headers and a nonce per response: no state, no decision.
* **rate limiter** (not modelled): The application never installs or calls it: no step of the running system reaches it.
* **HITL audit and link security** (not modelled): Nothing in the request path calls the audit log, the checks of links or the signatures: only tests do. Their place among the steps of a decision would be invented.
* **validation rules** (not modelled): Only tests construct these models; in the pipeline the agents answer with decisions of their own, which Pipeline has as choices.
* **content safety and PII redaction** (not modelled): Nothing in the services calls them; the sanitising that is called is in Pipeline.
* **agent factory and configuration** (not modelled): Construction of clients from the environment.
* **proofs of concept** (not modelled): Experiments kept beside the product; nothing in the services uses them.

## 6. Plan

Done: the review with its reviewers' authentication, the orchestrator with its payloads and the refinement of the
queue contract, Flow 0 with the session intake, upload sessions with preflight and pages, the session cookie, the learning job
over the flags store, the reconciliation job with its adapters, and the proofs of section 4, the refinement
and every safety property of the runs among them.

Left, in this order:

1. *Composition*: the orchestrator's writes against the review on one record, once something in the repository opens
   reviews; the two modules overlap on nothing but the status before that.
2. *Session intake*: `EveryFileHasOneDocument` and `RetryRepeats`, which `MCFlow0Dedup` evaluates on small sessions, for all
   sessions, with the lemmas of `DataTheorems`.
3. *Code without callers*: rate limiter, audit log and link checks, content safety, as soon as something calls them.
