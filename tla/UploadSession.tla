--------------------------- MODULE UploadSession ----------------------------
(***************************************************************************)
(* One upload session of the upload web app: a mutable object in the       *)
(* memory of one process, which the endpoints of the app read and write    *)
(* from the threads of a pool without a lock.  A request is a thread here, *)
(* and a step is what it does between two accesses to the session that     *)
(* another thread may come between.                                        *)
(***************************************************************************)
EXTENDS FiniteSets, Functions, Preflight

CONSTANTS
  Request,         \* HTTP requests, each made once
  Metadata,        \* what the browser says of the files it has uploaded
  Scan,            \* what may be recognised in the text of the files
  MaxFileSize,     \* MAX_FILE_SIZE_BYTES
  MaxSessionSize,  \* MAX_SESSION_SIZE_BYTES
  MaxFaults        \* bound on publishes and signatures that fail and on restarts

\* base: of the file name, after its directories.
Name == [base : {"none", "safe", "odd"}, traversal : BOOLEAN]
FileMetadata == [name : Name, type : STRING, size : Nat]

ASSUME UploadAssumption ==
  /\ IsFiniteSet(Request)
  /\ Metadata \subseteq FileMetadata
  /\ MaxFileSize \in Nat /\ MaxSessionSize \in Nat /\ MaxFaults \in Nat
  /\ None \notin Store /\ \A scan \in Scan : IsScan(scan)

VARIABLES
  status,     \* status of the session, "gone" after a restart
  files,      \* the requests whose file is registered in the session
  preflight,  \* the summary of the last preflight, or None
  request,    \* the state of each request
  published,  \* the files of the message each request published
  faults      \* faults so far

vars == <<status, files, preflight, request, published, faults>>

\* open creates another session, list shows the user's sessions; view is any of
\* the pages and answers that show this one.
Kind == {"open", "list", "view", "sas", "register", "preflight", "confirm"}
OnSession == Kind \ {"open", "list"}

NoFile == [name |-> [base |-> "none", traversal |-> FALSE], type |-> "", size |-> 0]

\* total: the session size the request read.  before: the requests answered when
\* it came.  shown: the files it shows, or sends with the message.
NewRequest == [pc |-> "new", kind |-> "open", file |-> NoFile, total |-> 0,
               before |-> {}, shown |-> {}]

Init ==
  /\ status = "created"
  /\ files = {}
  /\ preflight = None
  /\ request = [q \in Request |-> NewRequest]
  /\ published = [q \in Request |-> {}]
  /\ faults = 0

Fault == faults < MaxFaults /\ faults' = faults + 1
Refused == [NewRequest EXCEPT !.pc = "refused"]
Goto(q, pc) == request' = [request EXCEPT ![q].pc = pc]
Refuse(q) == request' = [request EXCEPT ![q] = Refused]
Show(q, pc) == request' = [request EXCEPT ![q].pc = pc, ![q].shown = files]
At(q, kind, pc) == request[q].kind = kind /\ request[q].pc = pc

FileSize == [q \in Request |-> request[q].file.size]
SizeOf(S) == SumFunctionOnSet(FileSize, S)
TotalSize == SizeOf(files)

Answered == {q \in Request : request[q].pc = "answered"}
RegisteredBefore(q) == {r \in request[q].before : request[r].kind = "register"}

\* The session is found and its owner is the user.
Arrive(q, kind) ==
  /\ request[q].pc = "new"
  /\ \/ status = "gone" /\ kind \in OnSession /\ Refuse(q)
     \/ /\ status # "gone" \/ kind \notin OnSession
        /\ \E file \in IF kind = "register" THEN Metadata ELSE {NoFile} :
             request' = [request EXCEPT ![q] =
               [NewRequest EXCEPT !.pc = "begun", !.kind = kind, !.file = file,
                                  !.before = Answered]]
  /\ UNCHANGED <<status, files, preflight, published, faults>>

-----------------------------------------------------------------------------
(* create_upload_session and the pages.  A session that is created while   *)
(* another thread goes through the sessions of a user makes that fail: the *)
(* dictionary has changed its size.  The pages run one after the other in  *)
(* the event loop, the endpoints of the API in the threads of a pool.      *)

ListUnderWay == \E r \in Request : At(r, "list", "iterate")

\* The upload page starts a session each time it is viewed ...
UploadPage(q) ==
  /\ At(q, "open", "begun")
  /\ ~ListUnderWay
  /\ Goto(q, "answered")
  /\ UNCHANGED <<status, files, preflight, published, faults>>

\* ... and so does the API.
CreateSession(q) ==
  /\ At(q, "open", "begun")
  /\ request' = [r \in Request |->
       IF r = q THEN [request[r] EXCEPT !.pc = "answered"]
       ELSE IF At(r, "list", "iterate") THEN Refused
       ELSE request[r]]
  /\ UNCHANGED <<status, files, preflight, published, faults>>

\* The storage account gives no key to sign the access to the container with.
CreateFails(q) ==
  /\ At(q, "open", "begun")
  /\ Fault
  /\ Refuse(q)
  /\ UNCHANGED <<status, files, preflight, published>>

ListSessions(q) ==
  /\ At(q, "list", "begun")
  /\ ~ListUnderWay
  /\ Goto(q, "iterate")
  /\ UNCHANGED <<status, files, preflight, published, faults>>

ShowSessions(q) ==
  /\ At(q, "list", "iterate")
  /\ Show(q, "answered")
  /\ UNCHANGED <<status, files, preflight, published, faults>>

ShowSession(q) ==
  /\ At(q, "view", "begun")
  /\ Show(q, "answered")
  /\ UNCHANGED <<status, files, preflight, published, faults>>

-----------------------------------------------------------------------------
(* generate_sas and register_file: both end by moving a new session to     *)
(* "uploading", which takes a read of the status and then a write.         *)

IssueSas(q) ==
  /\ At(q, "sas", "begun")
  /\ Goto(q, "look")
  /\ UNCHANGED <<status, files, preflight, published, faults>>

\* The storage account gives no key to sign the address of the blob with.
SasFails(q) ==
  /\ At(q, "sas", "begun")
  /\ Fault
  /\ Refuse(q)
  /\ UNCHANGED <<status, files, preflight, published>>

ReadTotal(q) ==
  /\ At(q, "register", "begun")
  /\ request' = [request EXCEPT ![q].pc = "validate", ![q].total = TotalSize]
  /\ UNCHANGED <<status, files, preflight, published, faults>>

SafeName(name) == name.base = "safe" /\ ~name.traversal

ALLOWED_MIME_TYPES == {"application/pdf", "image/jpeg", "image/png", "image/tiff"}

FileFits(size) == size \in 0..MaxFileSize

\* Mutant of SessionFits: the file is compared with the session limit by itself.
SessionFitsAlone(total, size) == size <= MaxSessionSize

SessionFits(total, size) == total + size <= MaxSessionSize

ValidFile(file, total) ==
  /\ SafeName(file.name)
  /\ file.type \in ALLOWED_MIME_TYPES
  /\ FileFits(file.size)
  /\ SessionFits(total, file.size)

RefuseFile(q) ==
  /\ At(q, "register", "validate")
  /\ ~ValidFile(request[q].file, request[q].total)
  /\ Refuse(q)
  /\ UNCHANGED <<status, files, preflight, published, faults>>

AppendFile(q) ==
  /\ At(q, "register", "validate")
  /\ ValidFile(request[q].file, request[q].total)
  /\ files' = files \cup {q}
  /\ request' = [request EXCEPT ![q].pc = "look", ![q].total = 0]
  /\ UNCHANGED <<status, preflight, published, faults>>

LookAtStatus(q) ==
  /\ request[q].pc = "look"
  /\ Goto(q, IF status \in {"created", "draft"} THEN "start" ELSE "answered")
  /\ UNCHANGED <<status, files, preflight, published, faults>>

StartUploading(q) ==
  /\ request[q].pc = "start"
  /\ status' = "uploading"
  /\ Goto(q, "answered")
  /\ UNCHANGED <<files, preflight, published, faults>>

-----------------------------------------------------------------------------
(* preflight_check: the documents are analysed between the first look at   *)
(* the session and the write of its status.                                *)

BeginPreflight(q) ==
  /\ At(q, "preflight", "begun")
  /\ IF files = {} THEN Refuse(q) ELSE Goto(q, "analyze")
  /\ UNCHANGED <<status, files, preflight, published, faults>>

\* analyze_with_document_intelligence: the text of the first files; None where the
\* analysis of one of them fails, or is not configured, and where there is none.
Analysis == Scan \cup {None}

\* Mutant of Summarize: the review is advised when no other file is registered.
SummarizeByCount(q) ==
  /\ At(q, "preflight", "analyze")
  /\ \E scan \in Analysis :
       preflight' = [RunPreflight(scan) EXCEPT !.review = Cardinality(files) = 1]
  /\ Goto(q, "finish")
  /\ UNCHANGED <<status, files, published, faults>>

Summarize(q) ==
  /\ At(q, "preflight", "analyze")
  /\ \E scan \in Analysis : preflight' = RunPreflight(scan)
  /\ Goto(q, "finish")
  /\ UNCHANGED <<status, files, published, faults>>

\* Mutant of EndPreflight: the session goes back to being a draft.
EndPreflightAsDraft(q) ==
  /\ At(q, "preflight", "finish")
  /\ status' = "draft"
  /\ Goto(q, "answered")
  /\ UNCHANGED <<files, preflight, published, faults>>

EndPreflight(q) ==
  /\ At(q, "preflight", "finish")
  /\ status' = "preflight"
  /\ Goto(q, "answered")
  /\ UNCHANGED <<files, preflight, published, faults>>

-----------------------------------------------------------------------------
(* confirm_session and the best-effort publish.                            *)

\* Mutant of LookAtSession: a confirmed session is not known again.
LookAtFilesOnly(q) ==
  /\ At(q, "confirm", "begun")
  /\ IF files = {} THEN Refuse(q) ELSE Goto(q, "mark")
  /\ UNCHANGED <<status, files, preflight, published, faults>>

LookAtSession(q) ==
  /\ At(q, "confirm", "begun")
  /\ CASE status = "confirmed" -> Goto(q, "answered")
       [] status # "confirmed" /\ files = {} -> Refuse(q)
       [] OTHER -> Goto(q, "mark")
  /\ UNCHANGED <<status, files, preflight, published, faults>>

\* Mutant of MarkConfirmed: the request is answered before it publishes.
MarkConfirmedOnly(q) ==
  /\ At(q, "confirm", "mark")
  /\ status' = "confirmed"
  /\ Goto(q, "answered")
  /\ UNCHANGED <<files, preflight, published, faults>>

MarkConfirmed(q) ==
  /\ At(q, "confirm", "mark")
  /\ status' = "confirmed"
  /\ Goto(q, "build")
  /\ UNCHANGED <<files, preflight, published, faults>>

\* Mutant of BuildMessage: the message carries only the files that came late.
BuildMessageOfLatest(q) ==
  /\ At(q, "confirm", "build")
  /\ request' = [request EXCEPT ![q].pc = "publish",
                               ![q].shown = files \ request[q].before]
  /\ UNCHANGED <<status, files, preflight, published, faults>>

BuildMessage(q) ==
  /\ At(q, "confirm", "build")
  /\ Show(q, "publish")
  /\ UNCHANGED <<status, files, preflight, published, faults>>

Publish(q) ==
  /\ At(q, "confirm", "publish")
  /\ published' = [published EXCEPT ![q] = request[q].shown]
  /\ Goto(q, "answered")
  /\ UNCHANGED <<status, files, preflight, faults>>

\* Any failure is logged, and the request answered as if nothing had happened
\* but for processing_started = False.
PublishFails(q) ==
  /\ At(q, "confirm", "publish")
  /\ Fault
  /\ Goto(q, "answered")
  /\ UNCHANGED <<status, files, preflight, published>>

-----------------------------------------------------------------------------
Running(q) == request[q].pc \notin {"new", "refused", "answered"}

\* Sessions are kept in the memory of the process.
Restart ==
  /\ status # "gone"
  /\ Fault
  /\ status' = "gone"
  /\ files' = {}
  /\ preflight' = None
  /\ request' = [q \in Request |->
                   IF Running(q) THEN Refused ELSE request[q]]
  /\ UNCHANGED published

Serve(q) ==
  \/ UploadPage(q) \/ CreateSession(q)
  \/ ListSessions(q) \/ ShowSessions(q) \/ ShowSession(q)
  \/ IssueSas(q) \/ ReadTotal(q) \/ RefuseFile(q) \/ AppendFile(q)
  \/ LookAtStatus(q) \/ StartUploading(q)
  \/ BeginPreflight(q) \/ Summarize(q) \/ EndPreflight(q)
  \/ LookAtSession(q) \/ MarkConfirmed(q) \/ BuildMessage(q) \/ Publish(q)

Next ==
  \/ \E q \in Request, kind \in Kind : Arrive(q, kind)
  \/ \E q \in Request : Serve(q) \/ CreateFails(q) \/ SasFails(q) \/ PublishFails(q)
  \/ Restart

Spec == Init /\ [][Next]_vars

-----------------------------------------------------------------------------
(* Properties.                                                             *)

PC == {"new", "begun", "iterate", "validate", "look", "start", "analyze", "finish",
       "mark", "build", "publish", "refused", "answered"}

RequestState == [pc : PC, kind : Kind, file : Metadata \cup {NoFile}, total : Nat,
                 before : SUBSET Request, shown : SUBSET Request]

TypeOK ==
  /\ status \in {"created", "uploading", "preflight", "confirmed", "gone"}
  /\ files \subseteq {q \in Request : request[q].kind = "register"}
  /\ preflight \in Summary \cup {None}
  /\ request \in [Request -> RequestState]
  /\ published \in [Request -> SUBSET Request]
  /\ faults \in Nat

\* The size check and the append are not one step and racing requests can
\* exceed the limit, but a user who waits for each answer cannot: a registered
\* file fits with all the files whose registration was answered before.
AnsweredFilesFit ==
  \A q \in files : SizeOf(RegisteredBefore(q) \cup {q}) <= MaxSessionSize

\* A message carries every file the user had been told was registered when the
\* confirmation was sent, and a page or a list shows all there were then,
\* whatever else the threads of the session are doing.
AnswersAreComplete ==
  \A q \in Request :
    \/ published[q] # {}
    \/ request[q].kind = "view" /\ request[q].pc = "answered"
    \/ request[q].kind = "list" /\ request[q].pc = "answered" /\ status # "gone"
    => RegisteredBefore(q) \subseteq request[q].shown

\* Where a namespace is configured, only a publish that fails leaves a confirmed
\* session unsent: two requests that confirm it at once, a preflight that ends in between or a confirmation
\* that is repeated do not make each other skip the message.
UnsentOnlyByFault ==
  status = "confirmed" /\ faults = 0 /\ (\A q \in Request : ~Running(q)) =>
    \E q \in Request : published[q] # {}

\* The documents of a session are sent for processing a second time, by a user
\* who waits for the answer to the first confirmation, only if another request
\* that changes the status was under way or came between the two.
SentAgainHasCause ==
  \A p, q \in Request :
    published[p] # {} /\ published[q] # {} /\ p \in request[q].before =>
      \E r \in Answered \ request[p].before :
        request[r].kind \in {"sas", "register", "preflight"}

\* A preflight that does not advise a manual review has recognised an albaran or
\* a store.
AdviceIsCautious ==
  preflight # None /\ ~preflight.review => preflight.albaran \/ preflight.store # None
=============================================================================
