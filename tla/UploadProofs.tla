---------------------------- MODULE UploadProofs ----------------------------
(***************************************************************************)
(* One upload session for any number of concurrent requests, any files and *)
(* limits: answers are complete and fit, only a failing publish leaves a   *)
(* confirmed session unsent, and a session that is sent twice has a cause. *)
(* Every action is first reduced to what it does to each request (StepOf)  *)
(* and to the session (StepOfSession); each part of the invariant follows  *)
(* from these two.  The summary of a preflight is made once, and all that  *)
(* is said of it follows from how it is made (Summarized).                 *)
(***************************************************************************)
EXTENDS UploadSession, DataTheorems, TLAPS

Typed ==
  /\ request \in [Request -> RequestState]
  /\ files \subseteq Request
  /\ published \in [Request -> SUBSET Request]
  /\ faults \in Nat

\* A new or refused request knows nothing yet, and the last look at the status is
\* of requests that register a file or ask for a signature.
Shape ==
  \A q \in Request :
    /\ request[q].pc = "new" => request[q] = NewRequest
    /\ request[q].pc \in {"look", "start"} => request[q].kind \in {"sas", "register"}

\* A file is registered before the request is answered.
FilesKept ==
  status # "gone" =>
    \A q \in Request : request[q].kind = "register" /\ request[q].pc \in {"look", "start", "answered"}
      => q \in files

\* Only a file that was registered is in the session.
Filed ==
  \A q \in files : request[q].kind = "register" /\ request[q].pc \in {"look", "start", "answered"}

\* The total a registration read counts all files answered before it came.
Measured ==
  \A q \in Request :
    At(q, "register", "validate") => SizeOf(RegisteredBefore(q)) <= request[q].total

BeforeIsAnswered == \A q \in Request : request[q].before \subseteq Answered

GoneStops == status = "gone" => \A q \in Request : Running(q) => request[q].kind \notin OnSession

ShownIsComplete ==
  \A q \in Request :
    \/ request[q].kind = "confirm" /\ request[q].pc = "publish"
    \/ published[q] # {}
    \/ request[q].kind = "view" /\ request[q].pc = "answered"
    \/ request[q].kind = "list" /\ request[q].pc = "answered" /\ status # "gone"
    => RegisteredBefore(q) \subseteq request[q].shown

PublishedIsAnswered ==
  \A q \in Request : published[q] # {} => request[q].kind = "confirm" /\ request[q].pc = "answered"

HasFiles ==
  \A q \in Request : request[q].kind = "confirm" =>
    /\ request[q].pc \in {"mark", "build"} => files # {}
    /\ request[q].pc = "publish" => request[q].shown # {}

\* The request marked the session as confirmed.
Marked(q) ==
  \/ request[q].kind = "confirm" /\ request[q].pc \in {"build", "publish"}
  \/ published[q] # {}

ConfirmedIsSent ==
  status = "confirmed" /\ faults = 0 => \E q \in Request : Marked(q)

\* Another request that changes the status ended after this one came.
Cause(p) ==
  \E r \in Answered \ request[p].before : request[r].kind \in {"sas", "register", "preflight"}

ChangeHasCause ==
  \A p \in Request : Marked(p) => status \in {"confirmed", "gone"} \/ Cause(p)

Passed(q) == Marked(q) \/ (request[q].kind = "confirm" /\ request[q].pc = "mark")

SecondHasCause ==
  \A p, q \in Request : published[p] # {} /\ p \in request[q].before /\ Passed(q) => Cause(p)

IInv ==
  /\ Typed /\ Shape /\ FilesKept /\ Filed /\ BeforeIsAnswered /\ GoneStops
  /\ Measured /\ AnsweredFilesFit
  /\ ShownIsComplete /\ PublishedIsAnswered /\ HasFiles
  /\ ConfirmedIsSent /\ ChangeHasCause /\ SecondHasCause

USE UploadAssumption

-----------------------------------------------------------------------------
(* What a step does.                                                       *)

\* A request goes one step further.
Advance(r) ==
  LET kind == request[r].kind
      from == request[r].pc
      to == request'[r].pc
  IN  /\ Running(r)
      /\ request'[r].kind = kind /\ request'[r].before = request[r].before
      /\ request'[r].file = request[r].file
      /\ \/ kind = "open" /\ to = "answered"
         \/ kind = "list" /\ to = "iterate"
         \/ kind \in {"list", "view"} /\ to = "answered" /\ request'[r].shown = files
         \/ kind = "sas" /\ to \in {"look", "start", "answered"}
         \/ /\ kind = "register" /\ from = "begun" /\ to = "validate"
            /\ request'[r].total = TotalSize
         \/ /\ kind = "register" /\ from = "validate" /\ to = "look" /\ r \in files'
            /\ ValidFile(request[r].file, request[r].total)
         \/ /\ kind = "register" /\ from \in {"look", "start"} /\ to \in {"start", "answered"}
            /\ r \in files'
         \/ kind = "preflight" /\ to \in {"analyze", "finish", "answered"}
         \/ kind = "confirm" /\ from = "begun" /\ to = "answered"
         \/ kind = "confirm" /\ from = "begun" /\ to = "mark" /\ status # "confirmed" /\ files # {}
         \/ kind = "confirm" /\ from = "mark" /\ to = "build" /\ status' = "confirmed"
         \/ kind = "confirm" /\ from = "build" /\ to = "publish" /\ request'[r].shown = files
         \/ /\ kind = "confirm" /\ from = "publish" /\ to = "answered"
            /\ request'[r].shown = request[r].shown
            /\ published'[r] = request[r].shown \/ faults' > 0

StepOf(r) ==
  \/ request'[r] = request[r]
  \/ /\ request[r].pc # "answered" /\ request'[r] = Refused /\ r \notin files'
     /\ Marked(r) => faults' > 0
  \/ /\ request[r].pc = "new" /\ request'[r].pc = "begun"
     /\ request'[r].before = Answered
     /\ status # "gone" \/ request'[r].kind \notin OnSession
  \/ Advance(r)

\* What becomes of the session itself.
StepOfSession ==
  /\ faults' \in Nat /\ faults' >= faults
  /\ \A r \in files' \ files : At(r, "register", "validate") /\ request'[r].pc = "look"
  /\ \A r \in Request :
       \/ published'[r] = published[r]
       \/ /\ request[r].kind = "confirm" /\ request[r].pc = "publish"
          /\ request'[r].pc = "answered" /\ published'[r] = request[r].shown
  /\ \/ /\ files \subseteq files' /\ files' \subseteq Request /\ (status' = "gone" <=> status = "gone")
        /\ \/ status' = status
           \/ status' = "confirmed"
              /\ \E r \in Request : request'[r].kind = "confirm" /\ request'[r].pc = "build"
           \/ status' # "confirmed" /\
              \E r \in Request : /\ Running(r) /\ request'[r].pc = "answered" /\ request'[r].kind \in {"sas", "register", "preflight"}
     \/ /\ status' = "gone" /\ files' = {} /\ status # "gone"
        /\ \A r \in Request : request'[r].pc \in {"new", "refused", "answered"}

Steps == (\A r \in Request : StepOf(r)) /\ StepOfSession

\* Records and how they change.
LEMMA Records ==
  ASSUME Typed
  PROVE  /\ \A q \in Request : /\ request[q].pc \in PC /\ request[q].kind \in Kind
                               /\ request[q].before \subseteq Request
                               /\ request[q].shown \subseteq Request
         /\ DOMAIN request = Request
<1>1. request \in [Request -> RequestState]
  BY DEF Typed
<1> QED
  BY <1>1 DEF RequestState

LEMMA RefusedRecord ==
  /\ Refused = [pc |-> "refused", kind |-> "open", file |-> NoFile, total |-> 0,
                before |-> {}, shown |-> {}]
  /\ Refused \in RequestState /\ NewRequest \in RequestState
<1>1. Refused = [pc |-> "refused", kind |-> "open", file |-> NoFile, total |-> 0,
                 before |-> {}, shown |-> {}]
  BY DEF Refused, NewRequest
<1> QED
  BY <1>1 DEF RequestState, NewRequest, PC, Kind

LEMMA Moves ==
  ASSUME Typed, NEW q \in Request, NEW pc \in PC, Goto(q, pc)
  PROVE  /\ request' \in [Request -> RequestState]
         /\ \A r \in Request \ {q} : request'[r] = request[r]
         /\ request'[q].pc = pc /\ request'[q].kind = request[q].kind
         /\ request'[q].before = request[q].before /\ request'[q].shown = request[q].shown
         /\ request'[q].file = request[q].file
<1>1. request \in [Request -> RequestState]
  BY DEF Typed
<1>2. request' = [request EXCEPT ![q].pc = pc]
  BY DEF Goto
<1>3. PICK s \in RequestState : s = request[q]
  BY <1>1
<1>4. [s EXCEPT !.pc = pc] \in RequestState
  BY DEF RequestState
<1>5. request' = [request EXCEPT ![q] = [s EXCEPT !.pc = pc]]
  BY <1>1, <1>2, <1>3
<1>6. request' \in [Request -> RequestState]
  BY <1>1, <1>4, <1>5
<1>7. request'[q] = [s EXCEPT !.pc = pc] /\ \A r \in Request \ {q} : request'[r] = request[r]
  BY <1>1, <1>5
<1>8. /\ request'[q].pc = pc /\ request'[q].kind = s.kind
      /\ request'[q].before = s.before /\ request'[q].shown = s.shown
      /\ request'[q].file = s.file
  BY <1>7 DEF RequestState
<1> QED
  BY <1>3, <1>6, <1>7, <1>8

LEMMA Shows ==
  ASSUME Typed, NEW q \in Request, NEW pc \in PC, Show(q, pc)
  PROVE  /\ request' \in [Request -> RequestState]
         /\ \A r \in Request \ {q} : request'[r] = request[r]
         /\ request'[q].pc = pc /\ request'[q].kind = request[q].kind
         /\ request'[q].before = request[q].before /\ request'[q].shown = files
         /\ request'[q].file = request[q].file
<1>1. request \in [Request -> RequestState]
  BY DEF Typed
<1>2. request' = [request EXCEPT ![q].pc = pc, ![q].shown = files] /\ files \subseteq Request
  BY DEF Show, Typed
<1>3. PICK s \in RequestState : s = request[q]
  BY <1>1
<1>4. [s EXCEPT !.pc = pc, !.shown = files] \in RequestState
  BY <1>2 DEF RequestState
<1>5. request' = [request EXCEPT ![q] = [s EXCEPT !.pc = pc, !.shown = files]]
  BY <1>1, <1>2, <1>3
<1>6. request' \in [Request -> RequestState]
  BY <1>1, <1>4, <1>5
<1>7. /\ request'[q] = [s EXCEPT !.pc = pc, !.shown = files]
      /\ \A r \in Request \ {q} : request'[r] = request[r]
  BY <1>1, <1>5
<1>8. /\ request'[q].pc = pc /\ request'[q].kind = s.kind
      /\ request'[q].before = s.before /\ request'[q].shown = files
      /\ request'[q].file = s.file
  BY <1>7 DEF RequestState
<1> QED
  BY <1>3, <1>6, <1>7, <1>8

LEMMA Refusals ==
  ASSUME Typed, NEW q \in Request, Refuse(q)
  PROVE  /\ request' \in [Request -> RequestState]
         /\ \A r \in Request \ {q} : request'[r] = request[r]
         /\ request'[q] = Refused
<1>1. request \in [Request -> RequestState]
  BY DEF Typed
<1>2. request' = [request EXCEPT ![q] = Refused]
  BY DEF Refuse
<1> QED
  BY <1>1, <1>2, RefusedRecord

-----------------------------------------------------------------------------
(* What a step preserves.                                                  *)

\* Sizes are natural numbers, and do not change while the requests do not.
LEMMA SizeIsNatural ==
  ASSUME Typed, NEW S \in SUBSET Request
  PROVE  /\ SizeOf(S) \in Nat /\ IsFiniteSet(S)
         /\ \A q \in Request : FileSize[q] \in Nat /\ FileSize[q] = request[q].file.size
<1>1. ASSUME NEW q \in Request PROVE request[q].file.size \in Nat
  <2>1. request[q].file \in Metadata \cup {NoFile}
    BY DEF Typed, RequestState
  <2>2. CASE request[q].file \in Metadata
    <3>1. PICK f \in FileMetadata : f = request[q].file
      BY <2>2
    <3>2. f.size \in Nat
      BY DEF FileMetadata
    <3> QED BY <3>1, <3>2
  <2>3. CASE request[q].file = NoFile
    <3>1. NoFile.size = 0
      BY DEF NoFile
    <3> QED BY <2>3, <3>1
  <2> QED BY <2>1, <2>2, <2>3
<1>2. \A q \in Request : FileSize[q] \in Nat /\ FileSize[q] = request[q].file.size
  BY <1>1 DEF FileSize
<1>3. IsFiniteSet(S)
  BY FS_Subset
<1> QED BY <1>2, <1>3, SumType DEF SizeOf

LEMMA SameSize ==
  ASSUME Typed, Typed', NEW S \in SUBSET Request,
         \A q \in S : request'[q].file = request[q].file
  PROVE  SizeOf(S)' = SizeOf(S)
<1>1. \A q \in S : FileSize'[q] = FileSize[q] /\ FileSize[q] \in Int
  BY SizeIsNatural DEF FileSize
<1>2. PICK f, g : f = FileSize /\ g = FileSize'
  OBVIOUS
<1>3. SumFunctionOnSet(g, S) = SumFunctionOnSet(f, S)
  BY <1>1, <1>2, SizeIsNatural, SumAgree
<1> QED BY <1>2, <1>3 DEF SizeOf

\* Once answered, a request stays as it is; whom it came after is fixed when it comes.
LEMMA Lasting ==
  ASSUME IInv, Steps
  PROVE  /\ \A r \in Answered : request'[r] = request[r]
         /\ Answered \subseteq Answered'
         /\ \A r \in Request : request'[r].before # request[r].before =>
              request'[r].pc \in {"begun", "refused"}
<1>1. ASSUME NEW r \in Answered PROVE request'[r] = request[r]
  <2>1. r \in Request /\ request[r].pc = "answered"
    BY DEF Answered
  <2> QED
    BY <2>1 DEF Steps, StepOf, Advance, Running
<1>2. Answered \subseteq Answered'
  BY <1>1 DEF Answered
<1>3. ASSUME NEW r \in Request, request'[r].before # request[r].before
      PROVE  request'[r].pc \in {"begun", "refused"}
  BY <1>3, RefusedRecord DEF Steps, StepOf, Advance
<1> QED
  BY <1>1, <1>2, <1>3

\* A cause lasts for a request that does not come in this step.
LEMMA CauseLasts ==
  ASSUME IInv, Steps, NEW p \in Request, Cause(p), request'[p].before = request[p].before
  PROVE  Cause(p)'
<1>1. PICK r \in Answered \ request[p].before : request[r].kind \in {"sas", "register", "preflight"}
  BY DEF Cause
<1>2. r \in Answered' /\ request'[r] = request[r]
  BY <1>1, Lasting
<1> QED
  BY <1>1, <1>2 DEF Cause

LEMMA KeepsBefore ==
  ASSUME IInv, Steps
  PROVE  BeforeIsAnswered'
<1> SUFFICES ASSUME NEW q \in Request PROVE request'[q].before \subseteq Answered'
  BY DEF BeforeIsAnswered
<1>1. request'[q].before \subseteq Answered
  BY RefusedRecord DEF Steps, StepOf, Advance, IInv, BeforeIsAnswered
<1> QED
  BY <1>1, Lasting

LEMMA KeepsFiles ==
  ASSUME IInv, Steps
  PROVE  FilesKept'
<1> SUFFICES ASSUME status' # "gone", NEW q \in Request, request'[q].kind = "register",
                    request'[q].pc \in {"look", "start", "answered"}
             PROVE  q \in files'
  BY DEF FilesKept
<1>1. status # "gone" /\ files \subseteq files'
  BY DEF Steps, StepOfSession
<1>2. CASE request'[q] = request[q]
  BY <1>1, <1>2 DEF IInv, FilesKept
<1>3. CASE Advance(q)
  BY <1>3 DEF Advance
<1> QED
  BY <1>2, <1>3, RefusedRecord DEF Steps, StepOf

LEMMA KeepsFiled ==
  ASSUME IInv, Steps
  PROVE  Filed'
<1> SUFFICES ASSUME NEW q \in files'
             PROVE  /\ request'[q].kind = "register"
                    /\ request'[q].pc \in {"look", "start", "answered"}
  BY DEF Filed
<1>1. /\ q \in Request /\ StepOf(q)
      /\ \/ q \in files
         \/ q \notin files /\ At(q, "register", "validate") /\ request'[q].pc = "look"
  BY DEF Steps, StepOfSession
<1>2. request[q].kind = "register" /\ request[q].pc \in {"look", "start", "answered", "validate"}
  BY <1>1 DEF IInv, Filed, At
<1>3. request'[q] = request[q] \/ Advance(q)
  BY <1>1, <1>2 DEF StepOf
<1>4. CASE q \in files
  <2>1. request[q].pc \in {"look", "start", "answered"}
    BY <1>4 DEF IInv, Filed
  <2> QED
    BY <1>2, <1>3, <2>1 DEF Advance
<1>5. CASE q \notin files
  BY <1>1, <1>2, <1>3, <1>5 DEF Advance
<1> QED
  BY <1>4, <1>5

\* Whom a request came after, and the sizes of their files, last as it does.
LEMMA BeforeLasts ==
  ASSUME IInv, Steps, Typed', NEW q \in Request, request'[q].before = request[q].before
  PROVE  /\ RegisteredBefore(q)' = RegisteredBefore(q) /\ RegisteredBefore(q) \subseteq Answered
         /\ SizeOf(RegisteredBefore(q))' = SizeOf(RegisteredBefore(q))
<1>1. \A r \in request[q].before : r \in Answered /\ request'[r] = request[r]
  BY Lasting DEF IInv, BeforeIsAnswered
<1>2. RegisteredBefore(q)' = RegisteredBefore(q) /\ RegisteredBefore(q) \subseteq Answered
  BY <1>1 DEF RegisteredBefore
<1>3. PICK S \in SUBSET Request : S = RegisteredBefore(q)
  BY <1>2 DEF Answered
<1>4. SizeOf(S)' = SizeOf(S)
  BY <1>1, <1>3, SameSize DEF RegisteredBefore, IInv
<1> QED BY <1>2, <1>3, <1>4

LEMMA KeepsMeasured ==
  ASSUME IInv, Steps, Typed'
  PROVE  Measured'
<1> SUFFICES ASSUME NEW q \in Request, At(q, "register", "validate")'
             PROVE  SizeOf(RegisteredBefore(q))' <= request'[q].total
  BY DEF Measured
<1>1. CASE request'[q] = request[q]
  BY <1>1, BeforeLasts DEF IInv, Measured, At
<1>2. CASE Advance(q)
  <2>1. /\ request'[q].total = SizeOf(files) /\ request'[q].before = request[q].before
        /\ request[q].kind = "register" /\ Running(q)
    BY <1>2 DEF Advance, At, TotalSize
  <2>2. status # "gone"
    BY <2>1 DEF IInv, GoneStops, OnSession, Kind
  <2>3. RegisteredBefore(q) \subseteq files
    BY <2>2 DEF IInv, BeforeIsAnswered, FilesKept, RegisteredBefore, Answered
  <2>4. IsFiniteSet(files) /\ \A r \in files : FileSize[r] \in Nat
    BY SizeIsNatural DEF IInv, Typed
  <2>5. SizeOf(RegisteredBefore(q)) <= SizeOf(files)
    BY <2>3, <2>4, SumSubset DEF SizeOf
  <2> QED BY <2>1, <2>5, BeforeLasts
<1> QED BY <1>1, <1>2, RefusedRecord DEF Steps, StepOf, At

LEMMA KeepsFit ==
  ASSUME IInv, Steps, Typed'
  PROVE  AnsweredFilesFit'
<1> SUFFICES ASSUME NEW q \in files'
             PROVE  SizeOf(RegisteredBefore(q) \cup {q})' <= MaxSessionSize
  BY DEF AnsweredFilesFit
<1>1. q \in Request
  BY DEF Steps, StepOfSession
<1>2. request'[q].kind = "register" /\ request'[q].pc \in {"look", "start", "answered"}
  BY KeepsFiled DEF Filed
<1>3. request'[q] = request[q] \/ Advance(q)
  BY <1>1, <1>2 DEF Steps, StepOf
<1>4. request'[q].before = request[q].before /\ request'[q].file = request[q].file
  BY <1>3 DEF Advance
<1>5. PICK S \in SUBSET Request : S = RegisteredBefore(q) /\ S = RegisteredBefore(q)'
  BY <1>1, <1>4, BeforeLasts DEF Answered
<1>6. SizeOf(S \cup {q})' = SizeOf(S \cup {q})
  <2>1. \A r \in S : request'[r] = request[r]
    BY <1>1, <1>4, <1>5, BeforeLasts, Lasting
  <2>2. \A r \in S \cup {q} : request'[r].file = request[r].file
    BY <1>4, <2>1
  <2> QED BY <1>1, <2>2, SameSize DEF IInv
<1>7. SizeOf(S \cup {q}) <= MaxSessionSize
  <2>1. CASE q \in files
    BY <1>5, <2>1 DEF IInv, AnsweredFilesFit
  <2>2. CASE q \notin files
    <3>1. request[q].pc = "validate" /\ request'[q].pc = "look"
      BY <2>2 DEF Steps, StepOfSession, At
    <3>2. /\ At(q, "register", "validate")
          /\ request[q].total + request[q].file.size <= MaxSessionSize
      BY <1>2, <1>3, <3>1 DEF Advance, At, ValidFile, SessionFits
    <3>3. SizeOf(S) <= request[q].total
      BY <1>1, <1>5, <3>2 DEF IInv, Measured
    <3>4. q \notin S
      BY <1>1, <1>4, <1>5, <3>1, BeforeLasts DEF Answered
    <3>5. /\ IsFiniteSet(S) /\ SizeOf(S) \in Nat
          /\ \A r \in Request : FileSize[r] \in Nat /\ FileSize[r] = request[r].file.size
      BY SizeIsNatural DEF IInv
    <3>6. SizeOf(S \cup {q}) = request[q].file.size + SizeOf(S)
      BY <1>1, <3>4, <3>5, SumAdd DEF SizeOf
    <3>7. request[q].total \in Nat /\ request[q].file.size \in Nat
      BY <1>1, <3>5 DEF IInv, Typed, RequestState
    <3> QED BY <3>2, <3>3, <3>5, <3>6, <3>7
  <2> QED BY <2>1, <2>2
<1> QED BY <1>5, <1>6, <1>7

LEMMA KeepsGone ==
  ASSUME IInv, Steps
  PROVE  GoneStops'
<1> SUFFICES ASSUME status' = "gone", NEW q \in Request, Running(q)'
             PROVE  request'[q].kind \notin OnSession
  BY DEF GoneStops
<1>1. status = "gone"
  BY DEF Steps, StepOfSession, Running
<1>2. CASE request'[q] = request[q]
  BY <1>1, <1>2 DEF IInv, GoneStops, Running
<1>3. CASE Advance(q)
  BY <1>1, <1>3 DEF IInv, GoneStops, Advance
<1> QED
  BY <1>1, <1>2, <1>3, RefusedRecord DEF Steps, StepOf, Running

LEMMA KeepsPublished ==
  ASSUME IInv, Steps
  PROVE  PublishedIsAnswered'
<1> SUFFICES ASSUME NEW q \in Request, published'[q] # {}
             PROVE  request'[q].kind = "confirm" /\ request'[q].pc = "answered"
  BY DEF PublishedIsAnswered
<1>1. CASE published'[q] = published[q]
  <2>1. q \in Answered /\ request[q].kind = "confirm"
    BY <1>1 DEF IInv, PublishedIsAnswered, Answered
  <2> QED
    BY <2>1, Lasting DEF Answered
<1>2. CASE /\ request[q].kind = "confirm" /\ request[q].pc = "publish"
           /\ request'[q].pc = "answered"
  BY <1>2, RefusedRecord DEF Steps, StepOf, Advance
<1> QED
  BY <1>1, <1>2 DEF Steps, StepOfSession

LEMMA KeepsShown ==
  ASSUME IInv, Steps
  PROVE  ShownIsComplete'
<1> SUFFICES ASSUME NEW q \in Request,
                    \/ request'[q].kind = "confirm" /\ request'[q].pc = "publish"
                    \/ published'[q] # {}
                    \/ request'[q].kind = "view" /\ request'[q].pc = "answered"
                    \/ /\ request'[q].kind = "list" /\ request'[q].pc = "answered"
                       /\ status' # "gone"
             PROVE  RegisteredBefore(q)' \subseteq request'[q].shown
  BY DEF ShownIsComplete
<1>1. ASSUME request'[q].before = request[q].before
      PROVE  RegisteredBefore(q)' = RegisteredBefore(q)
  <2>1. \A r \in request[q].before : request'[r] = request[r]
    BY Lasting DEF IInv, BeforeIsAnswered
  <2> QED
    BY <1>1, <2>1 DEF RegisteredBefore
<1>2. status # "gone" => RegisteredBefore(q) \subseteq files
  BY DEF IInv, BeforeIsAnswered, FilesKept, RegisteredBefore, Answered
<1>3. CASE request'[q] = request[q]
  <2>1. published'[q] = published[q]
    BY <1>3 DEF Steps, StepOfSession
  <2>2. status' # "gone" => status # "gone"
    BY DEF Steps, StepOfSession
  <2>3. RegisteredBefore(q) \subseteq request[q].shown
    BY <1>3, <2>1, <2>2 DEF IInv, ShownIsComplete
  <2> QED
    BY <1>1, <1>3, <2>3
<1>4. CASE Advance(q)
  <2>1. request'[q].before = request[q].before /\ Running(q) /\ request'[q].kind = request[q].kind
    BY <1>4 DEF Advance
  <2>2. request[q].kind \in OnSession => status # "gone"
    BY <2>1 DEF IInv, GoneStops
  <2>3. published'[q] # {} => request[q].kind = "confirm" /\ request[q].pc = "publish"
    BY <2>1 DEF Steps, StepOfSession, IInv, PublishedIsAnswered, Running
  <2>4. status' # "gone" => status # "gone"
    BY DEF Steps, StepOfSession
  <2>5. CASE request[q].kind = "confirm" /\ request[q].pc = "publish"
    <3>1. request'[q].shown = request[q].shown
      BY <1>4, <2>5 DEF Advance
    <3> QED
      BY <1>1, <2>1, <2>5, <3>1 DEF IInv, ShownIsComplete
  <2>6. CASE ~(request[q].kind = "confirm" /\ request[q].pc = "publish")
    <3>1. request'[q].shown = files /\ status # "gone"
      BY <1>4, <2>1, <2>2, <2>3, <2>4, <2>6 DEF Advance, OnSession, Kind
    <3> QED
      BY <1>1, <1>2, <2>1, <3>1
  <2> QED
    BY <2>5, <2>6
<1>5. request'[q].pc \notin {"begun", "refused"}
  BY KeepsPublished DEF PublishedIsAnswered
<1> QED
  BY <1>3, <1>4, <1>5, RefusedRecord DEF Steps, StepOf

LEMMA KeepsHasFiles ==
  ASSUME IInv, Steps
  PROVE  HasFiles'
<1> SUFFICES ASSUME NEW q \in Request, request'[q].kind = "confirm",
                    request'[q].pc \in {"mark", "build", "publish"}
             PROVE  /\ request'[q].pc \in {"mark", "build"} => files' # {}
                    /\ request'[q].pc = "publish" => request'[q].shown # {}
  BY DEF HasFiles
<1>1. files # {} => files' # {}
  BY DEF Steps, StepOfSession
<1> QED
  BY <1>1, RefusedRecord DEF Steps, StepOf, Advance, IInv, HasFiles

LEMMA PublishedLasts ==
  ASSUME IInv, Steps, NEW q \in Request, published[q] # {}
  PROVE  published'[q] = published[q]
<1>1. request[q].pc = "answered"
  BY DEF IInv, PublishedIsAnswered
<1> QED
  BY <1>1 DEF Steps, StepOfSession

LEMMA KeepsConfirmed ==
  ASSUME IInv, Steps
  PROVE  ConfirmedIsSent'
<1> SUFFICES ASSUME status' = "confirmed", faults' = 0 PROVE \E q \in Request : Marked(q)'
  BY DEF ConfirmedIsSent
<1>1. faults = 0
  BY DEF Steps, StepOfSession, IInv, Typed
<1>2. CASE status = "confirmed"
  <2>1. PICK q \in Request : Marked(q)
    BY <1>1, <1>2 DEF IInv, ConfirmedIsSent
  <2>2. CASE published[q] # {}
    BY <2>2, PublishedLasts DEF Marked
  <2>3. CASE request[q].kind = "confirm" /\ request[q].pc \in {"build", "publish"}
    <3>1. request'[q] = request[q] \/ Advance(q)
      BY <2>3, RefusedRecord DEF Steps, StepOf, Advance, Marked
    <3>2. CASE request'[q] = request[q]
      BY <2>3, <3>2 DEF Marked
    <3>3. CASE Advance(q)
      <4>1. request[q].pc = "publish" => request[q].shown # {}
        BY <2>3 DEF IInv, HasFiles
      <4> QED
        BY <2>3, <3>3, <4>1 DEF Advance, Marked
    <3> QED
      BY <3>1, <3>2, <3>3
  <2> QED
    BY <2>1, <2>2, <2>3 DEF Marked
<1> QED
  BY <1>2 DEF Steps, StepOfSession, Marked

LEMMA MarkedBefore ==
  ASSUME IInv, Steps, NEW p \in Request, Marked(p)'
  PROVE  \/ Marked(p) /\ request'[p].before = request[p].before
         \/ status' = "confirmed"
<1>1. CASE Marked(p)
  <2>1. request'[p].pc \notin {"begun", "refused"}
    BY KeepsPublished DEF Marked, PublishedIsAnswered
  <2> QED
    BY <1>1, <2>1, Lasting
<1>2. CASE ~Marked(p)
  <2>1. published'[p] = published[p] \/ (request[p].kind = "confirm" /\ request[p].pc = "publish")
    BY DEF Steps, StepOfSession
  <2>2. request'[p].kind = "confirm" /\ request'[p].pc \in {"build", "publish"}
    BY <1>2, <2>1 DEF Marked
  <2>3. request'[p] # request[p] /\ request'[p] # Refused
    BY <1>2, <2>2, RefusedRecord DEF Marked
  <2>4. Advance(p)
    BY <2>2, <2>3 DEF Steps, StepOf
  <2> QED
    BY <1>2, <2>2, <2>4 DEF Advance, Marked
<1> QED
  BY <1>1, <1>2

\* Who ends in this step after a change of the status is the cause.
LEMMA KeepsChange ==
  ASSUME IInv, Steps
  PROVE  ChangeHasCause'
<1> SUFFICES ASSUME NEW p \in Request, Marked(p)', status' \notin {"confirmed", "gone"}
             PROVE  Cause(p)'
  BY DEF ChangeHasCause
<1>1. Marked(p) /\ request'[p].before = request[p].before
  BY MarkedBefore
<1>2. CASE status' = status
  BY <1>1, <1>2, CauseLasts DEF IInv, ChangeHasCause
<1>3. ASSUME NEW r \in Request, Running(r), request'[r].pc = "answered",
             request'[r].kind \in {"sas", "register", "preflight"}
      PROVE  Cause(p)'
  <2>1. r \in Answered' /\ r \notin Answered
    BY <1>3 DEF Answered, Running
  <2>2. r \notin request'[p].before
    BY <1>1, <2>1 DEF IInv, BeforeIsAnswered
  <2> QED
    BY <1>3, <2>1, <2>2 DEF Cause
<1> QED
  BY <1>2, <1>3 DEF Steps, StepOfSession

LEMMA KeepsSecond ==
  ASSUME IInv, Steps
  PROVE  SecondHasCause'
<1> SUFFICES ASSUME NEW p \in Request, NEW q \in Request, published'[p] # {},
                    p \in request'[q].before, Passed(q)'
             PROVE  Cause(p)'
  BY DEF SecondHasCause
<1>1. request'[q].pc \notin {"begun", "refused"}
  BY KeepsPublished DEF Passed, Marked, PublishedIsAnswered
<1>2. request'[q].before = request[q].before
  BY <1>1, Lasting
<1>3. p \in Answered /\ request'[p] = request[p]
  BY <1>2, Lasting DEF IInv, BeforeIsAnswered
<1>4. published[p] # {}
  BY <1>3 DEF Answered, Steps, StepOfSession
<1>5. SUFFICES Cause(p)
  BY <1>3, CauseLasts
<1>6. CASE Passed(q)
  BY <1>2, <1>4, <1>6 DEF IInv, SecondHasCause
<1>7. CASE ~Passed(q)
  <2>1. published'[q] = published[q]
    BY <1>7 DEF Steps, StepOfSession, Passed, Marked
  <2>2. request'[q].kind = "confirm" /\ request'[q].pc \in {"mark", "build", "publish"}
    BY <1>7, <2>1 DEF Passed, Marked
  <2>3. Advance(q)
    BY <1>1, <1>7, <2>2, RefusedRecord DEF Steps, StepOf, Passed, Marked
  <2>4. status # "confirmed" /\ Running(q) /\ request[q].kind = "confirm"
    BY <1>7, <2>2, <2>3 DEF Advance, Passed, Marked
  <2>5. status # "gone"
    BY <2>4 DEF IInv, GoneStops, OnSession, Kind
  <2>6. Marked(p)
    BY <1>4 DEF Marked
  <2> QED
    BY <2>4, <2>5, <2>6 DEF IInv, ChangeHasCause
<1> QED
  BY <1>6, <1>7

-----------------------------------------------------------------------------
(* Every action is such a step.                                            *)

Does == Typed' /\ Shape' /\ Steps

\* One request moves.
LEMMA OneMoves ==
  ASSUME IInv, NEW q \in Request,
         request' \in [Request -> RequestState],
         \A r \in Request \ {q} : request'[r] = request[r],
         request'[q].pc # "new",
         request'[q].pc \in {"look", "start"} => request'[q].kind \in {"sas", "register"},
         StepOf(q), StepOfSession,
         files' \subseteq Request, published' \in [Request -> SUBSET Request]
  PROVE  Does
<1>1. Typed'
  BY DEF Typed, StepOfSession
<1>2. Shape'
  BY DEF IInv, Shape
<1>3. \A r \in Request : StepOf(r)
  BY DEF StepOf
<1> QED
  BY <1>1, <1>2, <1>3 DEF Does, Steps

\* One request moves and the session stays.
LEMMA OneMovesOnly ==
  ASSUME IInv, NEW q \in Request,
         request' \in [Request -> RequestState],
         \A r \in Request \ {q} : request'[r] = request[r],
         request'[q].pc # "new",
         request'[q].pc \in {"look", "start"} => request'[q].kind \in {"sas", "register"},
         StepOf(q), UNCHANGED <<status, files, published>>, faults' \in {faults, faults + 1}
  PROVE  Does
<1>1. /\ faults' \in Nat /\ faults' >= faults /\ files' \subseteq Request
      /\ published' \in [Request -> SUBSET Request]
  BY DEF IInv, Typed
<1>2. StepOfSession
  BY <1>1 DEF StepOfSession
<1> QED
  BY <1>1, <1>2, OneMoves

\* One request is refused.
LEMMA OneRefused ==
  ASSUME IInv, NEW q \in Request, Refuse(q), ~Marked(q),
         request[q].pc \notin {"look", "start", "answered"},
         UNCHANGED <<status, files, published>>, faults' \in {faults, faults + 1}
  PROVE  Does
<1>1. /\ request' \in [Request -> RequestState]
      /\ \A r \in Request \ {q} : request'[r] = request[r]
      /\ request'[q] = Refused
  BY Refusals DEF IInv
<1>2. q \notin files'
  BY DEF IInv, Filed
<1>3. StepOf(q)
  BY <1>1, <1>2 DEF StepOf
<1>4. request'[q].pc = "refused"
  BY <1>1, RefusedRecord
<1> QED
  BY <1>1, <1>3, <1>4, OneMovesOnly

LEMMA NotPublished ==
  ASSUME IInv, NEW q \in Request, request[q].pc # "answered"
  PROVE  published[q] = {}
  BY DEF IInv, PublishedIsAnswered

LEMMA ArriveDoes ==
  ASSUME IInv, NEW q \in Request, NEW kind \in Kind, Arrive(q, kind)
  PROVE  Does
<1>1. request[q].pc = "new" /\ request[q] = NewRequest
  BY DEF Arrive, IInv, Shape
<1>2. ~Marked(q)
  BY <1>1, NotPublished DEF Marked
<1>3. CASE Refuse(q)
  BY <1>1, <1>2, <1>3, OneRefused DEF Arrive
<1>4. ASSUME status # "gone" \/ kind \notin OnSession, NEW file \in Metadata \cup {NoFile},
             request' = [request EXCEPT ![q] =
               [NewRequest EXCEPT !.pc = "begun", !.kind = kind, !.file = file,
                                  !.before = Answered]]
      PROVE  Does
  <2>1. request \in [Request -> RequestState]
    BY DEF IInv, Typed
  <2> DEFINE new == [NewRequest EXCEPT !.pc = "begun", !.kind = kind, !.file = file,
                                       !.before = Answered]
  <2>2. /\ "begun" \in PC /\ Answered \subseteq Request
        /\ NewRequest \in RequestState
    BY RefusedRecord DEF PC, Answered
  <2>3. /\ new \in RequestState /\ new.pc = "begun" /\ new.kind = kind
        /\ new.before = Answered
    BY <2>2 DEF RequestState
  <2>5. request' = [request EXCEPT ![q] = new]
    BY <1>4
  <2> HIDE DEF new
  <2>6. request' \in [Request -> RequestState]
    BY <2>1, <2>3, <2>5
  <2>7. request'[q] = new /\ \A r \in Request \ {q} : request'[r] = request[r]
    BY <2>1, <2>5
  <2>8. request'[q].pc = "begun" /\ request'[q].kind = kind /\ request'[q].before = Answered
    BY <2>3, <2>7
  <2>9. StepOf(q)
    BY <1>1, <1>4, <2>8 DEF StepOf
  <2>10. UNCHANGED <<status, files, published>> /\ faults' \in {faults, faults + 1}
    BY DEF Arrive
  <2>11. \A r \in Request \ {q} : request'[r] = request[r]
    BY <2>7
  <2> QED
    BY <2>6, <2>8, <2>9, <2>10, <2>11, OneMovesOnly
<1>5. CASE kind = "register"
  BY <1>3, <1>4, <1>5 DEF Arrive
<1>6. CASE kind # "register"
  BY <1>3, <1>4, <1>6 DEF Arrive
<1> QED
  BY <1>5, <1>6

\* A request moves on by itself.
LEMMA GotoDoes ==
  ASSUME IInv, NEW q \in Request, NEW pc \in PC, Goto(q, pc), pc # "new",
         pc \in {"look", "start"} => request[q].kind \in {"sas", "register"},
         StepOf(q), UNCHANGED <<status, files, published>>, faults' \in {faults, faults + 1}
  PROVE  Does
  BY Moves, OneMovesOnly DEF IInv

LEMMA ShowDoes ==
  ASSUME IInv, NEW q \in Request, NEW pc \in {"answered", "publish"}, Show(q, pc),
         StepOf(q), UNCHANGED <<status, files, published>>, UNCHANGED faults
  PROVE  Does
<1>1. pc \in PC
  BY DEF PC
<1> QED
  BY <1>1, Shows, OneMovesOnly DEF IInv

LEMMA PagesDo ==
  ASSUME IInv, NEW q \in Request,
         UploadPage(q) \/ ListSessions(q) \/ ShowSessions(q) \/ ShowSession(q)
  PROVE  Does
<1>0. {"answered", "iterate"} \subseteq PC /\ IInv
  BY DEF PC
<1>1. CASE UploadPage(q)
  <2>1. StepOf(q)
    BY <1>0, <1>1, Moves DEF UploadPage, At, IInv, StepOf, Advance, Running
  <2> QED
    BY <1>0, <1>1, <2>1, GotoDoes DEF UploadPage
<1>2. CASE ListSessions(q)
  <2>1. StepOf(q)
    BY <1>0, <1>2, Moves DEF ListSessions, At, IInv, StepOf, Advance, Running
  <2> QED
    BY <1>0, <1>2, <2>1, GotoDoes DEF ListSessions
<1>3. CASE ShowSessions(q)
  <2>1. StepOf(q)
    BY <1>0, <1>3, Shows DEF ShowSessions, At, IInv, StepOf, Advance, Running
  <2> QED
    BY <1>3, <2>1, ShowDoes DEF ShowSessions
<1>4. CASE ShowSession(q)
  <2>1. StepOf(q)
    BY <1>0, <1>4, Shows DEF ShowSession, At, IInv, StepOf, Advance, Running
  <2> QED
    BY <1>4, <2>1, ShowDoes DEF ShowSession
<1> QED
  BY <1>1, <1>2, <1>3, <1>4

LEMMA RegistrationsDo ==
  ASSUME IInv, NEW q \in Request,
         \/ IssueSas(q) \/ ReadTotal(q) \/ RefuseFile(q) \/ AppendFile(q)
         \/ LookAtStatus(q) \/ StartUploading(q)
  PROVE  Does
<1>0. {"answered", "look", "validate", "start"} \subseteq PC
  BY DEF PC
<1>1. CASE IssueSas(q)
  <2>1. StepOf(q)
    BY <1>0, <1>1, Moves DEF IssueSas, At, IInv, StepOf, Advance, Running
  <2> QED
    BY <1>0, <1>1, <2>1, GotoDoes DEF IssueSas, At
<1>2. CASE ReadTotal(q)
  <2>1. request \in [Request -> RequestState]
    BY DEF IInv, Typed
  <2>2. PICK s \in RequestState : s = request[q]
    BY <2>1
  <2>3. PICK total \in Nat : total = TotalSize
    BY SizeIsNatural DEF TotalSize, IInv, Typed
  <2> DEFINE new == [s EXCEPT !.pc = "validate", !.total = total]
  <2>4. new \in RequestState /\ new.pc = "validate" /\ new.kind = s.kind
        /\ new.before = s.before /\ new.file = s.file /\ new.total = total
    BY <1>0 DEF RequestState
  <2>5. request' = [request EXCEPT ![q] = new]
    BY <1>2, <2>1, <2>2, <2>3 DEF ReadTotal
  <2> HIDE DEF new
  <2>7. request' \in [Request -> RequestState]
    BY <2>1, <2>4, <2>5
  <2>8. request'[q] = new /\ \A r \in Request \ {q} : request'[r] = request[r]
    BY <2>1, <2>5
  <2>9. StepOf(q)
    BY <1>2, <2>2, <2>3, <2>4, <2>8 DEF ReadTotal, At, StepOf, Advance, Running
  <2>10. UNCHANGED <<status, files, published>> /\ faults' \in {faults, faults + 1}
    BY <1>2 DEF ReadTotal
  <2> QED
    BY <2>4, <2>7, <2>8, <2>9, <2>10, OneMovesOnly
<1>3. CASE RefuseFile(q)
  <2>1. request[q].pc = "validate"
    BY <1>3 DEF RefuseFile, At
  <2>2. ~Marked(q)
    BY <2>1, NotPublished DEF Marked
  <2> QED
    BY <1>3, <2>1, <2>2, OneRefused DEF RefuseFile
<1>4. CASE AppendFile(q)
  <2>1. request \in [Request -> RequestState]
    BY DEF IInv, Typed
  <2>2. PICK s \in RequestState : s = request[q]
    BY <2>1
  <2> DEFINE new == [s EXCEPT !.pc = "look", !.total = 0]
  <2>4. new \in RequestState /\ new.pc = "look" /\ new.kind = s.kind
        /\ new.before = s.before /\ new.file = s.file
    BY <1>0 DEF RequestState
  <2>5. request' = [request EXCEPT ![q] = new]
    BY <1>4, <2>1, <2>2 DEF AppendFile
  <2> HIDE DEF new
  <2>7. request' \in [Request -> RequestState]
    BY <2>1, <2>4, <2>5
  <2>8. request'[q] = new /\ \A r \in Request \ {q} : request'[r] = request[r]
    BY <2>1, <2>5
  <2>9. /\ request[q].pc = "validate" /\ s.kind = "register" /\ files' = files \cup {q}
        /\ UNCHANGED <<status, published, faults>> /\ ValidFile(s.file, s.total)
    BY <1>4, <2>2 DEF AppendFile, At
  <2>10. StepOf(q)
    BY <2>2, <2>4, <2>8, <2>9 DEF StepOf, Advance, Running
  <2>11. StepOfSession /\ files' \subseteq Request /\ published' \in [Request -> SUBSET Request]
    BY <2>2, <2>4, <2>8, <2>9 DEF StepOfSession, IInv, Typed, At
  <2> QED
    BY <2>4, <2>7, <2>8, <2>9, <2>10, <2>11, OneMoves
<1>5. CASE LookAtStatus(q)
  <2>1. PICK pc \in {"start", "answered"} : Goto(q, pc)
    BY <1>5 DEF LookAtStatus
  <2>2. request[q].pc = "look" /\ request[q].kind \in {"sas", "register"}
    BY <1>5 DEF LookAtStatus, IInv, Shape
  <2>3. /\ UNCHANGED <<status, files, published>> /\ faults' \in {faults, faults + 1}
        /\ status # "gone"
    BY <1>5, <2>2 DEF LookAtStatus, IInv, GoneStops, OnSession, Kind, Running
  <2>4. q \in files \/ request[q].kind = "sas"
    BY <2>2, <2>3 DEF IInv, FilesKept
  <2>5. StepOf(q)
    BY <1>0, <2>1, <2>2, <2>3, <2>4, Moves DEF IInv, StepOf, Advance, Running
  <2> QED
    BY <1>0, <2>1, <2>2, <2>3, <2>5, GotoDoes
<1>6. CASE StartUploading(q)
  <2>1. Goto(q, "answered") /\ status' = "uploading" /\ UNCHANGED <<files, published, faults>>
    BY <1>6 DEF StartUploading
  <2>2. request[q].pc = "start" /\ request[q].kind \in {"sas", "register"}
    BY <1>6 DEF StartUploading, IInv, Shape
  <2>3. status # "gone"
    BY <2>2 DEF IInv, GoneStops, OnSession, Kind, Running
  <2>4. q \in files \/ request[q].kind = "sas"
    BY <2>2, <2>3 DEF IInv, FilesKept
  <2>5. /\ request' \in [Request -> RequestState]
        /\ \A r \in Request \ {q} : request'[r] = request[r]
        /\ request'[q].pc = "answered" /\ request'[q].kind = request[q].kind
        /\ request'[q].before = request[q].before /\ request'[q].file = request[q].file
    BY <1>0, <2>1, Moves DEF IInv
  <2>6. StepOf(q)
    BY <2>1, <2>2, <2>4, <2>5 DEF StepOf, Advance, Running
  <2>7. StepOfSession /\ files' \subseteq Request /\ published' \in [Request -> SUBSET Request]
    BY <2>1, <2>2, <2>3, <2>5 DEF StepOfSession, IInv, Typed, Running
  <2> QED
    BY <2>5, <2>6, <2>7, OneMoves
<1> QED
  BY <1>1, <1>2, <1>3, <1>4, <1>5, <1>6

LEMMA PreflightsDo ==
  ASSUME IInv, NEW q \in Request, BeginPreflight(q) \/ Summarize(q) \/ EndPreflight(q)
  PROVE  Does
<1>0. {"answered", "analyze", "finish"} \subseteq PC
  BY DEF PC
<1>1. CASE BeginPreflight(q) /\ files = {}
  <2>1. request[q].pc = "begun"
    BY <1>1 DEF BeginPreflight, At
  <2>2. ~Marked(q)
    BY <2>1, NotPublished DEF Marked
  <2> QED
    BY <1>1, <2>1, <2>2, OneRefused DEF BeginPreflight
<1>2. CASE BeginPreflight(q) /\ files # {}
  <2>1. StepOf(q)
    BY <1>0, <1>2, Moves DEF BeginPreflight, At, IInv, StepOf, Advance, Running
  <2> QED
    BY <1>0, <1>2, <2>1, GotoDoes DEF BeginPreflight
<1>3. CASE Summarize(q)
  <2>1. StepOf(q)
    BY <1>0, <1>3, Moves DEF Summarize, At, IInv, StepOf, Advance, Running
  <2> QED
    BY <1>0, <1>3, <2>1, GotoDoes DEF Summarize
<1>4. CASE EndPreflight(q)
  <2>1. /\ Goto(q, "answered") /\ status' = "preflight" /\ UNCHANGED <<files, published, faults>>
        /\ request[q].kind = "preflight" /\ request[q].pc = "finish"
    BY <1>4 DEF EndPreflight, At
  <2>2. status # "gone"
    BY <2>1 DEF IInv, GoneStops, OnSession, Kind, Running
  <2>3. /\ request' \in [Request -> RequestState]
        /\ \A r \in Request \ {q} : request'[r] = request[r]
        /\ request'[q].pc = "answered" /\ request'[q].kind = request[q].kind
        /\ request'[q].before = request[q].before /\ request'[q].file = request[q].file
    BY <1>0, <2>1, Moves DEF IInv
  <2>4. StepOf(q)
    BY <2>1, <2>3 DEF StepOf, Advance, Running
  <2>5. StepOfSession /\ files' \subseteq Request /\ published' \in [Request -> SUBSET Request]
    BY <2>1, <2>2, <2>3 DEF StepOfSession, IInv, Typed, Running
  <2> QED
    BY <2>3, <2>4, <2>5, OneMoves
<1> QED
  BY <1>1, <1>2, <1>3, <1>4

LEMMA ConfirmationsDo ==
  ASSUME IInv, NEW q \in Request,
         \/ LookAtSession(q) \/ MarkConfirmed(q) \/ BuildMessage(q) \/ Publish(q)
         \/ PublishFails(q)
  PROVE  Does
<1>0. {"answered", "mark", "build", "publish"} \subseteq PC
  BY DEF PC
<1>1. CASE LookAtSession(q)
  <2>1. /\ request[q].kind = "confirm" /\ request[q].pc = "begun"
        /\ UNCHANGED <<status, files, published, faults>>
    BY <1>1 DEF LookAtSession, At
  <2>2. CASE Goto(q, "answered")
    <3>1. StepOf(q)
      BY <1>0, <2>1, <2>2, Moves DEF IInv, StepOf, Advance, Running
    <3> QED
      BY <1>0, <2>1, <2>2, <3>1, GotoDoes
  <2>3. CASE Refuse(q)
    <3>1. ~Marked(q)
      BY <2>1, NotPublished DEF Marked
    <3> QED
      BY <2>1, <2>3, <3>1, OneRefused
  <2>4. CASE Goto(q, "mark") /\ status # "confirmed" /\ files # {}
    <3>1. StepOf(q)
      BY <1>0, <2>1, <2>4, Moves DEF IInv, StepOf, Advance, Running
    <3> QED
      BY <1>0, <2>1, <2>4, <3>1, GotoDoes
  <2> QED
    BY <1>1, <2>2, <2>3, <2>4 DEF LookAtSession
<1>2. CASE MarkConfirmed(q)
  <2>1. /\ Goto(q, "build") /\ status' = "confirmed" /\ UNCHANGED <<files, published, faults>>
        /\ request[q].kind = "confirm" /\ request[q].pc = "mark"
    BY <1>2 DEF MarkConfirmed, At
  <2>2. status # "gone"
    BY <2>1 DEF IInv, GoneStops, OnSession, Kind, Running
  <2>3. /\ request' \in [Request -> RequestState]
        /\ \A r \in Request \ {q} : request'[r] = request[r]
        /\ request'[q].pc = "build" /\ request'[q].kind = request[q].kind
        /\ request'[q].before = request[q].before /\ request'[q].file = request[q].file
    BY <1>0, <2>1, Moves DEF IInv
  <2>4. StepOf(q)
    BY <2>1, <2>3 DEF StepOf, Advance, Running
  <2>5. StepOfSession /\ files' \subseteq Request /\ published' \in [Request -> SUBSET Request]
    BY <2>1, <2>2, <2>3 DEF StepOfSession, IInv, Typed
  <2> QED
    BY <2>3, <2>4, <2>5, OneMoves
<1>3. CASE BuildMessage(q)
  <2>1. StepOf(q)
    BY <1>0, <1>3, Shows DEF BuildMessage, At, IInv, StepOf, Advance, Running
  <2> QED
    BY <1>3, <2>1, ShowDoes DEF BuildMessage
<1>4. CASE Publish(q)
  <2>1. /\ Goto(q, "answered") /\ UNCHANGED <<status, files, faults>>
        /\ published' = [published EXCEPT ![q] = request[q].shown]
        /\ request[q].kind = "confirm" /\ request[q].pc = "publish"
    BY <1>4 DEF Publish, At
  <2>2. /\ request' \in [Request -> RequestState]
        /\ \A r \in Request \ {q} : request'[r] = request[r]
        /\ request'[q].pc = "answered" /\ request'[q].kind = request[q].kind
        /\ request'[q].before = request[q].before /\ request'[q].shown = request[q].shown
        /\ request'[q].file = request[q].file
    BY <1>0, <2>1, Moves DEF IInv
  <2>3. published' \in [Request -> SUBSET Request] /\ published'[q] = request[q].shown
        /\ \A r \in Request \ {q} : published'[r] = published[r]
    BY <2>1, Records DEF IInv, Typed
  <2>4. StepOf(q)
    BY <2>1, <2>2, <2>3 DEF StepOf, Advance, Running
  <2>5. StepOfSession /\ files' \subseteq Request
    BY <2>1, <2>2, <2>3 DEF StepOfSession, IInv, Typed
  <2> QED
    BY <2>2, <2>3, <2>4, <2>5, OneMoves
<1>5. CASE PublishFails(q)
  <2>1. faults' > 0 /\ faults' = faults + 1
    BY <1>5 DEF PublishFails, Fault, IInv, Typed
  <2>2. StepOf(q)
    BY <1>0, <1>5, <2>1, Moves DEF PublishFails, At, IInv, StepOf, Advance, Running
  <2> QED
    BY <1>0, <1>5, <2>1, <2>2, GotoDoes DEF PublishFails
<1> QED
  BY <1>1, <1>2, <1>3, <1>4, <1>5

LEMMA FailuresDo ==
  ASSUME IInv, NEW q \in Request, CreateFails(q) \/ SasFails(q)
  PROVE  Does
<1>1. request[q].pc = "begun" /\ Refuse(q) /\ UNCHANGED <<status, files, published>>
      /\ faults' = faults + 1
  BY DEF CreateFails, SasFails, At, Fault
<1>2. ~Marked(q)
  BY <1>1, NotPublished DEF Marked
<1> QED
  BY <1>1, <1>2, OneRefused

\* The session that is created ends the listings under way.
LEMMA CreateDoes ==
  ASSUME IInv, NEW q \in Request, CreateSession(q)
  PROVE  Does
<1>1. request \in [Request -> RequestState]
  BY DEF IInv, Typed
<1>2. PICK s \in RequestState : s = request[q]
  BY <1>1
<1> DEFINE new == [s EXCEPT !.pc = "answered"]
<1>3. /\ new \in RequestState /\ new.pc = "answered" /\ new.kind = s.kind
      /\ new.before = s.before /\ new.file = s.file
  BY DEF RequestState, PC
<1> HIDE DEF new
<1>4. request' = [r \in Request |-> IF r = q THEN new
                                    ELSE IF At(r, "list", "iterate") THEN Refused
                                    ELSE request[r]]
  BY <1>2 DEF CreateSession, new
<1>5. s.kind = "open" /\ s.pc = "begun" /\ UNCHANGED <<status, files, published, faults>>
  BY <1>2 DEF CreateSession, At
<1>6. \A r \in Request : request[r] \in RequestState /\ Refused \in RequestState
  BY <1>1, RefusedRecord
<1>7. request' \in [Request -> RequestState]
  BY <1>3, <1>4, <1>6
<1>8. request'[q] = new
  BY <1>4
<1>9. \A r \in Request \ {q} : request'[r] = request[r] \/ (At(r, "list", "iterate") /\ request'[r] = Refused)
  BY <1>4
<1>10. Typed'
  BY <1>5, <1>7 DEF IInv, Typed
<1>11. Shape'
  BY <1>3, <1>8, <1>9, RefusedRecord DEF IInv, Shape
<1>12. StepOf(q)
  BY <1>2, <1>3, <1>5, <1>8 DEF StepOf, Advance, Running
<1>13. ASSUME NEW r \in Request \ {q} PROVE StepOf(r)
  <2>1. CASE request'[r] = request[r]
    BY <2>1 DEF StepOf
  <2>2. CASE At(r, "list", "iterate") /\ request'[r] = Refused
    BY <1>5, <2>2, NotPublished DEF At, StepOf, Marked, IInv, Filed
  <2> QED
    BY <1>9, <2>1, <2>2
<1>14. StepOfSession
  BY <1>5 DEF StepOfSession, IInv, Typed
<1> QED
  BY <1>10, <1>11, <1>12, <1>13, <1>14 DEF Does, Steps

LEMMA RestartDoes ==
  ASSUME IInv, Restart
  PROVE  Does
<1>1. request \in [Request -> RequestState]
  BY DEF IInv, Typed
<1>2. /\ faults' = faults + 1 /\ faults' \in Nat /\ faults' > 0 /\ status' = "gone" /\ files' = {}
      /\ status # "gone" /\ published' = published
      /\ request' = [q \in Request |-> IF Running(q) THEN Refused ELSE request[q]]
  BY DEF Restart, Fault, IInv, Typed
<1>3. \A r \in Request : request[r] \in RequestState /\ Refused \in RequestState
  BY <1>1, RefusedRecord
<1>4. request' \in [Request -> RequestState]
  BY <1>2, <1>3
<1>5. \A r \in Request : \/ Running(r) /\ request'[r] = Refused
                         \/ ~Running(r) /\ request'[r] = request[r]
  BY <1>2
<1>6. Typed'
  BY <1>2, <1>4 DEF IInv, Typed
<1>7. Shape'
  BY <1>5, RefusedRecord DEF IInv, Shape
<1>8. \A r \in Request : StepOf(r)
  BY <1>2, <1>5 DEF StepOf, Running
<1>9. \A r \in Request : request'[r].pc \in {"new", "refused", "answered"}
  BY <1>5, RefusedRecord DEF Running
<1>10. StepOfSession
  BY <1>2, <1>9 DEF StepOfSession, IInv, Typed
<1> QED
  BY <1>6, <1>7, <1>8, <1>10 DEF Does, Steps

-----------------------------------------------------------------------------
(* The invariant and what follows from it.                                 *)

LEMMA InitIInv == Init => IInv
<1> SUFFICES ASSUME Init PROVE IInv
  OBVIOUS
<1>1. \A q \in Request : request[q] = NewRequest /\ published[q] = {}
  BY DEF Init
<1>4. Typed
  BY RefusedRecord DEF Init, Typed
<1>5. \A q \in Request : request[q].pc = "new" /\ request[q].kind = "open" /\ request[q].before = {}
  BY <1>1 DEF NewRequest
<1>6. Shape /\ BeforeIsAnswered /\ FilesKept /\ HasFiles /\ Filed /\ Measured /\ AnsweredFilesFit
  BY <1>1, <1>5 DEF Init, Shape, BeforeIsAnswered, FilesKept, HasFiles, Filed, Measured, At,
                    AnsweredFilesFit
<1>7. GoneStops /\ ShownIsComplete /\ PublishedIsAnswered
  BY <1>1, <1>5 DEF Init, GoneStops, ShownIsComplete, PublishedIsAnswered
<1>8. ConfirmedIsSent /\ ChangeHasCause /\ SecondHasCause
  BY <1>1, <1>5 DEF Init, ConfirmedIsSent, ChangeHasCause, SecondHasCause, Marked
<1> QED
  BY <1>4, <1>6, <1>7, <1>8 DEF IInv

LEMMA DoesKeeps ==
  ASSUME IInv, Does
  PROVE  IInv'
  BY KeepsBefore, KeepsFiles, KeepsFiled, KeepsMeasured, KeepsFit, KeepsGone, KeepsPublished, KeepsShown, KeepsHasFiles,
     KeepsConfirmed, KeepsChange, KeepsSecond DEF Does, IInv

LEMMA NextKeeps == IInv /\ [Next]_vars => IInv'
<1> SUFFICES ASSUME IInv, [Next]_vars PROVE IInv'
  OBVIOUS
<1>1. ASSUME NEW q \in Request, NEW kind \in Kind, Arrive(q, kind) PROVE Does
  BY <1>1, ArriveDoes
<1>2. ASSUME NEW q \in Request, Serve(q) PROVE Does
  BY <1>2, PagesDo, CreateDoes, RegistrationsDo, PreflightsDo, ConfirmationsDo DEF Serve
<1>3. ASSUME NEW q \in Request, CreateFails(q) \/ SasFails(q) PROVE Does
  BY <1>3, FailuresDo
<1>4. ASSUME NEW q \in Request, PublishFails(q) PROVE Does
  BY <1>4, ConfirmationsDo
<1>5. CASE Restart
  BY <1>5, RestartDoes, DoesKeeps
<1>6. CASE UNCHANGED vars
  BY <1>6 DEF vars, IInv, Typed, Shape, FilesKept, BeforeIsAnswered, GoneStops, ShownIsComplete,
              PublishedIsAnswered, HasFiles, ConfirmedIsSent, ChangeHasCause, SecondHasCause,
              Answered, Running, RegisteredBefore, Marked, Passed, Cause, Filed, Measured, At,
              AnsweredFilesFit, SizeOf, FileSize
<1>7. CASE Does
  BY <1>7, DoesKeeps
<1> QED
  BY <1>1, <1>2, <1>3, <1>4, <1>5, <1>6, <1>7 DEF Next

THEOREM UploadInvariant == Spec => []IInv
  BY InitIInv, NextKeeps, PTL DEF Spec

\* Every file whose registration was answered before the confirmation came is in
\* the message, and in what a page shows that is asked for later (api.py).
THEOREM UploadAnswersAreComplete == Spec => []AnswersAreComplete
<1>1. IInv => AnswersAreComplete
  BY DEF IInv, ShownIsComplete, AnswersAreComplete
<1> QED
  BY <1>1, UploadInvariant, PTL

\* Only a publish that fails leaves a confirmed session unsent (api.py).
THEOREM UploadUnsentOnlyByFault == Spec => []UnsentOnlyByFault
<1>1. IInv => UnsentOnlyByFault
  BY DEF IInv, ConfirmedIsSent, UnsentOnlyByFault, Marked, Running
<1> QED
  BY <1>1, UploadInvariant, PTL

\* A session that is sent twice was changed in between (api.py).
THEOREM UploadSentAgainHasCause == Spec => []SentAgainHasCause
<1>1. IInv => SentAgainHasCause
  BY DEF IInv, SecondHasCause, SentAgainHasCause, Passed, Marked, Cause
<1> QED
  BY <1>1, UploadInvariant, PTL

-----------------------------------------------------------------------------
(* The types, and the preflight.                                           *)

\* Of likenesses, none is above the highest.
LEMMA SomeIsBest ==
  ASSUME NEW S, S # {}, NEW f, \A s \in S : f[s] \in 0..100
  PROVE  \E s \in S : \A t \in S : f[t] <= f[s]
<1> DEFINE Above(s) == {n \in 0..100 : f[s] <= n}
           B == {Above(s) : s \in S}
<1>1. B \subseteq SUBSET (0..100) /\ B # {}
  OBVIOUS
<1>2. IsFiniteSet(0..100)
  BY 0 \in Int, 100 \in Int, FS_Interval
<1>3. PICK T \in B : \A V \in B : V \subseteq T => V = T
  <2> HIDE DEF B
  <2>1. PICK R : R = 0..100
    OBVIOUS
  <2>2. IsFiniteSet(R) /\ B \subseteq SUBSET R /\ B # {}
    BY <1>1, <1>2, <2>1
  <2> QED BY <2>2, MinimalSubset
<1>4. PICK s \in S : T = Above(s)
  BY <1>3
<1>5. ASSUME NEW t \in S, ~ (f[t] <= f[s]) PROVE FALSE
  <2>1. PICK x \in 0..100, y \in 0..100 : x = f[s] /\ y = f[t]
    OBVIOUS
  <2>2. x < y
    BY <1>5, <2>1
  <2>3. Above(t) = {n \in 0..100 : y <= n} /\ Above(s) = {n \in 0..100 : x <= n}
    BY <2>1
  <2>4. Above(t) \subseteq Above(s) /\ x \in Above(s) /\ x \notin Above(t)
    BY <2>2, <2>3
  <2>5. Above(t) \in B
    OBVIOUS
  <2> QED BY <1>3, <1>4, <2>4, <2>5
<1> QED BY <1>5

\* The store that is found is of the catalogue, and none is found without a
\* confidence of 0.
LEMMA StoreFound ==
  ASSUME NEW scan \in Scan
  PROVE  \/ DetectStore(scan) = NoMatch
         \/ DetectStore(scan).store \in Store /\ DetectStore(scan).confidence \in 0..100
<1>1. scan.city \in [Store -> 0..100] /\ scan.street \in [Store -> 0..100]
  BY DEF IsScan
<1>2. PICK found, byCode, coded, alike :
        /\ found = DetectStore(scan)
        /\ byCode = {s \in Store : Postal[s] \in scan.postal}
        /\ coded = CHOOSE s \in byCode : \A t \in byCode : scan.street[t] <= scan.street[s]
        /\ alike = CHOOSE s \in Store : \A t \in Store : FuzzyScore(scan, t) <= FuzzyScore(scan, s)
  OBVIOUS
<1>3. /\ byCode # {} =>
           found = [store |-> coded,
                    confidence |-> AtMost(100, 95 + Max({scan.city[coded], scan.street[coded]}) \div 20)]
      /\ byCode = {} /\ (Store = {} \/ FuzzyScore(scan, alike) < SUGGEST_THRESHOLD) =>
           found = NoMatch
      /\ byCode = {} /\ ~ (Store = {} \/ FuzzyScore(scan, alike) < SUGGEST_THRESHOLD) =>
           found = [store |-> alike, confidence |-> FuzzyScore(scan, alike)]
  BY <1>2 DEF DetectStore, Best
<1>4. CASE byCode # {}
  <2>1. \A s \in byCode : scan.street[s] \in 0..100
    BY <1>1, <1>2
  <2>2. coded \in byCode /\ coded \in Store
    BY <1>2, <1>4, <2>1, SomeIsBest
  <2>3. PICK x \in 0..100, y \in 0..100 : x = scan.city[coded] /\ y = scan.street[coded]
    BY <1>1, <2>2
  <2>4. Max({x, y}) \in 0..100
    <3>1. \E z \in {x, y} : \A w \in {x, y} : z >= w
      OBVIOUS
    <3>2. Max({x, y}) \in {x, y}
      BY <3>1 DEF Max
    <3> QED BY <3>2
  <2>5. PICK m \in 0..100 : m = Max({scan.city[coded], scan.street[coded]})
    BY <2>3, <2>4
  <2>6. AtMost(100, 95 + m \div 20) \in 0..100
    BY DEF AtMost
  <2>7. found = [store |-> coded, confidence |-> AtMost(100, 95 + m \div 20)]
    BY <1>3, <1>4, <2>5
  <2>8. found.store = coded /\ found.confidence = AtMost(100, 95 + m \div 20)
    BY <2>7
  <2> QED BY <1>2, <2>2, <2>6, <2>8
<1>5. CASE byCode = {} /\ ~ (Store = {} \/ FuzzyScore(scan, alike) < SUGGEST_THRESHOLD)
  <2>1. ASSUME NEW s \in Store PROVE FuzzyScore(scan, s) \in 0..100
    <3>1. PICK x \in 0..100, y \in 0..100 : x = scan.city[s] /\ y = scan.street[s]
      BY <1>1
    <3>2. AtMost(99, (55 * x + 45 * y) \div 100) \in 0..100
      BY DEF AtMost
    <3> QED BY <3>1, <3>2 DEF FuzzyScore
  <2>2. PICK f : f = [s \in Store |-> FuzzyScore(scan, s)]
    OBVIOUS
  <2>3. PICK s \in Store : \A t \in Store : f[t] <= f[s]
    BY <1>5, <2>1, <2>2, SomeIsBest
  <2>4. \A t \in Store : FuzzyScore(scan, t) <= FuzzyScore(scan, s)
    BY <2>2, <2>3
  <2>5. alike \in Store
    BY <1>2, <2>4
  <2>6. found.store = alike /\ found.confidence = FuzzyScore(scan, alike)
    BY <1>3, <1>5
  <2> QED BY <1>2, <2>1, <2>5, <2>6
<1>6. CASE byCode = {} /\ (Store = {} \/ FuzzyScore(scan, alike) < SUGGEST_THRESHOLD)
  BY <1>2, <1>3, <1>6
<1> QED BY <1>4, <1>5, <1>6

LEMMA Summarized ==
  ASSUME NEW scan \in Analysis
  PROVE  /\ RunPreflight(scan) \in Summary
         /\ ~RunPreflight(scan).review =>
              RunPreflight(scan).albaran \/ RunPreflight(scan).store # None
<1>1. CASE scan = None
  <2>1. RunPreflight(scan) = [store |-> None, confidence |-> 10, albaran |-> FALSE, review |-> TRUE]
    BY <1>1 DEF RunPreflight
  <2> QED BY <2>1 DEF Summary
<1>2. CASE scan # None
  <2>1. scan \in Scan
    BY <1>2 DEF Analysis
  <2>2. PICK c : c = DetectStore(scan).confidence
    OBVIOUS
  <2>3. /\ c \in 0..100 /\ DetectStore(scan).store \in Store \cup {None}
        /\ DetectStore(scan).store = None => c = 0
    BY <2>1, <2>2, StoreFound DEF NoMatch
  <2>4. PICK n : n = c \div 2 + (IF IsAlbaran(scan) THEN 50 ELSE 0)
                             + (IF scan.supplier THEN 15 ELSE 0)
                             + (IF scan.date THEN 10 ELSE 0)
    OBVIOUS
  <2>5. n \in Nat /\ (c = 0 /\ ~IsAlbaran(scan) => n <= 25)
    BY <2>3, <2>4
  <2>6. Confidence(scan) = AtMost(100, n)
    BY <2>2, <2>4 DEF Confidence
  <2>7. /\ Confidence(scan) \in 0..100
        /\ c = 0 /\ ~IsAlbaran(scan) => Confidence(scan) < MANUAL_REVIEW_THRESHOLD
    BY <2>5, <2>6 DEF AtMost, MANUAL_REVIEW_THRESHOLD
  <2>8. RunPreflight(scan) =
          [store |-> DetectStore(scan).store, confidence |-> Confidence(scan),
           albaran |-> IsAlbaran(scan), review |-> Confidence(scan) < MANUAL_REVIEW_THRESHOLD]
    BY <1>2 DEF RunPreflight
  <2>9. IsAlbaran(scan) \in BOOLEAN
    BY <2>1 DEF IsAlbaran
  <2>10. (Confidence(scan) < MANUAL_REVIEW_THRESHOLD) \in BOOLEAN
    OBVIOUS
  <2>11. RunPreflight(scan) \in Summary
    BY <2>3, <2>7, <2>8, <2>9, <2>10 DEF Summary
  <2>12. ~RunPreflight(scan).review =>
           RunPreflight(scan).albaran \/ RunPreflight(scan).store # None
    <3>1. /\ RunPreflight(scan).review = (Confidence(scan) < MANUAL_REVIEW_THRESHOLD)
          /\ RunPreflight(scan).albaran = IsAlbaran(scan)
          /\ RunPreflight(scan).store = DetectStore(scan).store
      BY <2>8
    <3>2. CASE DetectStore(scan).store = None /\ ~IsAlbaran(scan)
      BY <2>3, <2>7, <3>1, <3>2
    <3>3. CASE ~ (DetectStore(scan).store = None /\ ~IsAlbaran(scan))
      <4>1. DetectStore(scan).store # None \/ IsAlbaran(scan)
        BY <3>3
      <4> QED BY <3>1, <4>1, Zenon
    <3> QED BY <3>2, <3>3
  <2> QED BY <2>11, <2>12
<1> QED BY <1>1, <1>2

Labels ==
  /\ status \in {"created", "uploading", "preflight", "confirmed", "gone"}
  /\ preflight = None \/ \E scan \in Analysis : preflight = RunPreflight(scan)

LEMMA LabelsKept == Labels /\ [Next]_vars => Labels'
<1> SUFFICES ASSUME Labels, [Next]_vars PROVE Labels'
  OBVIOUS
<1>1. \/ UNCHANGED status
      \/ status' \in {"uploading", "preflight", "confirmed", "gone"}
  BY DEF Next, Arrive, Serve, UploadPage, CreateSession, CreateFails, ListSessions, ShowSessions,
         ShowSession, IssueSas, SasFails, ReadTotal, RefuseFile, AppendFile, LookAtStatus,
         StartUploading, BeginPreflight, Summarize, EndPreflight, LookAtSession, MarkConfirmed,
         BuildMessage, Publish, PublishFails, Restart, vars
<1>2. \/ UNCHANGED preflight
      \/ preflight' = None
      \/ \E scan \in Analysis : preflight' = RunPreflight(scan)
  BY DEF Next, Arrive, Serve, UploadPage, CreateSession, CreateFails, ListSessions, ShowSessions,
         ShowSession, IssueSas, SasFails, ReadTotal, RefuseFile, AppendFile, LookAtStatus,
         StartUploading, BeginPreflight, Summarize, EndPreflight, LookAtSession, MarkConfirmed,
         BuildMessage, Publish, PublishFails, Restart, vars
<1> QED BY <1>1, <1>2 DEF Labels

LEMMA AlwaysLabelled == Spec => []Labels
<1>1. Init => Labels
  BY DEF Init, Labels
<1> QED BY <1>1, LabelsKept, PTL DEF Spec

\* The state of the session and of its requests always has its types, and only
\* the files of registrations are in it.
THEOREM UploadTypes == Spec => []TypeOK
<1>1. IInv /\ Labels => TypeOK
  <2> SUFFICES ASSUME IInv, Labels PROVE TypeOK
    OBVIOUS
  <2>1. preflight \in Summary \cup {None}
    BY Summarized DEF Labels
  <2>2. files \subseteq {q \in Request : request[q].kind = "register"}
    BY DEF IInv, Typed, Filed
  <2> QED BY <2>1, <2>2 DEF IInv, Typed, Labels, TypeOK
<1> QED BY <1>1, UploadInvariant, AlwaysLabelled, PTL

\* A user who waits for each answer cannot exceed the size of a session, whatever
\* else its threads do between the check and the append (api.py).
THEOREM UploadFilesFit == Spec => []AnsweredFilesFit
<1>1. IInv => AnsweredFilesFit
  BY DEF IInv
<1> QED BY <1>1, UploadInvariant, PTL

\* A preflight that does not advise a manual review has recognised an albaran or a
\* store, for any catalogue and any scan (preflight.py).
THEOREM UploadAdviceIsCautious == Spec => []AdviceIsCautious
<1>1. Labels => AdviceIsCautious
  BY Summarized DEF Labels, AdviceIsCautious
<1> QED BY <1>1, AlwaysLabelled, PTL
=============================================================================
