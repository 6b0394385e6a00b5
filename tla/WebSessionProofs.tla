-------------------------- MODULE WebSessionProofs --------------------------
(***************************************************************************)
(* The session of the upload web for every timeout, every set of people    *)
(* who sign in and every number of requests that overlap: cookies are well *)
(* formed, activity does not prolong a session, an idle one is noticed,    *)
(* and the form of the last page stays valid.  The invariant behind it     *)
(* says of every payload, in the browser or on its way there, that it is   *)
(* no older than what the history variables remember of Easy Auth and of   *)
(* accepted requests, and, as long as no token was made in a race, that    *)
(* payloads of one user have one token.                                    *)
(***************************************************************************)
EXTENDS WebSession, TLAPS

RequestState == [path : Path \cup {None}, payload : Payload \cup {None}]

Typed ==
  /\ clock \in 0..MaxTime
  /\ easyAuth \in Headers \cup {None}
  /\ cookie \in LeftOver \cup {None} \cup Cookie
  /\ request \in [Request -> RequestState]
  /\ form \in 0..tokens \cup {None} /\ tokens \in 0..MaxTokens /\ raced \in BOOLEAN
  /\ {signedIn, worked, revived} \subseteq 0..clock \cup {None}

\* A payload that is backed by what is remembered of Easy Auth and of requests.
Backed(p) ==
  /\ p \in Payload
  /\ signedIn # None /\ p.exp <= signedIn + AbsoluteTimeout
  /\ \E t \in {worked, revived} \ {None} : p.last <= t
  /\ p.csrf <= tokens

AllBacked == \A p \in Carried : p # None => Backed(p)

PagesHaveUsers ==
  \A r \in Request : request[r].path \in Path \ EXEMPT_PATHS => request[r].payload # None

OneToken ==
  ~raced => \A p, q \in Carried : p # None /\ q # None /\ p.oid = q.oid => p.csrf = q.csrf

IInv == Typed /\ AllBacked /\ PagesHaveUsers /\ OneToken /\ FormsStayValid

USE SessionAssumption

-----------------------------------------------------------------------------
(* Cookies and payloads.                                                   *)

LEMMA ForeignCookies ==
  /\ Loads(None) = None
  /\ \A left \in LeftOver : Loads(left) = None
  BY DEF Loads

LEMMA OwnCookies ==
  ASSUME NEW p \in Payload
  PROVE  /\ [key |-> SigningKey, payload |-> p] \in Cookie
         /\ Loads([key |-> SigningKey, payload |-> p]) = p
<1> DEFINE c == [key |-> SigningKey, payload |-> p]
<1>1. c \in Cookie
  BY DEF Cookie
<1>2. c # None
  BY <1>1
<1>3. {"oid", "exp", "last", "csrf"} \subseteq DOMAIN p
  BY DEF Payload
<1> QED
  BY <1>1, <1>2, <1>3 DEF Loads

LEMMA ExistingTyped ==
  ASSUME cookie \in LeftOver \cup {None} \cup Cookie
  PROVE  Existing \in Payload \cup {None}
<1>1. CASE cookie \in LeftOver \cup {None}
  BY <1>1, ForeignCookies DEF Existing
<1>2. CASE cookie \in Cookie
  <2>1. PICK p \in Payload : cookie = [key |-> SigningKey, payload |-> p]
    BY <1>2 DEF Cookie
  <2> QED
    BY <2>1, OwnCookies DEF Existing
<1> QED
  BY <1>1, <1>2

\* A request that has a user gets a payload that is backed, and its token is new
\* or that of the cookie.
LEMMA BuiltPayload ==
  ASSUME Typed, AllBacked, Requester # None
  PROVE  /\ BuildPayload(Requester) \in Payload
         /\ BuildPayload(Requester).exp <= clock + AbsoluteTimeout
         /\ BuildPayload(Requester).last = clock
         /\ BuildPayload(Requester).csrf <= tokens
         /\ BuildPayload(Requester).oid = Requester.oid
         /\ KeepsToken(Requester) => BuildPayload(Requester).csrf = Existing.csrf
         /\ ~KeepsToken(Requester) => BuildPayload(Requester).csrf = tokens
<1>1. /\ easyAuth \in Headers /\ Requester = ResolveUser(easyAuth)
      /\ Requester.oid \in Oid /\ Requester.expiry \in Nat \cup {None}
  BY DEF Typed, Requester, Oid
<1>2. clock \in Nat /\ AbsoluteTimeout \in Nat /\ tokens \in Nat
  BY DEF Typed
<1>3. Smaller(Or(Requester.expiry, clock + AbsoluteTimeout), clock + AbsoluteTimeout) \in Nat
  BY <1>1, <1>2 DEF Smaller, Or
<1>4. Smaller(Or(Requester.expiry, clock + AbsoluteTimeout), clock + AbsoluteTimeout)
        <= clock + AbsoluteTimeout
  BY <1>1, <1>2 DEF Smaller, Or
<1>5. KeepsToken(Requester) => Existing.csrf \in Nat /\ Existing.csrf <= tokens
  BY <1>2 DEF AllBacked, Backed, Carried, KeepsToken, Payload
<1> QED
  BY <1>1, <1>2, <1>3, <1>4, <1>5 DEF BuildPayload, Payload

LEMMA TimeSet ==
  ASSUME NEW p \in Payload, NEW t \in Nat
  PROVE  LET q == [p EXCEPT !.last = t]
         IN  /\ q \in Payload /\ q.last = t
             /\ q.oid = p.oid /\ q.exp = p.exp /\ q.csrf = p.csrf
  BY DEF Payload

LEMMA RefreshedPayload ==
  ASSUME Typed, AllBacked, Existing # None
  PROVE  /\ Refreshed \in Payload
         /\ Refreshed.oid = Existing.oid /\ Refreshed.exp = Existing.exp
         /\ Refreshed.csrf = Existing.csrf /\ Refreshed.last = clock
<1>1. Existing \in Payload /\ clock \in Nat
  BY DEF Typed, AllBacked, Backed, Carried
<1>2. PICK p \in Payload : p = Existing
  BY <1>1
<1>3. Refreshed = [p EXCEPT !.last = clock]
  BY <1>2 DEF Refreshed
<1> QED
  BY <1>1, <1>2, <1>3, TimeSet

-----------------------------------------------------------------------------
(* The invariant is inductive.                                             *)

LEMMA InitIInv == Init => IInv
<1> SUFFICES ASSUME Init PROVE IInv
  OBVIOUS
<1>1. Existing = None
  BY ForeignCookies DEF Init, Existing
<1>2. \A r \in Request : request[r] = NotUnderWay
  BY DEF Init
<1>3. \A p \in Carried : p = None
  BY <1>1, <1>2 DEF Carried, NotUnderWay
<1>4. Typed
  <2>1. NotUnderWay \in RequestState
    BY DEF NotUnderWay, RequestState
  <2>2. request \in [Request -> RequestState]
    BY <2>1 DEF Init
  <2>3. cookie \in LeftOver \cup {None} \cup Cookie
    BY DEF Init
  <2>4. raced \in BOOLEAN
    BY DEF Init
  <2>5. /\ clock \in 0..MaxTime /\ form \in 0..tokens \cup {None} /\ tokens \in 0..MaxTokens
        /\ {signedIn, worked, revived} \subseteq 0..clock \cup {None}
    BY DEF Init
  <2> QED
    BY <2>2, <2>3, <2>4, <2>5 DEF Init, Typed
<1>5. PagesHaveUsers
  BY <1>2 DEF PagesHaveUsers, NotUnderWay
<1> QED
  BY <1>3, <1>4, <1>5 DEF Init, IInv, AllBacked, OneToken, FormsStayValid

\* A step that brings no payload in and forgets nothing keeps payloads backed.
LEMMA StillBacked ==
  ASSUME AllBacked, Carried' \subseteq Carried \cup {None},
         UNCHANGED <<history, tokens>>
  PROVE  AllBacked'
  BY DEF AllBacked, Backed, history

LEMMA StillOneToken ==
  ASSUME OneToken, Carried' \subseteq Carried \cup {None}, UNCHANGED raced
  PROVE  OneToken'
  BY DEF OneToken

LEMMA TickKeeps ==
  ASSUME IInv, Tick
  PROVE  IInv'
<1>1. \/ cookie' = None /\ form' = None
      \/ UNCHANGED <<cookie, form>>
  BY DEF Tick
<1>2. Existing' \in {Existing, None}
  BY <1>1, ForeignCookies DEF Existing
<1>3. Carried' \subseteq Carried \cup {None}
  BY <1>2 DEF Carried, Tick
<1>4. Typed'
  BY <1>1 DEF IInv, Typed, Tick, history
<1>5. AllBacked' /\ OneToken'
  BY <1>3, StillBacked, StillOneToken DEF IInv, Tick, history
<1>6. PagesHaveUsers'
  BY DEF IInv, PagesHaveUsers, Tick
<1>7. FormsStayValid'
  BY <1>1 DEF IInv, FormsStayValid, Tick, Existing
<1> QED
  BY <1>4, <1>5, <1>6, <1>7 DEF IInv

LEMMA SignInKeeps ==
  ASSUME IInv, NEW h \in Headers, SignIn(h)
  PROVE  IInv'
<1>1. Existing' = Existing
  BY DEF SignIn, Existing
<1>2. Carried' \subseteq Carried \cup {None}
  BY <1>1 DEF Carried, SignIn
<1>3. Typed'
  BY DEF IInv, Typed, SignIn, history
<1>4. AllBacked' /\ OneToken'
  BY <1>2, StillBacked, StillOneToken DEF IInv, SignIn, history
<1>5. PagesHaveUsers' /\ FormsStayValid'
  BY <1>1 DEF IInv, PagesHaveUsers, FormsStayValid, SignIn
<1> QED
  BY <1>3, <1>4, <1>5 DEF IInv

\* What was carried and the payload of a request that arrives are backed by what
\* is remembered then.
LEMMA ArrivingPayload ==
  ASSUME IInv, NEW r \in Request, NEW path \in Path, Arrive(r, path)
  PROVE  \A p \in Carried \cup {Resolved} : p # None => Backed(p)'
<1>1. clock \in Nat /\ tokens \in Nat /\ AbsoluteTimeout \in Nat
      /\ {signedIn, worked, revived} \subseteq 0..clock \cup {None}
  BY DEF IInv, Typed
<1>2. tokens <= tokens' /\ tokens' \in Nat
  BY <1>1 DEF Arrive
<1>3. \A p \in Carried : p # None => Backed(p)'
  <2> SUFFICES ASSUME NEW p \in Carried, p # None PROVE Backed(p)'
    OBVIOUS
  <2>1. Backed(p)
    BY DEF IInv, AllBacked
  <2>2. signedIn' # None /\ signedIn \in 0..clock /\ signedIn <= signedIn' /\ signedIn' \in Nat
    BY <1>1, <2>1 DEF Backed, Arrive
  <2>3. p.exp \in Nat /\ p.last \in Nat /\ p.csrf \in Nat
    BY <2>1 DEF Backed, Payload
  <2>4. PICK t \in {worked, revived} \ {None} : p.last <= t
    BY <2>1 DEF Backed
  <2>5. t \in 0..clock /\ p.last <= clock
    BY <1>1, <2>3, <2>4
  <2>6. t \in {worked', revived'} \/ clock \in {worked', revived'}
    BY <2>4 DEF Arrive
  <2>7. \E u \in {worked', revived'} \ {None} : p.last <= u
    BY <1>1, <2>4, <2>5, <2>6
  <2>8. p \in Payload /\ signedIn' # None /\ p.exp <= signedIn' + AbsoluteTimeout /\ p.csrf <= tokens'
    BY <1>1, <1>2, <2>1, <2>2, <2>3 DEF Backed
  <2> QED
    BY <2>7, <2>8 DEF Backed
<1>4. ASSUME NEW p, p = Resolved, p # None PROVE Backed(p)'
  <2>1. CASE Requester # None
    <3>1. p = BuildPayload(Requester) /\ signedIn' = clock /\ clock \in {worked', revived'}
      BY <1>4, <2>1 DEF Resolved, Arrive
    <3>2. p \in Payload /\ p.exp <= clock + AbsoluteTimeout /\ p.last = clock /\ p.csrf <= tokens
      BY <2>1, <3>1, BuiltPayload DEF IInv
    <3>3. p.csrf \in Nat
      BY <3>2 DEF Payload
    <3>4. p.csrf <= tokens'
      BY <1>1, <1>2, <3>2, <3>3
    <3> QED
      BY <1>1, <3>1, <3>2, <3>4 DEF Backed
  <2>2. CASE Requester = None
    <3>1. p = Refreshed /\ Existing # None /\ clock \in {worked', revived'}
      BY <1>4, <2>2 DEF Resolved, Arrive
    <3>2. PICK e : e = Existing
      OBVIOUS
    <3>3. p \in Payload /\ p.exp = e.exp /\ p.csrf = e.csrf /\ p.last = clock
      BY <3>1, <3>2, RefreshedPayload DEF IInv
    <3>4. Backed(e)'
      BY <1>3, <3>1, <3>2 DEF Carried
    <3> QED
      BY <1>1, <3>1, <3>3, <3>4 DEF Backed
  <2> QED
    BY <2>1, <2>2
<1> QED
  BY <1>3, <1>4

\* A request that arrives puts one payload more under way.
LEMMA ArrivingCarried ==
  ASSUME IInv, NEW r \in Request, NEW path \in Path, Arrive(r, path)
  PROVE  /\ Existing' = Existing
         /\ Carried' \subseteq Carried \cup {Resolved}
         /\ request' \in [Request -> [path : Path \cup {None}, payload : {None, Resolved} \cup Carried]]
         /\ request'[r].path = path /\ request'[r].payload = Resolved
         /\ \A q \in Request \ {r} : request'[q] = request[q]
<1>1. request \in [Request -> RequestState]
  BY DEF IInv, Typed
<1>2. request' = [request EXCEPT ![r] = [path |-> path, payload |-> Resolved]]
  BY DEF Arrive
<1>3. Existing' = Existing
  BY DEF Arrive, Existing
<1>4. /\ request'[r].path = path /\ request'[r].payload = Resolved
      /\ \A q \in Request \ {r} : request'[q] = request[q]
  BY <1>1, <1>2
<1>5. Carried' \subseteq Carried \cup {Resolved}
  BY <1>3, <1>4 DEF Carried
<1>6. \A q \in Request : request[q] \in [path : Path \cup {None}, payload : Carried]
  BY <1>1 DEF RequestState, Carried
<1>7. request' \in [Request -> [path : Path \cup {None}, payload : {None, Resolved} \cup Carried]]
  BY <1>1, <1>2, <1>6
<1> QED
  BY <1>3, <1>4, <1>5, <1>7

LEMMA ArriveKeeps ==
  ASSUME IInv, NEW r \in Request, NEW path \in Path, Arrive(r, path)
  PROVE  IInv'
<1>1. AllBacked'
  BY ArrivingPayload, ArrivingCarried DEF AllBacked
<1>2. Typed'
  <2>1. Resolved \in Payload \cup {None} /\ Carried \subseteq Payload \cup {None}
    BY ArrivingPayload DEF Backed
  <2>2. request' \in [Request -> RequestState]
    <3>1. \A q \in Request : request'[q] \in RequestState
      BY <2>1, ArrivingCarried DEF RequestState
    <3> QED
      BY <3>1, ArrivingCarried
  <2>3. clock \in 0..MaxTime /\ tokens \in 0..MaxTokens
    BY DEF IInv, Typed
  <2>4. tokens' \in 0..MaxTokens /\ tokens <= tokens' /\ form' = form
    BY <2>3 DEF Arrive
  <2>7. raced' \in BOOLEAN
    BY Zenon DEF Arrive, IInv, Typed
  <2>5. form' \in 0..tokens' \cup {None}
    BY <2>3, <2>4 DEF IInv, Typed
  <2>6. {signedIn', worked', revived'} \subseteq 0..clock \cup {None}
    BY <2>3 DEF Arrive, IInv, Typed
  <2> QED
    BY <2>2, <2>3, <2>4, <2>5, <2>6, <2>7 DEF Arrive, IInv, Typed
<1>3. PagesHaveUsers'
  <2>1. path \in EXEMPT_PATHS \/ Resolved # None
    BY DEF Arrive, HasUser, IsExempt
  <2> QED
    BY <2>1, ArrivingCarried DEF PagesHaveUsers, IInv
<1>4. OneToken'
  <2> SUFFICES ASSUME ~raced', NEW p \in Carried', NEW q \in Carried',
                      p # None, q # None, p.oid = q.oid
               PROVE  p.csrf = q.csrf
    BY DEF OneToken
  <2>1. ~raced
    BY DEF Arrive
  <2>2. p \in Carried \cup {Resolved} /\ q \in Carried \cup {Resolved}
    BY ArrivingCarried
  <2>3. ASSUME NEW x \in Carried, x # None, NEW y, y = Resolved, y # None, x.oid = y.oid
        PROVE  x.csrf = y.csrf
    <3>1. CASE Requester # None /\ ~KeepsToken(Requester)
      <4>1. \A s \in Request : request[s] = NotUnderWay
        BY <3>1 DEF Arrive
      <4>2. x = Existing
        BY <2>3, <4>1 DEF Carried, NotUnderWay
      <4>3. y.oid = Requester.oid
        BY <2>3, <3>1, BuiltPayload DEF Resolved, IInv
      <4> QED
        BY <2>3, <3>1, <4>2, <4>3 DEF KeepsToken
    <3>2. CASE Requester # None /\ KeepsToken(Requester)
      <4>1. PICK e : e = Existing
        OBVIOUS
      <4>2. y.oid = e.oid /\ y.csrf = e.csrf /\ e # None /\ e \in Carried
        BY <2>3, <3>2, <4>1, BuiltPayload DEF Resolved, IInv, KeepsToken, Carried
      <4> QED
        BY <2>1, <2>3, <4>2 DEF IInv, OneToken
    <3>3. CASE Requester = None
      <4>1. PICK e : e = Existing
        OBVIOUS
      <4>2. y.oid = e.oid /\ y.csrf = e.csrf /\ e # None /\ e \in Carried
        BY <2>3, <3>3, <4>1, RefreshedPayload DEF Resolved, IInv, Carried
      <4> QED
        BY <2>1, <2>3, <4>2 DEF IInv, OneToken
    <3> QED
      BY <3>1, <3>2, <3>3
  <2>4. CASE p \in Carried /\ q \in Carried
    BY <2>1, <2>4 DEF IInv, OneToken
  <2>5. CASE p = Resolved /\ q = Resolved
    BY <2>5
  <2>6. CASE p \in Carried /\ q = Resolved
    BY <2>3, <2>6
  <2>7. CASE p = Resolved /\ q \in Carried
    BY <2>3, <2>7
  <2> QED
    BY <2>2, <2>4, <2>5, <2>6, <2>7
<1>5. FormsStayValid'
  BY ArrivingCarried DEF Arrive, IInv, FormsStayValid
<1> QED
  BY <1>1, <1>2, <1>3, <1>4, <1>5 DEF IInv

\* The response of a request with a user leaves its payload in the browser, any
\* other one leaves what was there or nothing.
LEMMA RespondingCarried ==
  ASSUME IInv, NEW r \in Request, Respond(r)
  PROVE  /\ request' \in [Request -> RequestState]
         /\ \A q \in Request : request'[q] \in {request[q], NotUnderWay}
         /\ Existing' = IF request[r].payload # None THEN request[r].payload
                        ELSE IF request[r].path = "logout" THEN None ELSE Existing
         /\ cookie' \in LeftOver \cup {None} \cup Cookie
         /\ Carried' \subseteq Carried \cup {None}
<1>1. request \in [Request -> RequestState] /\ request[r] \in RequestState
  BY DEF IInv, Typed
<1>2. request' = [request EXCEPT ![r] = NotUnderWay] /\ NotUnderWay \in RequestState
  BY DEF Respond, NotUnderWay, RequestState
<1>3. request' \in [Request -> RequestState]
  BY <1>1, <1>2
<1>4. \A q \in Request : request'[q] \in {request[q], NotUnderWay}
  BY <1>1, <1>2
<1>5. request[r].payload \in Payload \cup {None}
  BY <1>1 DEF RequestState
<1>6. cookie \in LeftOver \cup {None} \cup Cookie
  BY DEF IInv, Typed
<1>7. /\ Existing' = IF request[r].payload # None THEN request[r].payload
                     ELSE IF request[r].path = "logout" THEN None ELSE Existing
      /\ cookie' \in LeftOver \cup {None} \cup Cookie
  <2>1. CASE request[r].payload # None
    <3>1. PICK p \in Payload : p = request[r].payload
      BY <1>5, <2>1
    <3>2. cookie' = [key |-> SigningKey, payload |-> p]
      BY <2>1, <3>1 DEF Respond, SetCookie
    <3> QED
      BY <2>1, <3>1, <3>2, OwnCookies DEF Existing
  <2>2. CASE request[r].payload = None /\ request[r].path = "logout"
    <3>1. cookie' = None
      BY <2>2 DEF Respond, DeleteCookie
    <3> QED
      BY <2>2, <3>1, ForeignCookies DEF Existing
  <2>3. CASE request[r].payload = None /\ request[r].path # "logout"
    <3>1. cookie' = cookie
      BY <2>3 DEF Respond
    <3> QED
      BY <1>6, <2>3, <3>1 DEF Existing
  <2> QED
    BY <2>1, <2>2, <2>3
<1>8. Carried' \subseteq Carried \cup {None}
  <2>1. Existing' \in Carried \cup {None}
    BY <1>7 DEF Carried
  <2>2. \A q \in Request : request'[q].payload \in Carried \cup {None}
    BY <1>4 DEF Carried, NotUnderWay
  <2> QED
    BY <2>1, <2>2 DEF Carried
<1> QED
  BY <1>3, <1>4, <1>7, <1>8

LEMMA RespondKeeps ==
  ASSUME IInv, NEW r \in Request, Respond(r)
  PROVE  IInv'
<1>1. AllBacked' /\ OneToken'
  BY RespondingCarried, StillBacked, StillOneToken DEF IInv, Respond
<1>2. PagesHaveUsers'
  <2>1. NotUnderWay.path \notin Path
    BY DEF NotUnderWay
  <2> QED
    BY <2>1, RespondingCarried DEF IInv, PagesHaveUsers
<1>3. ASSUME request[r].path = "page"
      PROVE  form' \in 0..tokens \cup {None} /\ FormsStayValid'
  <2>1. request[r].payload # None
    BY <1>3 DEF IInv, PagesHaveUsers, Path, EXEMPT_PATHS
  <2>2. form' = request[r].payload.csrf
    BY <1>3 DEF Respond, Rendered
  <2>3. Existing' # None /\ Existing' = request[r].payload
    BY <2>1, RespondingCarried
  <2>4. form' \in 0..tokens
    BY <2>1, <2>2 DEF IInv, AllBacked, Backed, Carried, Payload
  <2>5. FormsStayValid'
    BY <2>2, <2>3 DEF FormsStayValid
  <2> QED
    BY <2>4, <2>5
<1>4. ASSUME request[r].path # "page"
      PROVE  form' \in 0..tokens \cup {None} /\ FormsStayValid'
  <2>1. form' \in {None, form}
    BY <1>4 DEF Respond, Rendered
  <2>2. form' # None => /\ form' = form /\ Existing # None /\ Existing' # None
                        /\ Existing'.oid = Existing.oid
    BY <1>4 DEF Respond, Rendered
  <2>3. FormsStayValid'
    <3> SUFFICES ASSUME form' # None, ~raced PROVE Existing' # None /\ Existing'.csrf = form'
      BY DEF FormsStayValid, Respond
    <3>1. Existing.csrf = form
      BY <2>2 DEF IInv, FormsStayValid
    <3>2. PICK e : e = Existing'
      OBVIOUS
    <3>3. e \in Carried /\ Existing \in Carried
      BY <2>2, <3>2, RespondingCarried DEF Carried
    <3>4. e.csrf = Existing.csrf
      BY <2>2, <3>2, <3>3 DEF IInv, OneToken
    <3> QED
      BY <2>2, <3>1, <3>2, <3>4
  <2>4. form' \in 0..tokens \cup {None}
    BY <2>1 DEF IInv, Typed
  <2> QED
    BY <2>3, <2>4
<1>5. form' \in 0..tokens \cup {None} /\ FormsStayValid'
  BY <1>3, <1>4
<1>6. easyAuth' \in Headers \cup {None}
  BY DEF IInv, Typed, Respond, Redirect
<1>7. Typed'
  <2>1. raced' \in BOOLEAN
    BY DEF IInv, Typed, Respond
  <2>2. /\ clock' = clock /\ tokens' = tokens
        /\ signedIn' = signedIn /\ worked' = worked /\ revived' = revived
    BY DEF Respond, history
  <2> QED
    BY <1>5, <1>6, <2>1, <2>2, RespondingCarried DEF IInv, Typed
<1> QED
  BY <1>1, <1>2, <1>5, <1>7 DEF IInv

LEMMA NextKeeps == IInv /\ [Next]_vars => IInv'
<1> SUFFICES ASSUME IInv, [Next]_vars PROVE IInv'
  OBVIOUS
<1>1. CASE Tick
  BY <1>1, TickKeeps
<1>2. ASSUME NEW h \in Headers, SignIn(h) PROVE IInv'
  BY <1>2, SignInKeeps
<1>3. ASSUME NEW r \in Request, Respond(r) PROVE IInv'
  BY <1>3, RespondKeeps
<1>4. ASSUME NEW r \in Request, NEW path \in Path, Arrive(r, path) PROVE IInv'
  BY <1>4, ArriveKeeps
<1>5. CASE UNCHANGED vars
  BY <1>5 DEF vars, IInv, Typed, AllBacked, Backed, PagesHaveUsers, OneToken, FormsStayValid,
              Carried, Existing
<1> QED
  BY <1>1, <1>2, <1>3, <1>4, <1>5 DEF Next

THEOREM Invariant == Spec => []IInv
  BY InitIInv, NextKeeps, PTL DEF Spec

-----------------------------------------------------------------------------
(* The properties.                                                         *)

\* Cookies, requests and history variables stay well formed (session_security.py).
THEOREM Types == Spec => []TypeOK
<1>1. IInv => TypeOK
  <2> SUFFICES ASSUME IInv PROVE TypeOK
    OBVIOUS
  <2>1. Carried \subseteq Payload \cup {None}
    BY DEF IInv, AllBacked, Backed
  <2>2. \A r \in Request : request[r].path \in Path \cup {None}
    BY DEF IInv, Typed, RequestState
  <2> QED
    BY <2>1, <2>2 DEF IInv, Typed, TypeOK
<1> QED
  BY <1>1, Invariant, PTL

\* No cookie, in the browser or on its way there, is good for longer than the
\* absolute timeout after a request for which Easy Auth vouched.
THEOREM Bounded == Spec => []SessionIsBounded
<1>1. IInv => SessionIsBounded
  BY DEF IInv, AllBacked, Backed, SessionIsBounded
<1> QED
  BY <1>1, Invariant, PTL

\* The form of the last page stays valid unless a token was made in a race.
THEOREM FormsValid == Spec => []FormsStayValid
<1>1. IInv => FormsStayValid
  BY DEF IInv
<1> QED
  BY <1>1, Invariant, PTL

\* A protected page is served to a browser with a session only within the idle
\* timeout of its last work, or of a request for an exempt path that set the
\* session again, however late and in whatever order the responses came back.
THEOREM IdleNoticed == Spec => IdleIsNoticed
<1> DEFINE Recently == \E t \in {worked, revived} \ {None} : clock - t <= IdleTimeout
           Noticed ==
      \A r \in Request :
        request[r] = NotUnderWay /\ request'[r].path \in Path \ EXEMPT_PATHS /\ Existing # None
          => Recently
<1>1. ASSUME IInv, [Next]_vars PROVE [Noticed]_vars
  <2> SUFFICES ASSUME NEW r \in Request, Next, request[r] = NotUnderWay,
                      request'[r].path \in Path \ EXEMPT_PATHS, Existing # None
               PROVE  Recently
    BY <1>1
  <2>1. NotUnderWay.path \notin Path
    BY DEF NotUnderWay
  <2>2. request'[r] # request[r]
    BY <2>1
  <2>3. PICK q \in Request : \/ Respond(q)
                            \/ \E path \in Path : Arrive(q, path)
    BY <2>2 DEF Next, Tick, SignIn
  <2>4. ~Respond(q)
    BY <1>1, <2>1, RespondingCarried
  <2>5. PICK path \in Path : Arrive(q, path)
    BY <2>3, <2>4
  <2>6. q = r /\ request'[r].path = path
    BY <1>1, <2>2, <2>5, ArrivingCarried
  <2>7. ~IsIdle(Existing)
    BY <2>5, <2>6 DEF Arrive, SentAway, IsExempt
  <2>8. PICK e : e = Existing
    OBVIOUS
  <2>9. e \in Payload /\ \E t \in {worked, revived} \ {None} : e.last <= t
    BY <1>1, <2>8 DEF IInv, AllBacked, Backed, Carried
  <2>10. PICK t \in {worked, revived} \ {None} : e.last <= t
    BY <2>9
  <2>11. clock \in Nat /\ t \in Nat /\ e.last \in Nat
    BY <1>1, <2>9 DEF IInv, Typed, Payload
  <2>12. clock - e.last <= IdleTimeout
    BY <2>7, <2>8, <2>11 DEF IsIdle
  <2> QED
    BY <2>10, <2>11, <2>12
<1> QED
  BY <1>1, Invariant, PTL DEF Spec, IdleIsNoticed
=============================================================================
