----------------------------- MODULE WebSession -----------------------------
(***************************************************************************)
(* The session of one browser at the upload web: a signed cookie with an   *)
(* expiry, the time of the last activity and a CSRF token.  The middleware *)
(* reads it when a request arrives and sets it again with the response, so *)
(* requests that overlap each work with the cookie they brought, and the   *)
(* response that comes last decides what the browser keeps.                *)
(***************************************************************************)
EXTENDS EasyAuth, Integers

CONSTANTS
  Request,          \* requests that can be under way at once
  Headers,          \* what Easy Auth can add for the people who sign in here
  SigningKey,       \* session_signing_key
  LeftOver,         \* cookies of another key, or of another version of the code
  IdleTimeout, AbsoluteTimeout,
  MaxTime, MaxTokens

Oid == {ResolveUser(h).oid : h \in {g \in Headers : ResolveUser(g) # None}}

Path == {"page", "post", "landing", "logout"}
Payload == [oid : Oid, exp : Nat, last : Nat, csrf : Nat]
Cookie == [key : {SigningKey}, payload : Payload]

ASSUME SessionAssumption ==
  /\ \A left \in LeftOver : \/ left.key # SigningKey
                            \/ ~({"oid", "exp", "last", "csrf"} \subseteq DOMAIN left.payload)
  /\ None \notin Oid \cup Nat \cup Headers
  /\ None \notin Payload /\ None \notin Cookie /\ None \notin Path
  /\ \A h \in Headers : ResolveUser(h) = None \/ ResolveUser(h).expiry \in Nat \cup {None}
  /\ IdleTimeout \in Nat /\ AbsoluteTimeout \in Nat
  /\ MaxTime \in Nat /\ MaxTokens \in Nat

VARIABLES
  clock,
  easyAuth,  \* the headers of the browser's requests; None when signed out
  cookie,    \* the session cookie of the browser: a payload and who signed it
  until,     \* when the browser drops it
  request,   \* requests under way
  form,      \* the CSRF token of the last page that was rendered
  tokens,    \* CSRF tokens made so far
  raced,     \* a token was made while another request was under way
  signedIn,  \* when a request last came with Easy Auth headers
  worked,    \* when a request for a protected path was last accepted
  revived    \* when, after that, one for an exempt path set the session again

vars == <<clock, easyAuth, cookie, until, request, form, tokens, raced, signedIn,
          worked, revived>>
history == <<signedIn, worked, revived>>

EXEMPT_PATHS == {"landing", "logout"}
IsExempt(path) == path \in EXEMPT_PATHS

\* A cookie that is not signed with the key, or lacks a field, is ignored.
Loads(signed) ==
  IF /\ signed # None
     /\ signed.key = SigningKey
     /\ {"oid", "exp", "last", "csrf"} \subseteq DOMAIN signed.payload
  THEN signed.payload ELSE None

Existing == Loads(cookie)
NotUnderWay == [path |-> None, payload |-> None]

Init ==
  /\ clock = 0 /\ easyAuth = None
  /\ cookie \in LeftOver \cup {None}
  /\ until = AbsoluteTimeout
  /\ request = [r \in Request |-> NotUnderWay]
  /\ form = None
  /\ tokens = 0 /\ raced = FALSE
  /\ signedIn = None /\ worked = None /\ revived = None

\* The browser drops a cookie max_age after it was set.
Tick ==
  /\ clock < MaxTime
  /\ clock' = clock + 1
  /\ IF cookie # None /\ clock' >= until THEN cookie' = None /\ form' = None
     ELSE UNCHANGED <<cookie, form>>
  /\ UNCHANGED <<easyAuth, until, request, tokens, raced, history>>

\* Somebody signs in at the platform, which lets a token run out by itself.
SignIn(h) ==
  /\ easyAuth' = h
  /\ UNCHANGED <<clock, cookie, until, request, form, tokens, raced, history>>

Requester == IF easyAuth = None THEN None ELSE ResolveUser(easyAuth)

Smaller(a, b) == IF a < b THEN a ELSE b

IsExpired(payload) == clock >= payload.exp
IsIdle(payload) == clock - payload.last > IdleTimeout

\* Mutant of BuildPayload: a token of its own for every request.
BuildPayloadAnew(user) ==
  [oid |-> user.oid,
   exp |-> Smaller(Or(user.expiry, clock + AbsoluteTimeout), clock + AbsoluteTimeout),
   last |-> clock, csrf |-> tokens]

\* Mutant of BuildPayload: a token without an expiry gives a session without one.
BuildPayloadUnlimited(user) ==
  [oid |-> user.oid, exp |-> user.expiry, last |-> clock, csrf |-> tokens]

KeepsToken(user) == Existing # None /\ Existing.oid = user.oid

BuildPayload(user) ==
  [oid |-> user.oid,
   exp |-> Smaller(Or(user.expiry, clock + AbsoluteTimeout), clock + AbsoluteTimeout),
   last |-> clock,
   csrf |-> IF KeepsToken(user) THEN Existing.csrf ELSE tokens]

\* Mutant of Refreshed: activity prolongs the session.
RefreshedForLonger == [Existing EXCEPT !.last = clock, !.exp = clock + AbsoluteTimeout]

Refreshed == [Existing EXCEPT !.last = clock]

Resolved == IF Requester # None THEN BuildPayload(Requester)
            ELSE IF Existing # None THEN Refreshed ELSE None

\* Mutant of SentAway: the idle time is not looked at.
SentAwayWhenExpired(path) ==
  \/ Existing # None /\ IsExpired(Existing)
  \/ Requester # None /\ Requester.expiry # None /\ clock >= Requester.expiry

\* Redirected to /logout, which like every path does not escape the first test.
SentAway(path) ==
  \/ Existing # None /\ IsExpired(Existing)
  \/ Existing # None /\ ~IsExempt(path) /\ IsIdle(Existing)
  \/ Requester # None /\ Requester.expiry # None /\ clock >= Requester.expiry

\* The browser posts the form it has.
Refused(path) == path = "post" /\ Resolved # None /\ form # Resolved.csrf

\* get_upload_current_user asks the headers again, which name nobody then either.
HasUser(path) == Resolved # None \/ IsExempt(path)

\* dispatch up to call_next.  A request that is sent away or refused changes
\* nothing, and a protected page without a user answers 401.
Arrive(r, path) ==
  /\ request[r] = NotUnderWay
  /\ ~SentAway(path) /\ ~Refused(path)
  /\ HasUser(path)
  /\ request' = [request EXCEPT ![r] = [path |-> path, payload |-> Resolved]]
  /\ IF Requester # None /\ ~KeepsToken(Requester)
     THEN /\ tokens < MaxTokens
          /\ tokens' = tokens + 1
          /\ raced' = (raced \/ \E q \in Request : request[q] # NotUnderWay)
     ELSE UNCHANGED <<tokens, raced>>
  /\ signedIn' = IF Requester # None THEN clock ELSE signedIn
  /\ IF Resolved = None THEN UNCHANGED <<worked, revived>>
     ELSE IF IsExempt(path) THEN revived' = clock /\ UNCHANGED worked
     ELSE worked' = clock /\ revived' = None
  /\ UNCHANGED <<clock, easyAuth, cookie, until, form>>

SetCookie(payload) ==
  cookie' = [key |-> SigningKey, payload |-> payload] /\ until' = clock + AbsoluteTimeout
DeleteCookie == cookie' = None /\ UNCHANGED until

\* The browser follows the redirect of /logout, and Easy Auth signs out.
Redirect(path) == easyAuth' = IF path = "logout" THEN None ELSE easyAuth

\* A page carries the token of its request.
Rendered(path, payload) ==
  form' = IF path = "page" THEN payload.csrf
          ELSE IF None \in {Existing, Existing'} \/ Existing'.oid # Existing.oid THEN None
          ELSE form

\* The response.  logout deletes the cookie, and the middleware, which comes
\* after it, sets it again if the request had a user.
Respond(r) ==
  /\ request[r] # NotUnderWay
  /\ LET path == request[r].path
         payload == request[r].payload
     IN  /\ IF payload # None THEN SetCookie(payload)
            ELSE IF path = "logout" THEN DeleteCookie
            ELSE UNCHANGED <<cookie, until>>
         /\ Rendered(path, payload)
         /\ Redirect(path)
  /\ request' = [request EXCEPT ![r] = NotUnderWay]
  /\ UNCHANGED <<clock, tokens, raced, history>>

Next ==
  \/ Tick
  \/ \E h \in Headers : SignIn(h)
  \/ \E r \in Request : Respond(r) \/ \E path \in Path : Arrive(r, path)

Spec == Init /\ [][Next]_vars

-----------------------------------------------------------------------------
(* Properties.                                                             *)

Carried == {request[r].payload : r \in Request} \cup {Existing}

TypeOK ==
  /\ clock \in 0..MaxTime
  /\ easyAuth \in Headers \cup {None}
  /\ Carried \subseteq Payload \cup {None}
  /\ \A r \in Request : request[r].path \in Path \cup {None}
  /\ form \in 0..tokens \cup {None} /\ tokens \in 0..MaxTokens /\ raced \in BOOLEAN
  /\ {signedIn, worked, revived} \subseteq 0..clock \cup {None}

\* Activity does not prolong a session: no cookie, in the browser or on its
\* way there, is good for longer than the absolute timeout after a request for
\* which Easy Auth vouched.
SessionIsBounded ==
  \A payload \in Carried \ {None} : payload.exp <= signedIn + AbsoluteTimeout

\* A protected page is served to a browser that has a session only within the
\* idle timeout of its last work there, in whatever order responses came back,
\* or of a request for /logout or the landing page.  The code does not promise
\* the first alone: these paths are not tested for idleness, they set the
\* session again, and /logout is where an idle browser is sent.
IdleIsNoticed ==
  [][\A r \in Request :
       request[r] = NotUnderWay /\ request'[r].path \in Path \ EXEMPT_PATHS /\ Existing # None
         => \E t \in {worked, revived} \ {None} : clock - t <= IdleTimeout]_vars

\* The form of the last page stays valid for as long as the browser keeps a
\* session of the same user, unless two requests were under way while the
\* session began: each of them then made a token.
FormsStayValid ==
  form # None /\ ~raced => Existing # None /\ Existing.csrf = form
=============================================================================
