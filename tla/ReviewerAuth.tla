---------------------------- MODULE ReviewerAuth ----------------------------
(***************************************************************************)
(* Whom the HITL web form lets decide: validate_entra_token.  A request    *)
(* header is a record with a scheme and a token, or an empty record when   *)
(* there is none.  A token is a record of the claims it carries, besides   *)
(* whether its signature is right; "address" is there when it is an        *)
(* e-mail address in the clear.  Claims are given trimmed and case-folded, *)
(* an instant as "past" or "future".                                       *)
(***************************************************************************)
CONSTANTS
  Issuer, Audience,  \* of the tokens of the tenant for this application
  ReviewerRole,      \* reviewer_role
  AllowLocalEmail    \* allow_local_email_bearer, for development

Gives(r, field) == field \in DOMAIN r

NoHeader == [f \in {} |-> f]

\* extract_bearer_token.
HasBearer(header) ==
  Gives(header, "scheme") /\ header.scheme = "bearer" /\ Gives(header, "token")

\* jwt.decode: signature, the claims it requires, times, issuer and audience.
Decodes(token) ==
  /\ Gives(token, "signed") /\ token.signed
  /\ {"exp", "iat", "nbf", "aud", "iss", "sub"} \subseteq DOMAIN token
  /\ token.exp = "future" /\ token.nbf = "past" /\ token.iat = "past"
  /\ token.iss = Issuer /\ Audience \in token.aud

\* _resolve_email raises unless one of the three claims is a string.
HasEmail(token) == {"preferred_username", "email", "upn"} \cap DOMAIN token # {}

\* _coerce_roles: the claim may be missing; "invalid" is neither text nor list.
RolesAreValid(token) == Gives(token, "roles") => token.roles # {"invalid"}
Roles(token) == IF Gives(token, "roles") THEN token.roles ELSE {}

RequireRole(token) == ReviewerRole \in Roles(token)

\* EntraTokenValidator.validate_token.
Validates(token) == Decodes(token) /\ HasEmail(token) /\ RolesAreValid(token)

\* validate_entra_token returns a reviewer, and does not answer 401 or 403.
IsReviewer(header) ==
  /\ HasBearer(header)
  /\ \/ AllowLocalEmail /\ Gives(header.token, "address")
     \/ Validates(header.token) /\ RequireRole(header.token)
=============================================================================
