------------------------------ MODULE EasyAuth ------------------------------
(***************************************************************************)
(* Who a request comes from, by the headers the platform's Easy Auth adds: *)
(* a client principal (a list of claims), the id and the name of the       *)
(* principal, or an id token.  A header or a claim that is missing, blank  *)
(* or no string is None; what cannot be decoded, and a claim of a kind     *)
(* that is not understood, is Broken.  A user is its oid and the expiry of *)
(* its token.                                                              *)
(***************************************************************************)
EXTENDS Naturals, Sequences

CONSTANTS None, Broken

Or(value, default) == IF value = None THEN default ELSE value

\* CLIENT_PRINCIPAL_CLAIM_MAP: the long names come down to their last part.
NameOf == [type \in {"oid", "objectidentifier", "nameidentifier", "name", "upn", "email",
                     "emailaddress", "preferred_username", "groups", "roles", "role"} |->
             CASE type \in {"objectidentifier", "nameidentifier"} -> "oid"
               [] type = "emailaddress"                           -> "email"
               [] type \in {"roles", "role"}                      -> "groups"
               [] OTHER                                           -> type]

\* decode_client_principal_claims needs a list of claims.
Decodes(principal) == principal # Broken /\ principal.claims # Broken

\* A claim is a pair of a type and a value; a principal may say itself which type
\* is the name and which is a role.
IsGroup(principal, c) ==
  c[1] = principal.role_typ \/ (c[1] \in DOMAIN NameOf /\ NameOf[c[1]] = "groups")

IsClaim(principal, c, name) ==
  /\ None \notin {c[1], c[2]}
  /\ \/ name = "name" /\ c[1] = principal.name_typ
     \/ ~IsGroup(principal, c) /\ c[1] \in DOMAIN NameOf /\ NameOf[c[1]] = name

\* The first claim of a name counts.  exp is not among the names that are kept.
Claim(principal, name) ==
  LET found == SelectSeq(principal.claims, LAMBDA c : IsClaim(principal, c, name))
  IN  IF found = <<>> THEN None ELSE found[1][2]

Named(principal) ==
  \E n \in {"name", "preferred_username", "email", "upn"} : Claim(principal, n) # None

User(oid, named, expiry) ==
  IF oid = None \/ ~named THEN None ELSE [oid |-> oid, expiry |-> expiry]

FromPrincipal(headers) ==
  IF ~Decodes(headers.principal) THEN None
  ELSE User(Or(Claim(headers.principal, "oid"), headers.id),
            Named(headers.principal) \/ headers.name # None, None)

\* A number, or text that is one; exp is a pair of its type and its value.
ExtractExpiry(exp) == IF exp[1] \in {"int", "digits"} THEN exp[2] ELSE None

\* extract_groups raises on anything but text or a list of it.
HasGroups(token) == token.groups # Broken

\* A legacy token is decoded, not verified: Easy Auth has done that.
DecodesJwt(token) == token \notin {None, Broken}

FromToken(token) ==
  IF ~DecodesJwt(token) \/ ~HasGroups(token) THEN None
  ELSE User(token.oid, token.name # None, ExtractExpiry(token.exp))

\* None for a request without a user, or with one that is not understood.
ResolveUser(headers) ==
  CASE headers.principal # None                       -> FromPrincipal(headers)
    [] headers.principal = None /\ headers.id # None /\ headers.name # None
                                                      -> User(headers.id, TRUE, None)
    [] OTHER                                          -> FromToken(headers.token)
=============================================================================
