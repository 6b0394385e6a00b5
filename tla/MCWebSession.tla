---------------------------- MODULE MCWebSession ----------------------------
(* A small instance of WebSession for TLC.  Easy Auth names a user by a     *)
(* principal, which says itself which claim is the name, and another by a  *)
(* token that expires; a principal that cannot be decoded, one without     *)
(* claims and a token with odd groups name nobody.                         *)
EXTENDS WebSession, TLC

CONSTANTS u1, u2, r1, r2, k1, k2

NoHeaders == [principal |-> None, id |-> None, name |-> None, token |-> None]
Principal(claims) == [claims |-> claims, name_typ |-> "nick", role_typ |-> "team"]
Token(expiry, groups) == [oid |-> u2, name |-> "n2", groups |-> groups, exp |-> expiry]

MCHeaders ==
  {[NoHeaders EXCEPT !.id = u1, !.principal = Principal(
      <<<<"upn", None>>, <<"team", "t">>, <<"nick", "n1">>, <<"objectidentifier", u1>>>>)],
   [NoHeaders EXCEPT !.token = Token(<<"digits", 2>>, None)],
   [NoHeaders EXCEPT !.principal = Broken]}

\* Nobody, like the last of them.
ASSUME NobodyElse ==
  /\ ResolveUser([NoHeaders EXCEPT !.principal = Principal(Broken)]) = None
  /\ ResolveUser([NoHeaders EXCEPT !.principal = Principal(<<<<"oid", u1>>, <<"role", "r">>>>)]) = None
  /\ ResolveUser([NoHeaders EXCEPT !.token = Token(<<"int", 2>>, Broken)]) = None
  /\ ResolveUser([NoHeaders EXCEPT !.id = u1]) = None

RequestSymmetry == Permutations(Request)

MCLeftOver ==
  {[key |-> k2, payload |-> [oid |-> u1, exp |-> 3, last |-> 0, csrf |-> 0]],
   [key |-> k1, payload |-> [oid |-> u1, exp |-> 3]]}
=============================================================================
