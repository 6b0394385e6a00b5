---------------------------- MODULE MCHitlReview ----------------------------
(* Small instances of HitlReview for TLC. *)
EXTENDS HitlReview, TLC

CONSTANTS a1, a2, w1, w2, w3, h1, h2

\* The claims of a store manager's access token.
Claims ==
  [signed |-> TRUE, exp |-> "future", nbf |-> "past", iat |-> "past", iss |-> "tenant",
   aud |-> {"hitl"}, sub |-> "someone", upn |-> "someone@store", roles |-> {"manager"}]

Bearer(token) == [scheme |-> "bearer", token |-> token]

\* w3 comes without the role, the others are a store manager's.
Headers ==
  w1 :> Bearer(Claims) @@ w2 :> Bearer(Claims) @@
  w3 :> Bearer([Claims EXCEPT !.roles = {"buyer"}])

ActorSymmetry == Permutations(Request \ {w3}) \cup Permutations(Handler)
=============================================================================
