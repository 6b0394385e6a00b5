\* Two reviews, a batch of one, one reviewer, one who is none, a failing call or a lapsed lock.
CONSTANTS
  None = None
  a1 = a1
  a2 = a2
  w1 = w1
  w2 = w2
  w3 = w3
  h1 = h1
  h2 = h2
  Albaran = {a1, a2}
  Request = {w1, w3}
  DecisionId = {w1, w3}
  Header <- Headers
  Issuer = "tenant"
  Audience = "hitl"
  ReviewerRole = "manager"
  AllowLocalEmail = FALSE
  Handler = {h1}
  Verdict = {"approve", "postpone"}
  Cancellable = {}
  ReminderAfter = 1
  EscalationAfter = 2
  FinalAfter = 2
  BatchSize = 1
  MaxTime = 2
  MaxFaults = 1
SPECIFICATION FairSpec
PROPERTIES PendingReviewEnds AcceptedDecisionIsApplied
CHECK_DEADLOCK FALSE
