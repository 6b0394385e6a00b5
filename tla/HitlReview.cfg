\* The timer, two reviewers, a callback and the operator on one review, with a fault.
CONSTANTS
  None = None
  a1 = a1
  a2 = a2
  w1 = w1
  w2 = w2
  w3 = w3
  h1 = h1
  h2 = h2
  Albaran = {a1}
  Request = {w1, w2}
  DecisionId = {w1, w2}
  Header <- Headers
  Issuer = "tenant"
  Audience = "hitl"
  ReviewerRole = "manager"
  AllowLocalEmail = FALSE
  Handler = {h1}
  Verdict = {"approve", "reject"}
  Cancellable = {a1}
  ReminderAfter = 1
  EscalationAfter = 2
  FinalAfter = 2
  BatchSize = 1
  MaxTime = 2
  MaxFaults = 1
SPECIFICATION Spec
SYMMETRY ActorSymmetry
INVARIANTS TypeOK LevelWasNotified OneNoticePerLevel OutcomeMatchesDecision ReceiptsAccountedFor
CHECK_DEADLOCK FALSE
