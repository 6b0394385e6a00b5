\* A decision that races the timer.
CONSTANTS
  None = None
  a1 = a1
  a2 = a2
  w1 = w1
  w2 = w2
  w3 = w3
  h1 = h1
  h2 = h2
  Albaran = {a1}
  Request = {w1}
  DecisionId = {w1}
  Header <- Headers
  Issuer = "tenant"
  Audience = "hitl"
  ReviewerRole = "manager"
  AllowLocalEmail = FALSE
  Handler = {h1}
  Verdict = {"approve"}
  Cancellable = {}
  ReminderAfter = 1
  EscalationAfter = 2
  FinalAfter = 3
  BatchSize = 1
  MaxTime = 3
  MaxFaults = 0
SPECIFICATION Spec
INVARIANTS ResponseStopsEscalation
CHECK_DEADLOCK FALSE
