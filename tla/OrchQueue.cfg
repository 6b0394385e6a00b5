\* Two messages about one document, an unreadable third one, one fault.
CONSTANTS
  None = None
  DecisionId = {}
  m1 = m1
  m2 = m2
  m3 = m3
  c1 = c1
  r1 = r1
  r2 = r2
  Message = {m1, m2, m3}
  ManualCall = {}
  Body <- QueueBodies
  Content <- SomeContent
  SkipTriageSuppliers = {"trusted", "north -- south"}
  Suspicious = {"north -- south"}
  Replica = {r1, r2}
  BatchSize = 2
  MaxDeliveryAttempts = 2
  BrokerLimit = 3
  FirstCount = 0
  LocksLapse = FALSE
  MaxFaults = 1
SPECIFICATION Spec
INVARIANTS TypeOK NoStrandedDocument NoLostHandoff
PROPERTIES KeepsContract
CHECK_DEADLOCK FALSE
