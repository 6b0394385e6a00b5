\* A message no consumer can read.
CONSTANTS
  None = None
  DecisionId = {}
  m1 = m1
  m2 = m2
  m3 = m3
  c1 = c1
  r1 = r1
  r2 = r2
  Message = {m1, m2}
  ManualCall = {}
  Body <- PoisonBodies
  Content <- SomeContent
  SkipTriageSuppliers = {"trusted", "north -- south"}
  Suspicious = {"north -- south"}
  Replica = {r1, r2}
  BatchSize = 2
  MaxDeliveryAttempts = 2
  BrokerLimit = 3
  FirstCount = 1
  LocksLapse = FALSE
  MaxFaults = 0
SPECIFICATION FairSpec
PROPERTIES EveryMessageSettles
CHECK_DEADLOCK FALSE
