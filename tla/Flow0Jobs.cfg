\* One blob under two names, another under one of them, a malformed event.
CONSTANTS
  None = None
  e1 = e1
  e2 = e2
  e3 = e3
  e4 = e4
  j1 = j1
  j2 = j2
  Event = {e1, e2, e3, e4}
  Key <- AllKeys
  KeyOf <- Keys
  NameDate <- AllNameDates
  NameDateOf <- NameDates
  Partition <- AllPartitions
  PartitionOf <- Partitions
  Malformed <- Unreadable
  Job = {j1, j2}
  BrokerLimit = 3
  MaxFaults = 1
SPECIFICATION FairSpec
INVARIANTS TypeOK ForwardedIsRecorded AcknowledgedIsRecorded ForwardsBounded ForgottenOnlyByFault
PROPERTIES EveryNotificationSettles
CHECK_DEADLOCK FALSE
