\* A document over two days and a half, a query that an older receipt may fill, two faults.
CONSTANTS
  None = None
  Unreadable = Unreadable
  NotJSON = NotJSON
  NotAnObject = NotAnObject
  Failed = Failed
  ToolName <- MCToolName
  Recipients <- MCRecipients
  d1 = d1
  Doc = {d1}
  CosmosNames <- MCCosmosNames
  ReceiptNames <- MCReceiptNames
  Amount = {1, 3}
  Tolerance = 1
  OlderReceipts = 1
  Batch = 1
  Day = 2
  CronAt = 1
  MaxTime = 5
  MaxFaults = 2
SPECIFICATION Spec
INVARIANTS TypeOK NoFalseMissing DecisionsAreListed DailyReport
CHECK_DEADLOCK FALSE
