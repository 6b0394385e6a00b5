\* Two cycles of the job on one supplier and one more process, which reads and
\* sets one of the flags.
CONSTANTS
  None = None
  s1 = s1
  job = job
  server = server
  Proc = {job, server}
  Job = job
  Config <- Suppliers
  Flag <- Flags
  ValueOf <- Values
  History <- Weeks
  Reply <- Replies
  Operable <- Operated
  Listable <- Lists
  ApplyFeatureFlagProposals = TRUE
  AnalysisWindowDays = 7
  QueryBatchSize = 4
  TTL = 1
  MaxDelay = 1
  MaxTime = 2
  MaxWrites = 3
  MaxFaults = 1
  MaxCycles = 2
SPECIFICATION Spec
INVARIANTS TypeOK StaleAtMostTTL VersionCountsWrites FlagsFollowProfile AutoApproveIsEarned
PROPERTIES AnswersNeverGoBack
CONSTRAINT LastWriteEarly
CHECK_DEADLOCK FALSE
