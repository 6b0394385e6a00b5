\* Four concurrent requests, a failing publish, signature or a restart.
CONSTANTS
  None = None
  q1 = q1
  q2 = q2
  q3 = q3
  q4 = q4
  s1 = s1
  s2 = s2
  Store = {s1, s2}
  Postal <- MCPostal
  Scan <- MCScan
  Request = {q1, q2, q3, q4}
  Metadata <- MCMetadata
  MaxFileSize = 2
  MaxSessionSize = 3
  MaxFaults = 1
SPECIFICATION Spec
SYMMETRY RequestSymmetry
INVARIANTS TypeOK AnsweredFilesFit AnswersAreComplete UnsentOnlyByFault SentAgainHasCause AdviceIsCautious
CHECK_DEADLOCK FALSE
