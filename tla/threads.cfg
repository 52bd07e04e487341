CONSTANTS
  v = v
  w = w
  Absent = Absent
  Nothing = Nothing
  Value <- OneValue
  NumThreads = 3
  MaxRound = 0
SPECIFICATION FairSpec
INVARIANTS ThreadsTypeOK CountsBounded AcceptedKept
PROPERTIES HandlersEnd
