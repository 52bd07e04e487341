CONSTANTS
  x = x
  v = v
  w = w
  leaderkey = leaderkey
  Absent = Absent
  Nothing = Nothing
  LeaderKey <- leaderkey
  NumReplicas = 3
  DataKey <- OneKey
  ClientKey <- AnyKey
  Value <- OneValue
  Flagged <- Second
  Electors <- Nobody
  MaxAttempts = 2
  MaxSets = 1
  MaxRunning = 2
  MaxStarts = 1
  MaxFaults = 1
  FaultModes <- OnlyLate
  Lossy <- FromFirst
  Crashable <- FirstTwo
SPECIFICATION FairStartSpec
INVARIANTS StoredIsDecided
PROPERTIES CoordinateEnds AttemptEnds
