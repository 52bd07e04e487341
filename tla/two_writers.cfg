CONSTANTS
  x = x
  v = v
  w = w
  leaderkey = leaderkey
  Absent = Absent
  Nothing = Nothing
  LeaderKey <- leaderkey
  NumReplicas = 3
  DataKey <- OneKey
  ClientKey <- AnyKey
  Value <- OneValue
  Flagged <- First
  Electors <- Second
  MaxAttempts = 2
  MaxSets = 2
  MaxRunning = 2
  MaxFaults = 1
  FaultModes <- AllModes
  Lossy <- AnyLink
  Crashable <- First
SPECIFICATION Spec
INVARIANTS TypeOK Validity LeaderIsCandidate StoredIsDecided
