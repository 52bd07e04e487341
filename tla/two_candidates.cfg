CONSTANTS
  x = x
  v = v
  w = w
  leaderkey = leaderkey
  Absent = Absent
  Nothing = Nothing
  LeaderKey <- leaderkey
  NumReplicas = 3
  DataKey <- NoKey
  ClientKey <- NoKey
  Value <- OneValue
  Flagged <- Nobody
  Electors <- LastTwo
  MaxAttempts = 2
  MaxSets = 2
  MaxRunning = 2
  MaxFaults = 0
  FaultModes <- NoMode
  Lossy <- NoLink
  Crashable <- Nobody
SPECIFICATION Spec
INVARIANTS Agreement
