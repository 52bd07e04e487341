CONSTANTS
  x = x
  v = v
  w = w
  leaderkey = leaderkey
  Absent = Absent
  Nothing = Nothing
  LeaderKey <- leaderkey
  NumReplicas = 3
  DataKey <- OneKey
  ClientKey <- OneKey
  Value <- TwoValues
  Flagged <- Second
  Electors <- Nobody
  MaxAttempts = 4
  MaxSets = 4
  MaxRunning = 2
  Contact <- First
  Ops <- Writes
  Untold <- Nobody
  Written = v
  MaxRequests = 1
  MaxOpen = 1
  MaxCalls = 3
  MaxFaults = 1
  FaultModes <- OnlyLate
  Lossy <- ToLeader
  Crashable <- Nobody
SPECIFICATION ForwardSpec
INVARIANTS ExecutedOnce
