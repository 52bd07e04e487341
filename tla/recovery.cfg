CONSTANTS
  x = x
  v = v
  w = w
  leaderkey = leaderkey
  Absent = Absent
  Nothing = Nothing
  LeaderKey <- leaderkey
  NumReplicas = 3
  DataKey <- OneKey
  ClientKey <- OneKey
  Value <- OneValue
  Flagged <- Second
  Electors <- Nobody
  MaxAttempts = 2
  MaxSets = 2
  MaxRunning = 1
  MaxStarts = 2
  MaxFaults = 0
  FaultModes <- NoMode
  Lossy <- NoLink
  Crashable <- AllButSecond
SPECIFICATION StartSpec
INVARIANTS StartTypeOK RecoversAcknowledged
PROPERTIES ImplementsRegister
