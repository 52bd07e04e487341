CONSTANTS
  x = x
  v = v
  w = w
  leaderkey = leaderkey
  Absent = Absent
  Nothing = Nothing
  LeaderKey <- leaderkey
  NumReplicas = 3
  DataKey <- OneKey
  ClientKey <- OneKey
  Value <- TwoValues
  Flagged <- Second
  Electors <- Nobody
  MaxAttempts = 3
  MaxSets = 3
  MaxRunning = 1
  MaxFaults = 2
  FaultModes <- AllModes
  Lossy <- BetweenReplicas
  Crashable <- Second
SPECIFICATION Spec
PROPERTIES ImplementsRegister
