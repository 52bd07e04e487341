CONSTANTS
  x = x
  v = v
  w = w
  leaderkey = leaderkey
  Absent = Absent
  Nothing = Nothing
  LeaderKey <- leaderkey
  NumReplicas = 3
  DataKey <- NoKey
  ClientKey <- NoKey
  Value <- OneValue
  Flagged <- Nobody
  Electors <- Everyone
  MaxAttempts = 4
  MaxSets = 4
  MaxRunning = 1
  MaxFaults = 4
  FaultModes <- OnlyLost
  Lossy <- FromFirstAway
  Crashable <- Nobody
SPECIFICATION Spec
INVARIANTS NoRoundSkipped
PROPERTIES NeverGoesBack
