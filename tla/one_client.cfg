CONSTANTS
  x = x
  v = v
  w = w
  leaderkey = leaderkey
  Absent = Absent
  Nothing = Nothing
  LeaderKey <- leaderkey
  NumReplicas = 3
  DataKey <- OneKey
  ClientKey <- AnyKey
  Value <- TwoValues
  Flagged <- Second
  Electors <- Nobody
  MaxAttempts = 5
  MaxSets = 5
  MaxRunning = 2
  Contact <- First
  Ops <- AllOps
  Untold <- Nobody
  Written = v
  MaxRequests = 2
  MaxOpen = 1
  MaxCalls = 4
  MaxFaults = 1
  FaultModes <- AllModes
  Lossy <- FromFirst
  Crashable <- Second
SPECIFICATION ForwardSpec
INVARIANTS ForwardTypeOK OkIsDecided CallersWait WritesApart ReadsSeeAcknowledged StoresAgree
