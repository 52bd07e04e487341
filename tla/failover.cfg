CONSTANTS
  x = x
  v = v
  w = w
  leaderkey = leaderkey
  Absent = Absent
  Nothing = Nothing
  LeaderKey <- leaderkey
  NumReplicas = 3
  DataKey <- OneKey
  ClientKey <- OneKey
  Value <- TwoValues
  Flagged <- Second
  Electors <- Third
  MaxAttempts = 6
  MaxSets = 6
  MaxRunning = 2
  Contact <- ButFlagged
  Ops <- Reads
  Untold <- Third
  Written = v
  MaxRequests = 1
  MaxOpen = 1
  MaxCalls = 4
  MaxFaults = 0
  FaultModes <- NoMode
  Lossy <- NoLink
  Crashable <- Second
SPECIFICATION FairForwardSpec
PROPERTIES RequestsEnd
