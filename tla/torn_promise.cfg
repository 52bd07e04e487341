CONSTANTS
  v = v
  w = w
  Absent = Absent
  Nothing = Nothing
  Value <- OneValue
  NumThreads = 2
  MaxRound = 0
SPECIFICATION Spec
INVARIANTS PromiseCarriesValue
