SPECIFICATION Spec
CONSTANTS
  a1 = a1
  c1 = c1
  c2 = c2
  w1 = w1
  w2 = w2
  g1 = g1
  Agents = {a1}
  Causes = {c1}
  OwnerOf <- OneOwner
  StaffTags = {g1}
  Workers = {w1}
  Budget = 4
  MaxCost = 1
  MaxAttempts = 1
  StaffLimit = 1
  LostAcks = FALSE
  MaxDepth = 2
  MaxFaults = 0
INVARIANTS FailedStaffWakesOwner
CHECK_DEADLOCK FALSE
