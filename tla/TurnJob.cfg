SPECIFICATION FairSpec
CONSTANTS
  a1 = a1
  c1 = c1
  c2 = c2
  w1 = w1
  w2 = w2
  g1 = g1
  Agents = {a1}
  Causes = {c1}
  OwnerOf <- OneOwner
  StaffTags <- NoTags
  Workers = {w1, w2}
  Budget = 2
  MaxCost = 1
  MaxAttempts = 3
  StaffLimit = 0
  LostAcks = TRUE
  MaxDepth = 1
  MaxFaults = 2
INVARIANTS TypeOK CompletedByItsLastTurn WalletIsTrue BudgetHolds
PROPERTIES JobsEnd
CHECK_DEADLOCK FALSE
