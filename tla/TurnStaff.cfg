SPECIFICATION Spec
CONSTANTS
  a1 = a1
  c1 = c1
  c2 = c2
  w1 = w1
  w2 = w2
  g1 = g1
  Agents = {a1}
  Causes = {c1, c2}
  OwnerOf <- TwoOwned
  StaffTags = {g1}
  Workers = {w1, w2}
  Budget = 6
  MaxCost = 0
  MaxAttempts = 2
  StaffLimit = 1
  LostAcks = FALSE
  MaxDepth = 2
  MaxFaults = 2
SYMMETRY TwoOfEach
CONSTRAINT OneThingAtATime
INVARIANTS StaffAnswered OneLiveTurn FrozenIsIdle HeldMoneyIsResolvable
PROPERTIES TerminalIsFinal
CHECK_DEADLOCK FALSE
