SPECIFICATION Spec
CONSTANTS
  Scenes = {"writes", "commands", "trial"}
  Outlive = TRUE
  Rescoped = FALSE
  ann = ann
  bob = bob
  j1 = j1
  j2 = j2
  w1 = w1
  w2 = w2
INVARIANTS ActsWhereMeant
CHECK_DEADLOCK FALSE
