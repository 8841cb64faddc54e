SPECIFICATION Spec
CONSTANTS
  Scenes = {"sold"}
  Outlive = FALSE
  Rescoped = TRUE
  ann = ann
  bob = bob
  j1 = j1
  j2 = j2
  w1 = w1
  w2 = w2
INVARIANTS NeverRepeated
CHECK_DEADLOCK FALSE
