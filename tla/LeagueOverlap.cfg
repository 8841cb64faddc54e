SPECIFICATION Spec
CONSTANTS
  Scenes = {"waivers"}
  ann = ann
  bob = bob
  p1 = p1
  p2 = p2
  p3 = p3
  p4 = p4
  s1 = s1
  s2 = s2
  d1 = d1
  kickoff = kickoff
  offer = offer
  NoTime = NoTime

INVARIANTS WindowsAwaitWaivers
CHECK_DEADLOCK FALSE
