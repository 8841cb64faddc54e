SPECIFICATION Spec
CONSTANTS
  s1 = s1
  d1 = d1
  d2 = d2
  NoTime = NoTime
  ann = ann
  bob = bob
  p1 = p1
  p2 = p2
  p3 = p3
  p4 = p4

PROPERTIES FairDraft DueIsHonoured DraftGoesOn EventsReachOwners
CHECK_DEADLOCK FALSE
