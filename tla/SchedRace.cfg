SPECIFICATION Spec
CONSTANTS
  s1 = s1
  s2 = s2
  s3 = s3
  d1 = d1
  d2 = d2
  game = game
  offer = offer
  NoTime = NoTime
  Teams <- OneTeam
  Schedules = {s1, s2}
  TeamOf <- OneTeamOf
  Timings <- OneShots
  CalendarEvents <- NoEvents
  LeagueEvents <- NoEvents
  MaxTime = 0
  MaxVersion = 2
  Dispatchers = {d1, d2}
  AbsenceProvable = FALSE
  MaxFaults = 1
SYMMETRY Symmetry
INVARIANTS OneHandedOff WithdrawnIsNeverSent RetiredByItsOwnWork LanesAlternate
PROPERTIES ClaimsAreCurrent ClosedIsFinal
CHECK_DEADLOCK FALSE
