SPECIFICATION Spec
CONSTANTS
  s1 = s1
  s2 = s2
  s3 = s3
  d1 = d1
  d2 = d2
  game = game
  offer = offer
  NoTime = NoTime
  Teams <- OneTeam
  Schedules = {s1}
  TeamOf <- SoloOf
  Timings <- Anchors
  CalendarEvents <- Games
  LeagueEvents <- NoEvents
  MaxTime = 0
  MaxVersion = 2
  Dispatchers = {d1}
  AbsenceProvable = FALSE
  MaxFaults = 0

INVARIANTS AnchorsFollowCalendar
CHECK_DEADLOCK FALSE
