SPECIFICATION Spec
CONSTANTS
  s1 = s1
  s2 = s2
  s3 = s3
  d1 = d1
  d2 = d2
  game = game
  offer = offer
  NoTime = NoTime
  Teams <- OneTeam
  Schedules = {s1, s2}
  TeamOf <- OneTeamOf
  Timings <- TwoShots
  CalendarEvents <- NoEvents
  LeagueEvents <- NoEvents
  MaxTime = 1
  MaxVersion = 1
  Dispatchers = {d1, d2}
  AbsenceProvable = TRUE
  MaxFaults = 2
INVARIANTS TypeOK ReceiptsAreReal
PROPERTIES ImplementsInbox
CHECK_DEADLOCK FALSE
