SPECIFICATION FairSpec
CONSTANTS
  a = a
  o = o
  p = p
  q = q
  c1 = c1
  c2 = c2
  NoSnapshot = NoSnapshot
  None = None
  Snapshot <- MCSnapshot
  Tasks = {a, o}
  OneShots = {o}
  Durable = {a}
  Bridged = TRUE
  Prompts = {p}
  Legacy <- OneShotLegacy
  Children = {c1}
  FreshEvery = 2
  MaxTasks = 2
  MaxRev = 2
  MaxChan = 1
  MaxNotes = 1
  MaxSaves = 1
  MaxEnds = 1
  Firing = {o}
  Expirable = {a}
  Losable = {"bridge"}
INVARIANTS
  SchedulerTypeOK
  GoneForGood
  ReservationFresh
  OneShotOnce
  TasksVisible
PROPERTIES
  ImplementsRegister
  ActorReturns
CHECK_DEADLOCK FALSE
