SPECIFICATION Spec
CONSTANTS
  a = a
  o = o
  p = p
  q = q
  c1 = c1
  c2 = c2
  NoSnapshot = NoSnapshot
  None = None
  Snapshot <- MCSnapshot
  Tasks = {a}
  OneShots = {}
  Durable = {}
  Bridged = FALSE
  Prompts = {p, q}
  Legacy <- RecurringLegacy
  Children = {c1, c2}
  FreshEvery = 2
  MaxTasks = 1
  MaxRev = 1
  MaxChan = 1
  MaxNotes = 1
  MaxSaves = 1
  MaxEnds = 1
  Firing = {a}
  Expirable = {}
  Losable = {"coordinator"}
INVARIANTS
  NoOverlap
  ChainSound
CHECK_DEADLOCK FALSE
