SPECIFICATION Spec
CONSTANTS
  c1 = c1
  c2 = c2
  c3 = c3
  c4 = c4
  c5 = c5
  s1 = s1
  s2 = s2
  k1 = k1
  k2 = k2
  k3 = k3
  k4 = k4
  k5 = k5
  m1 = m1
  m2 = m2
  wf = wf
  turn = turn
  get = get
  NoRun = NoRun
  NoPrompt = NoPrompt
  Ids = {c1, c2}
  Sessions = {s1}
  Runs = {}
  Prompts = {}
  Calls = {k1, k2}
  Request <- NestedRequest
  Msgs = {}
  Message <- NoMessage
  Queries = {}
  Impatient = {}
  Killable = {}
  Revocable = {}
  Stoppable = {s1}
  Deletable = {}
  MaxConcurrent = 1
  LimitBehavior = "Queue"
  MaxCompleted = 2
  MaxInFlight = 1
  SupportsWake = TRUE
PROPERTIES
  NoLateSpawn
CHECK_DEADLOCK FALSE
