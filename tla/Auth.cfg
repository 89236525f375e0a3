SPECIFICATION Spec
CONSTANTS
  p1 = p1
  p2 = p2
  a1 = a1
  b1 = b1
  NoCred = NoCred
  Free = Free
  Procs = {p1, p2}
  Callers = {a1, b1}
  Home <- MCHome
  MaxLogins = 2
  Listening = {p1}
  Enriched = {p1}
  Rotations = {TRUE}
  MaxMint = 3
  MaxSends = 2
  MaxSleeps = 2
  MaxFaults = 1
INVARIANTS
  AuthTypeOK
  SpentOnce
PROPERTIES
  LiveKept
  NoStraddle
CHECK_DEADLOCK FALSE
