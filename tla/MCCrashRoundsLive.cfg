SPECIFICATION FairSpec
CONSTANTS
  ana = ana
  p1 = p1
  p2 = p2
  c1 = c1
  c2 = c2
  Users = {ana}
  Opening <- MCOpening
  Slots = {1, 2}
  Stakes = {100}
  AutoTargets = {200}
  CrashPoints = {300}
  MaxMultipliers = {200, 300}
  Curve <- MCCurve
  MaxAge = 2
  BettingTime = 1
  PauseTime = 1
  MaxRounds = 2
  Pollers = {p1}
  Calls = {c1}
  MayDie = FALSE
  Stalls = FALSE
PROPERTIES
  EverythingEnds
  BetsOnlyWhileWaiting
