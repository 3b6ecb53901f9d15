SPECIFICATION Spec
CONSTANTS
  ana = ana
  p1 = p1
  p2 = p2
  c1 = c1
  c2 = c2
  Users = {ana}
  Opening <- MCOpening
  Slots = {1}
  Stakes = {150}
  AutoTargets = {0, 200}
  CrashPoints = {100, 300}
  MaxMultipliers = {200, 300}
  Curve <- MCCurve
  MaxAge = 2
  BettingTime = 1
  PauseTime = 1
  MaxRounds = 2
  Pollers = {p1, p2}
  Calls = {c1, c2}
  MayDie = TRUE
  Stalls = TRUE
SYMMETRY Symmetric
INVARIANTS
  RoundsConsistent
  MoneyAgreesWithBets
  BetsFitTheirRound
PROPERTIES
  PublishedCrashIsFinal
