SPECIFICATION ServicesSpec
CONSTANTS
  ana = ana
  b1 = b1
  b2 = b2
  c1 = c1
  c2 = c2
  s1 = s1
  s2 = s2
  Services = {"wallet", "games", "engine", "settlement", "gateway"}
  Busy = {"games", "gateway"}
  Requests = {"r1", "r2"}
  Clients = {"a"}
  Limit = 1
  Window = 3
  Horizon = 4
  Users = {ana}
  Opening <- MCOpening
  Bets = {b1, b2}
  UserOf <- MCUserOf
  Amount <- MCAmount
  Cashouts = {c1, c2}
  Wanted <- MCWanted
  Impatient = {s2, b2}
  CallSets <- MCCallSets
  Starters = {s1, s2}
  Capacity = 2
  Draws <- MCDraws
  Modulus = 110
  MaxRounds = 2
  MaxAge = 1
  Countries <- MCCountries
  Regimes <- MCRegimes
  Generators = {"g1"}
  WorkerOf <- MCWorkerOf
  SequenceCount = 3
  Seconds = 3
  MaxIds = 5
  Phones = {"mobile", "landline", "short"}
  Digits <- MCDigits
  Callers = {"c1", "c2", "c3"}
CHECK_DEADLOCK FALSE
INVARIANTS
  AdmittedWithinLimit
  RequestsAccountedFor
  IdsInOrder
  TwiceOnlyTogether
  StakesTaken
PROPERTIES
  CashedOutIsFinal
  EveryGameEnds
  StopsWhenAsked
