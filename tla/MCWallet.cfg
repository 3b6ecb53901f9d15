SPECIFICATION FairSpec
CONSTANTS
  r1 = r1
  r2 = r2
  r3 = r3
  alice = alice
  ghost = ghost
  minor = minor
  ke = ke
  off = off
  xx = xx
  NoRequest = NoRequest
  Users <- MCUsers
  Owners <- MCOwners
  Eligible <- MCEligible
  InitialBalance <- MCInitialBalance
  Requests = {r1, r2, r3}
  Amounts = {0, 7}
  Stakes = {5, 20, 40}
  MinStake = 10
  MaxStake = 30
  Countries <- MCCountries
  Regimes <- MCRegimes
INVARIANTS
  AuditTrail
  NeverOverdrawn
  LockMakesGuardRedundant
  AnswersAreTrue
PROPERTIES
  ImplementsLedger
  EveryCallAnswered
