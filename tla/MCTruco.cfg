SPECIFICATION FairSpec
CONSTANTS
  ana = ana
  bia = bia
  caio = caio
  a1 = a1
  a2 = a2
  b1 = b1
  c1 = c1
  Users = {ana, bia, caio}
  Pages = {a1, b1, c1}
  Owner <- MCOwner
  Host = ana
  Opening <- MCOpening
  Stake = 5
  Modes = {"1v1", "2v2"}
  Deals <- MCDeals
INVARIANTS
  StakesAgree
  RulesKept
  NoGhostIsWaitedFor
PROPERTIES
  EveryMatchEnds
