SPECIFICATION FairSpec
CONSTANTS
  ana = ana
  aff = aff
  d1 = d1
  d2 = d2
  a1 = a1
  a2 = a2
  h1 = h1
  h2 = h2
  c1 = c1
  c2 = c2
  Players = {ana}
  Opening <- MCOpening
  Amounts = {1}
  Affiliates = {aff}
  Deposits = {d1}
  Affiliate <- MCAffiliate
  Commission <- MCCommission
  Payers = {a1}
  Hooks = {h1}
  Confirmers = {c1}
  Faults = {"refused", "lost", "died", "failed", "early"}
  MaxWithdrawals = 2
  MaxTransfers = 2
  MaxBalance = 4
CHECK_DEADLOCK FALSE
PROPERTIES
  EveryTransferBooked
