SPECIFICATION Spec
CONSTANTS
  ana = ana
  bia = bia
  d1 = d1
  d2 = d2
  h1 = h1
  h2 = h2
  v1 = v1
  x1 = x1
  vip = vip
  NoCode = NoCode
  Users = {ana, bia}
  Deposits = {d1, d2}
  UserOf <- MCUserOf
  Amount <- MCAmount
  Codes = {vip}
  Fixed = {vip}
  CodeOf <- MCCodeOf
  Reward <- MCReward
  MaxUses <- MCMaxUses
  Active = {"first", "reload", "signup"}
  Referred = {ana}
  Multiplier = 20
  Hooks = {h1, h2}
  Checkers = {v1}
  Expirers = {x1}
  MaxNotices = 2
  Failing = {v1, x1}
  Overlap = {d1}
CHECK_DEADLOCK FALSE
INVARIANT CreditedOnce
