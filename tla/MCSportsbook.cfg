SPECIFICATION SportsbookSpec
CONSTANTS
  c1 = c1
  c2 = c2
  c3 = c3
  Slips = {"s1"}
  Listed = {"m"}
  Matches = {"m", "n"}
  Amounts <- MCAmounts
  Edits = {c1, c2}
  Priced = {"m"}
  Asked = {"m", "n"}
  Prices = {2, 3}
  Updates = {c1, c2, c3}
  Pots = {"p"}
  Buys = {c1, c2}
  Draws = {"d1", "d2"}
  Combos = {"x"}
  Stakes = {1, 3}
  MinTicket = 1
  MaxTicket = 2
  Rate = 50
  StartAmounts = {0, 100}
  Pushes = {"d"}
  Calls = {c1, c2}
  Sums = {120, 150, 200}
  Fixtures = {"m", "n"}
  QuoteCalls = {c1}
  OddsTTL = 2
  Lag = 1
  Ages = 5
  Askers = {c1, c2}
  MaxTokens = 2
  Interval = 2
  Ticks = 3
  Checks = {c1, c2}
  Wagers = {0, 2}
  MaxBetPerEvent = 2
  Limits <- MCLimits
  RequiredKYCLevel = "STANDARD"
  Zone = 1
  WeekDays = 2
  MonthDays = 3
  Halves = 3
  Users = {"u"}
  Desks = {c1, c2}
  AccessHours = 1
  RefreshHours = 2
  Hours = 2
  Savers = {c1, c2, c3}
  Increments = {1, 2}
  Games = {"g"}
  Goals = {0, 1}
  Editors = {c1}
  Virtuals = {"v", "w"}
  Punts = {c1, c2}
  PuntAmounts = {1}
  Countries <- MCCountries
  Regimes <- MCRegimes
  MaxBet = 20
  MaxPayout = 60
CHECK_DEADLOCK FALSE
INVARIANTS
  MoneyAddsUp
  PricesAreCurrent
  RecordsAgree
  BalanceAddsUp
  TaxIsNearestCent
  StakeNeverTaxedAsWinnings
PROPERTIES
  NetGrowsWithPayout
