CONSTANTS
  c1 = c1  c2 = c2  mon = mon  day = day  gift = gift
  p1 = p1  p2 = p2  d1 = d1  id1 = id1  id2 = id2
  w1 = w1  w2 = w2  k1 = k1  k2 = k2
  Customers = {c1}
  Services = {mon}
  NoService = none
  Kind <- MCKind
  Cost <- MCCost
  AdminOnly = {}
  Month = 3  Day = 1  TenYears = 20
  StartBalances = {4}
  TopUps = {}
  ShotCosts = {}
  StaffDeadlines = {1}
  PPays = {p1}
  PPOwner <- MCPPOwner
  PPAmount <- MCPPAmount
  NextPays = {1}
  Debts = {}
  DebtCost <- MCDebtCost
  PayIds = {id1}
  PayFor <- MCPayFor
  PayAmount <- MCPayAmount
  Prechecked = {}
  Web = {w1}
  Celery = {k1}
  Everyone = everyone
  Handlers = {"PickService", "MakePeriodicPay", "DeletePeriodicPay"}
  MaxRows = 3
  MaxTime = 6
  MaxRequests = 3
  MaxInFlight = 2
SPECIFICATION Spec
CHECK_DEADLOCK FALSE

PROPERTIES PeriodicOncePerMonth
