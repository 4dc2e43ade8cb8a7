CONSTANTS
  c1 = c1  c2 = c2  mon = mon  day = day  gift = gift
  p1 = p1  p2 = p2  d1 = d1  id1 = id1  id2 = id2
  w1 = w1  w2 = w2  k1 = k1  k2 = k2
  Customers = {c1}
  Services = {mon, gift}
  NoService = none
  Kind <- MCKind
  Cost <- MCCost
  AdminOnly = {gift}
  Month = 3  Day = 1  TenYears = 20
  StartBalances = {3}
  TopUps <- CreditAndCharge
  ShotCosts = {2}
  StaffDeadlines = {1}
  PPays = {}
  PPOwner <- MCPPOwner
  PPAmount <- MCPPAmount
  NextPays = {}
  Debts = {d1}
  DebtCost <- MCDebtCost
  PayIds = {id1, id2}
  PayFor <- MCPayFor
  PayAmount <- MCPayAmount
  Prechecked = {id2}
  Web = {w1, w2}
  Celery = {}
  Everyone = everyone
  Handlers = {"BuyService", "PickService", "StopService", "MakeShot", "BuyDebt", "ReceivePay", "AddBalance", "UpdateProfile", "SetAuto"}
  MaxRows = 3
  MaxTime = 2
  MaxRequests = 4
  MaxInFlight = 2
SPECIFICATION Spec
CHECK_DEADLOCK FALSE
INVARIANTS LedgerAccounted Solvent PaymentCreditedOnce
SYMMETRY WebSymmetry
