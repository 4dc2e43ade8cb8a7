CONSTANTS
  t1 = t1  t2 = t2  h1 = h1  h2 = h2  p1 = p1
  Web = {w1, w2}  Together = 2
  Transactions = {t1, t2}  Payers = {payer}  NoCustomer = none  Amount <- MCAmount
  TimeOut = 2  PaymeClock = 2  PaymeFaults = 1  PaymeSerialFaults = 2
  Contracts = {k1, k2}  FewContracts = {k1}  Clients = {c1, c2}  Legals = {l1}  Dates = {1}
  ContractFaults = 1  ContractChanges = 1
  Tasks = {j1, j2}  FewTasks = {j3}  Readers = {reader}
  Staff = {u1, u2}  FewStaff = {u1}  Superusers = {u1}
  LogLines = 4  TaskFaults = 2  TaskSerialFaults = 1
  Addrs <- MCAddrs  Types <- MCTypes  Kinds <- MCKinds  Asked <- MCAsked
  TreeWrites <- MCWrites  Levels = {1, 2}  Titles = {1}
  Accounts = {a1}  Others = {a2}  CacheTTL = 2  MaxWait = 1  TokenClock = 5  TokenChanges = 2
  Chats = {h1, h2}  Bots = {b1}  Subs = {s1, s2, s3}  Profiles = {p1}  NoProfile = none
  Phone <- MCPhone  Updates = 5  SerialUpdates = 6
  error = error  nothing = nothing
SPECIFICATION Spec
CHECK_DEADLOCK FALSE
SYMMETRY Symmetry
INVARIANTS
  TypeOK
  PerformedIsCredited BalanceIsLog
  FinishedIsOff IndividualHasContract
  LogTellsState LevelsFall
PROPERTIES KeepsPromise AnswersFollow SubscriptionsAreKept
