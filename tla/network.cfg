CONSTANTS
  x1 = x1  x2 = x2  g1 = g1  c1 = c1  c2 = c2  c3 = c3
  i1 = i1  h1 = h1  h2 = h2
  d1 = d1  d2 = d2
  NoCustomer = none  Nobody = nobody
  RadiusThreads = {w1}  StaleAge = 1  LeaseFaults = 1  MaxTasks = 1
  CPE <- MCCPE  Customers <- MCCustomers  Owner <- MCOwner  Opt82 <- MCOpt82
  Inet <- MCInet  Guest <- MCGuest  MaxPackets <- MCPackets
  Devices = {d1, d2}  NoDevice = none  ZteSerial = {d1, d2}  Capacity = 2
  OltThreads = {t1, t2}  NoThread = nobody  Host = host  OltRequests = 2  OnuFaults = 1
  error = error  nothing = nothing
SPECIFICATION Spec
SYMMETRY Symmetry
CHECK_DEADLOCK FALSE
INVARIANTS TypeOK OneCustomerPerAddress RecordIsOwn
PROPERTIES HeardIsNotReleased NumbersAreOwn
