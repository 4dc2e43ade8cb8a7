CONSTANTS
  pay1 = pay1  pay2 = pay2  c1 = c1  c2 = c2
  s1 = s1  s2 = s2  g1 = g1  p1 = p1  n1 = n1  n2 = n2
  l1 = l1  l2 = l2
  Workers = {w1, w2}  Together = 2
  Pays = {pay1, pay2}  Payers = {c1, c2}  Payer <- MCPayer
  PayRuns <- MCPayRuns  PayFull <- MCPayFull  PayFaults <- MCPayFaults  PayToggles <- MCPayToggles
  Entries = {r1, r2, r3}  AaaDue = 2  AaaSeconds = 2  AaaFaults <- MCAaaFaults
  Objects <- MCObjects  Kind <- MCKind
  EventSaves = 3  EventSeconds <- MCEventSeconds  EventFaults = 1
  Subjects <- MCSubjects  Legals <- MCLegals  Start <- MCStart
  CommandChanges <- MCCommandChanges  CommandFaults <- MCCommandFaults
SPECIFICATION Spec
CHECK_DEADLOCK FALSE
SYMMETRY Symmetry
INVARIANTS
  TypeOK
  PaymentsAreExported
  RowIsKept SentOnce
  EventsAreTold
  CustomersAreExported
