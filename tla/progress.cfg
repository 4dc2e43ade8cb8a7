CONSTANTS
  w1 = w1  w2 = w2
  t1 = t1  buyer = buyer
  x1 = x1  g1 = g1  c1 = c1  i1 = i1  h1 = h1  h2 = h2  none = none  nobody = nobody
  r1 = r1  r2 = r2
  s1 = s1  p1 = p1
SPECIFICATION FairSpec
CHECK_DEADLOCK FALSE
PROPERTIES
  StartedIsSettled ServiceFollows NoOrphanSession UnusedReturns RowIsSent EndIsTold
