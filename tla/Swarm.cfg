CONSTANTS
  c1 = c1
  c2 = c2
  m1 = m1
  m2 = m2
  m3 = m3
  Callers <- TwoCallers
  Members <- ThreeMembers
  MaxMembers = 1
  Backend <- Mixed
  Timeout = 2
  Talkers <- OneTalker
  MaxReports = 2
SPECIFICATION Spec
SYMMETRY Symmetric
INVARIANT TypeOK OvershootBound DeliveredOnce
CHECK_DEADLOCK FALSE
