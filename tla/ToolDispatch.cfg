SPECIFICATION FairSpec
CONSTANTS
  t1 = t1
  t2 = t2
  a1 = a1
  a2 = a2
  u1 = u1
  b1 = b1
  w1 = w1
  v1 = v1
  main = main
  kid = kid
  kid2 = kid2
  grandkid = grandkid
  lone = lone
  Calls <- MCCalls
  AgentCalls = {a1, a2, b1}
  Runtimes = {main, kid, kid2, grandkid, lone}
  Root = main
  Batch <- MCBatch
  Children <- MCChildren
  Forks = {a1}
  MayRaise = {t2, w1}
  Workers = 4
INVARIANTS TypeOK  OneByOne
PROPERTIES BatchEnds PoolDrains
\* One batch: the system stops when it is dispatched, or hung on a raised tool.
CHECK_DEADLOCK FALSE
