SPECIFICATION FairSpec
CONSTANTS
  Comps = {1, 2, 3, 4}
  Group <- MCGroup
  Threaded = {3}
  MaxParallelism = 2
  MaxConnects = 3
  MaxRuns = 2
INVARIANTS TypeOK  Sorts
PROPERTIES ImplementsDataflow RunsEnd
\* The pipeline is idle when its runs are over.
CHECK_DEADLOCK FALSE
