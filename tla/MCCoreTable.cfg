SPECIFICATION Spec
CONSTANTS
  States = {S1, S2}
  FirstState = S1
  TableSize = 3
  MaxLocals = 1
  MAXTHREADSIZE = 5
  MaxTicks = 1
  Programs <- WellFormedPrograms
  nil = nil
INVARIANTS CoreTypeOK CoresInPlace InitReachesItsEvent
PROPERTY RefinesEventCores
