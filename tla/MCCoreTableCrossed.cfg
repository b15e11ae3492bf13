SPECIFICATION Spec
CONSTANTS
  States = {S1, S2}
  FirstState = S1
  TableSize = 1
  MaxLocals = 2
  MAXTHREADSIZE = 4
  MaxTicks = 1
  Programs <- CrossedPrograms
  nil = nil
INVARIANTS InitReachesItsEvent
