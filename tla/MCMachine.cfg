CONSTANTS
  MAXTHREADSIZE = 2
  Half = 4
  Rounds = 8
  Garbage = {0}
  EventFuncs <- EventFuncs_
  Primitives <- Primitives_
  Bits <- Bits_
  Programs <- Programs_
  Images <- Images_
SPECIFICATION MSpec
INVARIANT MachineTypeOK FramesSound OperandsOwn CodeVerified
PROPERTY CallersKept UndisturbedHandlersFollowSource StoresAreCurrent
CHECK_DEADLOCK FALSE
PROPERTY StraightHandlersEnd
