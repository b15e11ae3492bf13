CONSTANTS
  MAXTHREADSIZE = 10
  Half = 128
  Rounds = 12
  Garbage = {0}
  EventFuncs <- EventFuncs_
  Primitives <- Primitives_
  Bits <- Bits_
  Programs <- Samples
  Images <- SampleImages
SPECIFICATION MSpec
INVARIANT SamplesCompile
CHECK_DEADLOCK FALSE
