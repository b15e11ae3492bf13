\* The real capacity (object.c:188) with two distinguishable argument arrays.
CONSTANTS
  QUEUE_SIZE = 5
  Data = {d1, d2}
  SUCCESS = SUCCESS
  FAILURE = FAILURE
  NoData = NoData
SPECIFICATION Spec
INVARIANT QueueTypeOK
PROPERTY RefinesFifo
