\* Handlers end at once, yield once, or run for ever.
CONSTANTS
  NumCores = 2
  Kind <- MCKind
  Size <- MCSize
  Accepts <- MCAccepts
  QUEUE_SIZE = 2
  Endless = Endless
  Lengths = {0, 1, Endless}
  MaxFires = 4
SPECIFICATION Spec
INVARIANTS DispatchTypeOK ExactlyOnce LoopFresh
PROPERTIES Served Completes Polled
