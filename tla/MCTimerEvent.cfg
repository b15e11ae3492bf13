\* A word wide enough for every second of the run: the 64-bit build, scaled down.
CONSTANTS
  StartTime = 20
  EndTime = 32
  IntBits = 8
  WordBits = 16
  IntervalArgs = {0, 2, 3}
SPECIFICATION Spec
INVARIANTS TimerTypeOK NeverAhead Paced
