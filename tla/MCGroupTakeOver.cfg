\* Two demonstrations and a hand-over.
SPECIFICATION Spec
CONSTANTS
  v1 = v1
  v2 = v2
  v3 = v3
  d1 = d1
  d2 = d2
  Vm = {}
  Demo = {d1, d2}
  MAX_MEMBER_SIZE = 2
  MaxStarts = 1
  MaxSent = 6
  MaxRepeats = 0
  Targets = {}
PROPERTY RemovesItsId
\* Every agent may be down for good.
CHECK_DEADLOCK FALSE
