\* Two machines and triggers sent to 0.
SPECIFICATION Spec
CONSTANTS
  v1 = v1
  v2 = v2
  v3 = v3
  d1 = d1
  d2 = d2
  Vm = {v1, v2}
  Demo = {}
  MAX_MEMBER_SIZE = 2
  MaxStarts = 1
  MaxSent = 5
  MaxRepeats = 0
  Targets <- MCTargets
PROPERTY ZeroIsForTheReader
\* Every agent may be down for good.
CHECK_DEADLOCK FALSE
