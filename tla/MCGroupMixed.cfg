\* A machine and two demonstrations, which leave.
SPECIFICATION Spec
CONSTANTS
  v1 = v1
  v2 = v2
  v3 = v3
  d1 = d1
  d2 = d2
  Vm = {v1}
  Demo = {d1, d2}
  MAX_MEMBER_SIZE = 3
  MaxStarts = 1
  MaxSent = 6
  MaxRepeats = 1
  Targets = {}
INVARIANTS MembersListed
PROPERTY RefinesMembership
SYMMETRY Demos
\* Every agent may be down for good.
CHECK_DEADLOCK FALSE
