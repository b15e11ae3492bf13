\* Three machines, one of whose datagrams may arrive twice.
SPECIFICATION Spec
CONSTANTS
  v1 = v1
  v2 = v2
  v3 = v3
  d1 = d1
  d2 = d2
  Vm = {v1, v2, v3}
  Demo = {}
  MAX_MEMBER_SIZE = 2
  MaxStarts = 1
  MaxSent = 5
  MaxRepeats = 1
  Targets <- MCTargets
INVARIANTS GroupTypeOK SharedIdsWereSharedAnswers MembersListed TriggersAgree
SYMMETRY Machines
\* Every agent may be down for good.
CHECK_DEADLOCK FALSE
