CONSTANTS
  Values = {v1, v2}
  Undef = undef
  Capacity0 = 1
  MaxTail = 9
SPECIFICATION Spec
INVARIANTS TypeOK SlotsExact
PROPERTY ImplementsFifo
