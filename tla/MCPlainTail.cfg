SPECIFICATION Spec
CONSTANTS
  None = None
  Ptrs = {x1, x2}
  Conns = {c1}
  PeekBytes = 2
  DataSizes = {1, 3}
  Spare = {0, 2}
  MaxData = 3
INVARIANT TailIsSuffix
INVARIANT ShownOneSample
PROPERTY ShownStays
