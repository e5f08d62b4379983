SPECIFICATION Spec
CONSTANTS
  CPUs = {c1, c2, c3}
  Sizes = {6}
  MaxWireEvents = 1
  MaxProbes = 4
INVARIANT NothingInvented
INVARIANT ExactUnlessRaced
CHECK_DEADLOCK FALSE
