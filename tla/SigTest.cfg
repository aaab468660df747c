SPECIFICATION Spec
CONSTANTS
  Builds = {TRUE, FALSE}
  Origs = {"nptl", "DFL", "IGN"}
  MaxSent = 3
INVARIANTS Inv Transparent
PROPERTY NoLossOnceSet
CHECK_DEADLOCK FALSE
