SPECIFICATION Spec
CONSTANTS
  i1 = i1
  i2 = i2
  r1 = r1
  r2 = r2
  Order <- TwoInstances
  Runs = {r1}
  ArgsOf <- DrainAllThenReset
  Stores = {FALSE}
  Killable = FALSE
INVARIANT AllMade
CHECK_DEADLOCK FALSE
