SPECIFICATION Spec
CONSTANTS
  i1 = i1
  i2 = i2
  r1 = r1
  r2 = r2
  Order <- TwoInstances
  Runs = {r1, r2}
  ArgsOf <- Counted
  Stores = {TRUE, FALSE}
  Killable = TRUE
INVARIANT StoreInv
PROPERTY ChangesOneOnly
CHECK_DEADLOCK FALSE
