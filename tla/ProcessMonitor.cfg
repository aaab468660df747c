SPECIFICATION FairSpec
CONSTANTS
  CPUs = {c1, c2}
  SeqRange = 4
  BufLen = 2
  MaxSent = 6
INVARIANT Inv
PROPERTIES AccountsForLoss SigintStops
CHECK_DEADLOCK FALSE
