SPECIFICATION NsSpec
CONSTANTS
  MaxPid = 3
  NinePids = {3}
  BufLen = 2
  MaxEvents = 4
INVARIANTS NsInv SettledTracksNamed
PROPERTY NoticesExit
CHECK_DEADLOCK FALSE
