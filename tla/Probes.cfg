SPECIFICATION ProbesSpec
CONSTANTS
  Servers = {s1, s2}
  Ports = {p1}
  Kept = p0
  Queries = 2
  Iter = 2
  Args = {0, 1}
  MaxOpts = 2
  MaxRemoved = 1
  Failures = TRUE
  Letters = {a, b}
  MaxName = 7
  MaxLabel = 5
  Byte = 6
  Header = 12
  BufSize = 24
  Mii = TRUE
  Faults = TRUE
  Ids = {i1, i2}
INVARIANTS DnsInv ProbesInv ReadAsWritten SteadyAgrees
PROPERTIES AnsweredByOwn ExchangeEnds KeepsPolling
CHECK_DEADLOCK FALSE
