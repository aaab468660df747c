SPECIFICATION SocketsSpec
CONSTANTS
  c1 = c1
  c2 = c2
  c3 = c3
  Clients = {c1, c2, c3}
  ArgsOf <- SumArgs
  Backlog = 2
  Mortal = {c1}
  Killable = TRUE
  MaxResult = 6
  NoClient = NoClient
  MsgLen = 24
  KeptLen = 8
  ReplyLen = 9
  Harm = TRUE
INVARIANTS SocketsInv ResultIsSum HurtOnlyByKill
PROPERTIES Answered BothReaped
CHECK_DEADLOCK FALSE
