\* io_error: a receive may fail with an I/O error on an open socket; the
\* model checker looks for an open, connected endpoint that no longer
\* receives.
CONSTANTS
  a = a
  b = b
  Peers = {a, b}
  AckWindow = 2
  Capacity = 4
  Header = 1
  RelSizes = {1}
  UnrelSizes = {1}
  MaxRel <- MCMaxRelNone
  MaxUnrel <- MCMaxUnrelNone
  MaxSends <- MCMaxSends1
  MaxPunchFails <- MCPunchNone
  MaxKeepAlives = 0
  Reactions = {"none"}
  CallbackBudget = 2
  IoErrors = TRUE
  Duplication = FALSE
  Loss = TRUE
  EarlySend = FALSE
  SNMod = 1024
  Bounded = TRUE
SPECIFICATION LifeSpec
INVARIANT ReceiveLoopAlive
