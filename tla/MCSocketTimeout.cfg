\* timeout_race: b's receive-timeout alarm fires while a datagram from a is
\* already on its way; b's user registers its reliable hook again, in the
\* timed_out callback or after it.  The model checker looks for a message handed over
\* after the fatal error.
CONSTANTS
  a = a
  b = b
  Peers = {a, b}
  AckWindow = 2
  Capacity = 4
  Header = 1
  RelSizes = {1}
  UnrelSizes = {1}
  MaxRel <- MCMaxRel1
  MaxUnrel <- MCMaxUnrelNone
  MaxSends <- MCMaxSends
  MaxPunchFails <- MCPunchNone
  MaxKeepAlives = 0
  Reactions = {"none", "rearm"}
  CallbackBudget = 2
  IoErrors = FALSE
  Duplication = FALSE
  Loss = FALSE
  EarlySend = FALSE
  SNMod = 1024
  Bounded = TRUE
SPECIFICATION LifeSpec
PROPERTY NoDeliveryAfterFatal
CHECK_DEADLOCK FALSE
