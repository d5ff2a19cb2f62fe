\* unreliable: a sends two unreliable messages that fragment; b's hook may
\* be missing when a part arrives.
CONSTANTS
  a = a
  b = b
  Peers = {a, b}
  AckWindow = 2
  Capacity = 4
  Header = 1
  RelSizes = {3}
  UnrelSizes = {3}
  MaxRel <- MCMaxRelNone
  MaxUnrel <- MCMaxUnrel2
  MaxSends <- MCMaxSends3
  MaxPunchFails <- MCPunchNone
  MaxKeepAlives = 1
  Reactions = {"none", "rearm"}
  CallbackBudget = 3
  IoErrors = FALSE
  Duplication = TRUE
  Loss = TRUE
  EarlySend = FALSE
  SNMod = 1024
  Bounded = TRUE
SPECIFICATION DeliverySpec
PROPERTY UnreliableStreamFromA
CHECK_DEADLOCK FALSE
