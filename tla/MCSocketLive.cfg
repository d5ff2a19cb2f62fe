\* liveness: a sends one reliable message of size 1 (Capacity 2 puts it
\* in a packet of its own, after the sync); UDP reorders but neither loses
\* nor duplicates; handlers run under the io_service fairness; no send or keep-alive bound.
CONSTANTS
  a = a
  b = b
  Peers = {a, b}
  AckWindow = 2
  Capacity = 2
  Header = 1
  RelSizes = {1}
  UnrelSizes = {3}
  MaxRel <- MCMaxRel1
  MaxUnrel <- MCMaxUnrelNone
  MaxSends <- MCMaxSends
  MaxPunchFails <- MCPunchNone
  MaxKeepAlives = 0
  Reactions = {"rearm"}
  CallbackBudget = 3
  IoErrors = FALSE
  Duplication = FALSE
  Loss = FALSE
  EarlySend = FALSE
  SNMod = 1024
  Bounded = FALSE
SPECIFICATION LiveSpec
CHECK_DEADLOCK FALSE
PROPERTY ReliableDelivery
PROPERTY FlushEventually
