\* stale_pending: a sends one reliable message that is fragmented on its
\* first transmission and whole on a retransmission; the model checker
\* looks for a pending buffer left behind after delivery.
CONSTANTS
  a = a
  b = b
  Peers = {a, b}
  AckWindow = 2
  Capacity = 4
  Header = 1
  RelSizes = {3}
  UnrelSizes = {3}
  MaxRel <- MCMaxRel1
  MaxUnrel <- MCMaxUnrelNone
  MaxSends <- MCMaxSends
  MaxPunchFails <- MCPunchNone
  MaxKeepAlives = 0
  Reactions = {"rearm"}
  CallbackBudget = 3
  IoErrors = FALSE
  Duplication = TRUE
  Loss = TRUE
  EarlySend = FALSE
  SNMod = 1024
  Bounded = TRUE
SPECIFICATION DeliverySpec
CHECK_DEADLOCK FALSE
INVARIANT PendingOnlyUndelivered
