\* early_send: a may call send_reliable before rendezvous_connect; under the
\* io_service fairness and a network that loses nothing, the model checker
\* looks for a behaviour in which the message is never delivered.
CONSTANTS
  a = a
  b = b
  Peers = {a, b}
  AckWindow = 2
  Capacity = 2
  Header = 1
  RelSizes = {1}
  UnrelSizes = {3}
  MaxRel <- MCMaxRel1
  MaxUnrel <- MCMaxUnrelNone
  MaxSends <- MCMaxSends
  MaxPunchFails <- MCPunchNone
  MaxKeepAlives = 0
  Reactions = {"rearm"}
  CallbackBudget = 3
  IoErrors = FALSE
  Duplication = FALSE
  Loss = FALSE
  EarlySend = TRUE
  SNMod = 1024
  Bounded = FALSE
SPECIFICATION LiveSpec
CHECK_DEADLOCK FALSE
PROPERTY ReliableDelivery
