\* punch_retry: as liveness, but a's first hole punch may fail; punch_hole
\* has emitted the packet with the sync (reliable number 0) and the peer
\* may receive it; a's user then calls rendezvous_connect again.
CONSTANTS
  a = a
  b = b
  Peers = {a, b}
  AckWindow = 2
  Capacity = 2
  Header = 1
  RelSizes = {1}
  UnrelSizes = {3}
  MaxRel <- MCMaxRel1
  MaxUnrel <- MCMaxUnrelNone
  MaxSends <- MCMaxSends
  MaxPunchFails <- MCPunchA
  MaxKeepAlives = 0
  Reactions = {"rearm"}
  CallbackBudget = 3
  IoErrors = FALSE
  Duplication = FALSE
  Loss = FALSE
  EarlySend = FALSE
  SNMod = 1024
  Bounded = FALSE
SPECIFICATION PunchSpec
CHECK_DEADLOCK FALSE
PROPERTY ReliableDelivery
