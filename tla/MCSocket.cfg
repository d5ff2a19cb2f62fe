\* delivery: a sends two reliable messages, each fragmented or whole
\* depending on where it lands in a packet; UDP loses, duplicates and
\* reorders; b registers its reliable hook at any time, so datagrams may
\* arrive before it, and from then on every callback re-registers itself.
CONSTANTS
  a = a
  b = b
  Peers = {a, b}
  AckWindow = 2
  Capacity = 4
  Header = 1
  RelSizes = {3}
  UnrelSizes = {3}
  MaxRel <- MCMaxRel
  MaxUnrel <- MCMaxUnrelNone
  MaxSends <- MCMaxSends
  MaxPunchFails <- MCPunchNone
  MaxKeepAlives = 0
  Reactions = {"rearm"}
  CallbackBudget = 3
  IoErrors = FALSE
  Duplication = TRUE
  Loss = TRUE
  EarlySend = FALSE
  SNMod = 1024
  Bounded = TRUE
SPECIFICATION LateHookSpec
INVARIANT TypeOK
 
INVARIANT AckedMeansDelivered
INVARIANT FlushMeansDelivered
PROPERTY ReliableStreamFromA
CHECK_DEADLOCK FALSE
