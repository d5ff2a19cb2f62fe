\* late_callback: b's user registers its hooks and closes the socket while
\* a receive is outstanding; the model checker looks for a hook invoked
\* after close().
CONSTANTS
  a = a
  b = b
  Peers = {a, b}
  AckWindow = 2
  Capacity = 4
  Header = 1
  RelSizes = {1}
  UnrelSizes = {1}
  MaxRel <- MCMaxRel1
  MaxUnrel <- MCMaxUnrelNone
  MaxSends <- MCMaxSends1
  MaxPunchFails <- MCPunchNone
  MaxKeepAlives = 0
  Reactions = {"none"}
  CallbackBudget = 2
  IoErrors = FALSE
  Duplication = FALSE
  Loss = TRUE
  EarlySend = FALSE
  SNMod = 1024
  Bounded = TRUE
SPECIFICATION LifeSpec
INVARIANT NoCallbackAfterClose
