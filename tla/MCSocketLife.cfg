\* lifecycle: every call and completion of the code, from the constructor's
\* state: hooks registered at any time, close and destroy from the user or
\* from inside any callback, receive timeouts and aborted receives; a sends
\* one reliable message; UDP loses and reorders but does not duplicate.
CONSTANTS
  a = a
  b = b
  Peers = {a, b}
  AckWindow = 2
  Capacity = 4
  Header = 1
  RelSizes = {1}
  UnrelSizes = {1}
  MaxRel <- MCMaxRel1
  MaxUnrel <- MCMaxUnrelNone
  MaxSends <- MCMaxSends1
  MaxPunchFails <- MCPunchNone
  MaxKeepAlives = 0
  Reactions = {"none", "close", "destroy"}
  CallbackBudget = 2
  IoErrors = FALSE
  Duplication = FALSE
  Loss = TRUE
  EarlySend = FALSE
  SNMod = 1024
  Bounded = TRUE
SPECIFICATION LifeSpec
INVARIANT UseAfterDestroy
CHECK_DEADLOCK FALSE
