\* One Transport: OutboundMessages inserts two messages, two datagrams
\* arrive, the user callback may destroy the transport.  The run ends when
\* the bounds are used up, so deadlock is not checked.
CONSTANTS
  MaxInserts = 2
  MaxRecvs = 2
  Reactions = {"none", "destroy"}
SPECIFICATION Spec
CHECK_DEADLOCK FALSE
INVARIANT NoIoAfterDestroy
