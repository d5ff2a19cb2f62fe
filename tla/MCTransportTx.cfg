\* The same Transport, checked for a second async_send_to issued while the
\* first still reads the shared tx_buffer.
CONSTANTS
  MaxInserts = 2
  MaxRecvs = 1
  Reactions = {"none"}
SPECIFICATION Spec
CHECK_DEADLOCK FALSE
INVARIANT SingleSendInFlight
