\* Either backend while the network may be down: does any helper of a
\* networked role start offline?
CONSTANTS
  NULL = NULL
  TxIds = {"t1"}
  MaxFlips = 1
  Backends = {"conary", "smart"}
SPECIFICATION Spec
INVARIANT NoNetworkHelperOffline
CHECK_DEADLOCK FALSE
