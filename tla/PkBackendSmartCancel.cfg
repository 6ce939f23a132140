\* The smart backend with helpers that may never exit by themselves: only
\* the reaping of exited or killed helpers is fair.  Does a cancelled
\* transaction still finish?
CONSTANTS
  NULL = NULL
  TxIds = {"t1"}
  MaxFlips = 0
  Backends = {"smart"}
SPECIFICATION HungSpec
PROPERTY CancelledTxFinishes
CHECK_DEADLOCK FALSE
