\* Either backend over two transactions run one after the other, every role
\* of its table, cancels, and the network going down and up again twice.
CONSTANTS
  NULL = NULL
  TxIds = {"t1", "t2"}
  MaxFlips = 2
  Backends = {"conary", "smart"}
SPECIFICATION Spec
INVARIANT TypeOK
INVARIANT FinishedOnceAndQuiet
PROPERTY JobRefinement
\* Once the backend is unloaded, or every transaction has finished, the
\* daemon has nothing more to do.
CHECK_DEADLOCK FALSE
