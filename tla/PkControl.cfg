\* Registry, teardown and result safety of PkControl with two call slots,
\* all eight methods, two instances and one daemon restart.
CONSTANTS
  c1 = c1
  c2 = c2
  c3 = c3
  NULL = NULL
  CallIds <- MCCallIds2
  Ops = {"GetTid", "SetProxy", "GetTimeSinceAction", "GetNetworkState", "CanAuthorize", "GetProperties", "GetDaemonState", "GetTransactionList"}
  MaxUserRefs = 2
  MaxObjects = 2
  MaxRestarts = 1
SPECIFICATION Spec
INVARIANT TypeOK
INVARIANT RegistryMatchesTransport
INVARIANT NoCallbackOnFinalizedControl
INVARIANT CompletedAtMostOnce
INVARIANT ResultMatchesReply
PROPERTY PropertiesFreshInCallback
\* The application may stop issuing calls and drop its references: the
\* quiescent end state is a real end of the program.
CHECK_DEADLOCK FALSE
