\* PkControl implements the abstract call contract PkControlCalls, liveness
\* included: every issued call is eventually resolved once.
CONSTANTS
  c1 = c1
  c2 = c2
  c3 = c3
  NULL = NULL
  CallIds <- MCCallIds2
  Ops = {"GetTid", "SetProxy", "GetTimeSinceAction", "GetNetworkState", "CanAuthorize", "GetProperties"}
  MaxUserRefs = 1
  MaxObjects = 1
  MaxRestarts = 1
SPECIFICATION Spec
PROPERTY CallsRefinement
CHECK_DEADLOCK FALSE
