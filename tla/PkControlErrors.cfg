\* Spec section 4.4: every transport error but get-properties' reaches the
\* caller in the PkControl domain.  Expected to be violated by set-proxy.
CONSTANTS
  c1 = c1
  c2 = c2
  c3 = c3
  NULL = NULL
  CallIds <- MCCallIds2
  Ops = {"GetTid", "SetProxy", "GetProperties"}
  MaxUserRefs = 1
  MaxObjects = 1
  MaxRestarts = 1
SPECIFICATION Spec
INVARIANT ErrorsNormalized
CHECK_DEADLOCK FALSE
