\* The blocking get-properties wrapper returns even when the daemon owns
\* its name but never answers: only dbus-glib timeouts complete calls.
CONSTANTS
  c1 = c1
  c2 = c2
  c3 = c3
  NULL = NULL
  CallIds <- MCCallIds2
  Ops = {"GetTid", "GetProperties"}
  MaxUserRefs = 2
  MaxObjects = 1
  MaxRestarts = 1
SPECIFICATION HungSpec
PROPERTY SyncReturns
CHECK_DEADLOCK FALSE
