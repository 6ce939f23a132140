\* A second instance created after the first was finalized, with signals
\* still queued on the shared connection.
CONSTANTS
  NULL = NULL
  Owners = {"o1", "o2"}
  MaxObjects = 2
  MaxMsgs = 3
SPECIFICATION Spec
INVARIANT ConnectionViewMatchesOwner
CHECK_DEADLOCK FALSE
