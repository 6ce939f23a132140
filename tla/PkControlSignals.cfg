\* One instance's signal handlers: two daemon owners, every daemon signal,
\* replacements and unrelated name changes, up to five routed signals.
CONSTANTS
  NULL = NULL
  Owners = {"o1", "o2"}
  MaxObjects = 1
  MaxMsgs = 5
SPECIFICATION Spec
INVARIANT TypeOK
INVARIANT ConnectionEventsAlternate
INVARIANT ConnectionViewMatchesOwner
\* The daemon and the application may both stop: a quiet bus is a real end.
CHECK_DEADLOCK FALSE
