\* Does every printed filter bitfield parse back to itself?
SPECIFICATION Spec
INVARIANT FilterRoundTrip
