----------------------------- MODULE MCPkControl -----------------------------
EXTENDS PkControl

CONSTANTS c1, c2, c3

\* Three call slots: enough for two calls in flight while a third is issued
\* from a completion callback.
MCCallIds == {c1, c2, c3}
MCCallIds2 == {c1, c2}
=============================================================================
