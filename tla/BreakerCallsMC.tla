--------------------------- MODULE BreakerCallsMC ---------------------------
\* The instance of BreakerCalls for TLC.
EXTENDS BreakerCalls

CONSTANTS g1, g2, g3

ThreeCallers == {g1, g2, g3}
=============================================================================
