--------------------------- MODULE OutboxFaultsMC ---------------------------
\* Instances of OutboxFaults for TLC.
EXTENDS OutboxFaults

CONSTANTS e1, e2

TwoEntries == {e1, e2}
OneEntry == {e1}
NoEntries == {}
=============================================================================
