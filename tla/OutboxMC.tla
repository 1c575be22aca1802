------------------------------ MODULE OutboxMC ------------------------------
\* Instances of Outbox for TLC.
EXTENDS Outbox

CONSTANTS e1, e2, e3

ThreeEntries == {e1, e2, e3}
TwoEntries == {e1, e2}
OneEntry == {e1}
LastEntry == {e3}
NoEntries == {}
=============================================================================
