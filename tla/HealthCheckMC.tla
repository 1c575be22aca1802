--------------------------- MODULE HealthCheckMC ---------------------------
\* Instances of HealthCheck for TLC.
EXTENDS HealthCheck

CONSTANTS e1, e2

TwoEntries == {e1, e2}
NoEntries == {}

\* Everything given, no breaker, nothing but the URL, and no URL.
FourWirings ==
    {{"url", "counter", "circuit"}, {"url", "counter"}, {"url"}, {"counter", "circuit"}}
=============================================================================
