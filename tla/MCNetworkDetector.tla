--------------------------- MODULE MCNetworkDetector ---------------------------
EXTENDS NetworkDetector

\* A second outage only while no core has exited by itself, and none of either
\* while the launch still works or what it has overridden is not stopped.
Calm ==
    /\ outages = 2 => exits = 0
    /\ boot # "done" \/ swept => outages = 0 /\ exits = 0
=============================================================================
