--------------------------- MODULE MCSystemProxy ---------------------------
EXTENDS SystemProxy

\* Until the process has died of it a session end meets no failed call, no other
\* program and no quit; one that has overtaken an application meets no other
\* program afterwards either.
CalmSessionEnd ==
    /\ "session" \in fence => faults = 0 /\ edits = 0 /\ fence = {"session"}
    /\ "raced" \in excuses => edits = 0
=============================================================================
