------------------------ MODULE MCIncidentIssue ------------------------
\* Two issues, two signals of which one is about a targeted surface, and room for
\* two healthy states beside the ones an incident has credits of.
EXTENDS IncidentIssue
MCIssues == 1..2
MCStates == 1..6
MCCodes == {1}
MCSignals == {"tests", "queue"}
MCTargeted == {"queue"}
MCWorlds == {"people", "duplicate"}
MCLate == {"late"}
=============================================================================
