--------------------------- MODULE MCScheduledJob ---------------------------
EXTENDS ScheduledJobProps
=============================================================================
