--------------------------- MODULE MCScheduleSync ---------------------------
EXTENDS ScheduleSyncProps
=============================================================================
