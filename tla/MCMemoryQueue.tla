--------------------------- MODULE MCMemoryQueue ---------------------------
EXTENDS MemoryQueueProps
=============================================================================
