---------------------------- MODULE MCDocuments ----------------------------
EXTENDS DocumentsProps
=============================================================================
