----------------------------- MODULE MCToolTurns ---------------------------
EXTENDS ToolTurnsProps

Mcp == {2}

Placeholders == {2, 3}
=============================================================================
