--------------------------- MODULE MCProcessGroup ---------------------------
EXTENDS ProcessGroup
=============================================================================
