-------------------------- MODULE MCOrderedWindow --------------------------
EXTENDS OrderedWindow
=============================================================================
