---------------------------- MODULE MCExecutors ----------------------------
EXTENDS Executors
=============================================================================
