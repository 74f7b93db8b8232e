------------------------ MODULE MCIncrementalValueSync ------------------------
EXTENDS IncrementalValueSync
=============================================================================
