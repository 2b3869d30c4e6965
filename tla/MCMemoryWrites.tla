---------------------------- MODULE MCMemoryWrites ----------------------------
EXTENDS MemoryWrites

CONSTANTS j1, j2
==============================================================================
