--------------------------- MODULE MCCoreLifecycle ---------------------------
EXTENDS CoreLifecycle, TLC

CONSTANTS c1, c2, c3, d1, d2
==============================================================================
