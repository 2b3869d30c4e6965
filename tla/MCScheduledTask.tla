---------------------------- MODULE MCScheduledTask ----------------------------
(* ScheduledTask as it is, for TLC: one Task is the whole instance.        *)
EXTENDS ScheduledTask
==============================================================================
