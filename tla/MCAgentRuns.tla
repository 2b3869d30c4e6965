------------------------------ MODULE MCAgentRuns ------------------------------
(* Three sources, of which two are needed and at most two may be read, and *)
(* calls for one more proposal than the sources a run may have.            *)
EXTENDS AgentRuns

CONSTANTS u1, u2, u3
MCUrl == {u1, u2, u3}
================================================================================
