-------------------------- MODULE MCRealtimeSession --------------------------
(***************************************************************************)
(* Small instances of RealtimeSession for TLC.                             *)
(***************************************************************************)
EXTENDS RealtimeSession, TLC

CONSTANTS s1, s2

Symmetry == Permutations(Session)
==============================================================================
