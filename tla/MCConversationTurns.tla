-------------------------- MODULE MCConversationTurns --------------------------
(* ConversationTurns as it is, for TLC: see the configurations.            *)
EXTENDS ConversationTurns
==============================================================================
