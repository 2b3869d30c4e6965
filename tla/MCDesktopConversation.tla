------------------------ MODULE MCDesktopConversation ------------------------
EXTENDS DesktopConversation, TLC

CONSTANTS A, B, C, D

MCStored == (A :> 2) @@ (B :> 1) @@ (C :> 0) @@ (D :> 0)
==============================================================================
