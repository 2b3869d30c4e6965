---------------------------- MODULE MCDesktopVoice ----------------------------
(***************************************************************************)
(* Instance of DesktopVoice: connections, sessions and interactions enough *)
(* for a voice that replaces its session or follows another one.           *)
(***************************************************************************)
EXTENDS DesktopVoice
=============================================================================
