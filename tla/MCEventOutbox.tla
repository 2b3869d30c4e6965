---------------------------- MODULE MCEventOutbox ----------------------------
(* A small instance of EventOutbox: the notifier behind a handler that is  *)
(* not safe to repeat.                                                     *)
EXTENDS EventOutbox

CONSTANTS notifications, other

MCHandlers == <<other, notifications>>
==============================================================================
