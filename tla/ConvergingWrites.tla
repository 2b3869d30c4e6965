--------------------------- MODULE ConvergingWrites ---------------------------
(***************************************************************************)
(* What an idempotency key promises: a write to a remote service is wanted *)
(* durably before it is sent, takes effect at most once however often it   *)
(* is sent, and is confirmed only after it has taken effect.               *)
(***************************************************************************)
CONSTANT Write

VARIABLES wanted, effected, confirmed

Init == wanted = {} /\ effected = {} /\ confirmed = {}

Want(w) ==
  /\ wanted' = wanted \cup {w}
  /\ UNCHANGED <<effected, confirmed>>

Effect(w) ==
  /\ w \in wanted
  /\ effected' = effected \cup {w}
  /\ UNCHANGED <<wanted, confirmed>>

Confirm(w) ==
  /\ w \in effected
  /\ confirmed' = confirmed \cup {w}
  /\ UNCHANGED <<wanted, effected>>

Next == \E w \in Write : Want(w) \/ Effect(w) \/ Confirm(w)

Spec == Init /\ [][Next]_<<wanted, effected, confirmed>>
==============================================================================
