------------------------- MODULE AuthorizedExecution -------------------------
(***************************************************************************)
(* What the execution layer promises, with no lock, no rows and no         *)
(* requests: "AI proposes, the Runtime authorizes, an Executor acts".      *)
(*                                                                         *)
(* A grant is live from the moment it is issued until it is spent or       *)
(* withdrawn.  A permit ties one call to one live grant of the call's      *)
(* scope; taking a permit out of a ONE_SHOT grant spends it.  A call acts  *)
(* at most once, and only under its permit.  A permit may be lost (a       *)
(* crash, a cancellation): losing one never causes an effect.              *)
(***************************************************************************)
EXTENDS Sequences

CONSTANTS
  Call,      (* the tool calls                                             *)
  Grant,     (* the permission grants that can be issued                   *)
  ScopeOf,   (* ScopeOf[c]: what call c needs authority for                *)
  OneShot    (* the calls whose approval issues a ONE_SHOT grant           *)

VARIABLES
  asked,     (* the calls for which the user was asked to confirm          *)
  issued,    (* issued[g]: the call the grant was issued for, or {}        *)
  live,      (* the grants that can still authorize                        *)
  permits,   (* the pairs <<call, grant>> authorized and not yet acted on  *)
  effects    (* effects[c]: the grants under which call c acted, in order  *)

avars == <<asked, issued, live, permits, effects>>

Init ==
  /\ asked = {}
  /\ issued = [g \in Grant |-> {}]
  /\ live = {}
  /\ permits = {}
  /\ effects = [c \in Call |-> << >>]

Ask(c) ==
  /\ asked' = asked \cup {c}
  /\ UNCHANGED <<issued, live, permits, effects>>

Issue(g, c) ==
  /\ c \in asked
  /\ issued[g] = {}
  /\ issued' = [issued EXCEPT ![g] = {c}]
  /\ live' = live \cup {g}
  /\ UNCHANGED <<asked, permits, effects>>

Withdraw(g) ==
  /\ live' = live \ {g}
  /\ UNCHANGED <<asked, issued, permits, effects>>

Permit(c, g) ==
  /\ g \in live
  /\ effects[c] = << >>
  /\ \A q \in permits : q[1] # c
  /\ \E b \in issued[g] :
       /\ ScopeOf[b] = ScopeOf[c]
       /\ live' = IF b \in OneShot THEN live \ {g} ELSE live
  /\ permits' = permits \cup {<<c, g>>}
  /\ UNCHANGED <<asked, issued, effects>>

Act(c, g) ==
  /\ <<c, g>> \in permits
  /\ permits' = permits \ {<<c, g>>}
  /\ effects' = [effects EXCEPT ![c] = Append(@, g)]
  /\ UNCHANGED <<asked, issued, live>>

Lose ==
  /\ permits' \in SUBSET permits
  /\ UNCHANGED <<asked, issued, live, effects>>

Next ==
  \/ \E c \in Call : Ask(c)
  \/ \E c \in Call, g \in Grant : Issue(g, c) \/ Permit(c, g) \/ Act(c, g)
  \/ \E g \in Grant : Withdraw(g)
  \/ Lose

Spec == Init /\ [][Next]_avars
==============================================================================
