------------------------------ MODULE TextStream ------------------------------
(***************************************************************************)
(* What TextConversationRuntime makes of the events of a provider's text   *)
(* stream: a Turn is completed only by a stream that keeps the contract of *)
(* normalized events.                                                      *)
(*                                                                         *)
(* "delta" stands for text, "tool" for a proposed tool call, "foreign" for *)
(* an event of another type, request, model or provider session; usage     *)
(* changes nothing and is left out.                                        *)
(***************************************************************************)
EXTENDS Naturals, Sequences

Events == {"delta", "tool", "foreign", "completed", "failed"}

(* protocol_invalid, tool_unsupported, terminal                            *)
Unheard == [invalid |-> FALSE, tool |-> FALSE, terminal |-> "none"]

Breach(s, event) == s.invalid \/ event = "foreign" \/ s.terminal # "none"

HearPastTheEnd(s, event) ==                                    (* a mutant *)
  CASE s.invalid \/ event = "foreign" -> [s EXCEPT !.invalid = TRUE]
    [] event \in {"completed", "failed"} -> [s EXCEPT !.terminal = event]
    [] event = "tool" -> [s EXCEPT !.tool = TRUE]
    [] OTHER -> s

Hear(s, event) ==
  CASE Breach(s, event) -> [s EXCEPT !.invalid = TRUE]
    [] ~Breach(s, event) /\ event \in {"completed", "failed"} -> [s EXCEPT !.terminal = event]
    [] ~Breach(s, event) /\ event = "tool" -> [s EXCEPT !.tool = TRUE]
    [] ~Breach(s, event) /\ event = "delta" -> s

(* The status of the Turn once the stream is over, or has raised.          *)
TurnStatus(s, raised) ==
  IF ~raised /\ ~s.invalid /\ ~s.tool /\ s.terminal = "completed" THEN "COMPLETED" ELSE "FAILED"

(* The contract, on the whole stream: text, and one completion at its end. *)
Whole(heard) ==
  /\ heard # <<>> /\ heard[Len(heard)] = "completed"
  /\ \A i \in 1..(Len(heard) - 1) : heard[i] = "delta"
===============================================================================
