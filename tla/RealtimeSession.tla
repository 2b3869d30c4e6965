---------------------------- MODULE RealtimeSession ----------------------------
(***************************************************************************)
(* The realtime voice sessions of one Conversation                         *)
(* (RealtimeConversationRuntime), each with the WebSocket connection that  *)
(* opened it, the provider session behind it and the queue of events       *)
(* between the two.                                                        *)
(*                                                                         *)
(* What runs under voice_transition is a program, op.todo: the steps that  *)
(* the holder of the lock has left, split where other tasks may come in    *)
(* between.  It is empty while the lock is free.  open_session and the     *)
(* removal of a session from _conversation_sessions run under              *)
(* _sessions_gate, commit_interaction and the sender of a connection under *)
(* neither.                                                                *)
(*                                                                         *)
(* Left out: audio and text as data, resource limits and sequence numbers  *)
(* of provider events (a breach is ProtocolBreach), event wording, the     *)
(* context revision (folded into stale) and process crashes, which end     *)
(* everything here but PROCESSING Turns.                                   *)
(***************************************************************************)
EXTENDS Integers, Sequences, SequencesExt, FiniteSets

CONSTANTS
  Session,       (* sessions of the Conversation, and their connections    *)
  MaxInteractions,  (* bound: over all sessions                            *)
  QueueLimit,    (* REALTIME_EVENT_QUEUE_MAX_ITEMS                         *)
  RetiredLimit,  (* RETIRED_INTERACTION_LIMIT                              *)
  MaxErrors      (* bound: provider and storage errors                     *)

ASSUME RealtimeAssumption ==
  /\ IsFiniteSet(Session) /\ Session # {} /\ "none" \notin Session
  /\ MaxInteractions \in Nat /\ MaxErrors \in Nat
  /\ QueueLimit \in Nat \ {0} /\ RetiredLimit \in Nat \ {0}

VARIABLES
  ses,     (* the sessions: RealtimeSession and its provider session       *)
  con,     (* their connections: _Connection                               *)
  voiceTurn,  (* the status of the Turn of each interaction               *)
  entry,   (* _conversation_sessions of the Conversation                   *)
  gate,    (* who holds _sessions_gate                                     *)
  op,      (* the holder of voice_transition                               *)
  lease,   (* voice_active                                                 *)
  text,    (* text_active or pending_text                                  *)
  interactions,  (* so far                                                *)
  failures,  (* provider errors so far                                    *)
  errors   (* storage errors so far                                        *)

counts == <<interactions, failures, errors>>
realtimeVars == <<ses, con, voiceTurn, entry, gate, op, lease, text, counts>>

Talk == 1 .. MaxInteractions                         (* 0: no interaction  *)
Live == {"IDLE", "ACTIVE"}
Terminal == {"COMPLETED", "FAILED", "INTERRUPTED"}

RealtimeTypeOK ==
  /\ \A s \in Session :
       /\ ses[s].state \in Live \cup {"none", "CLOSED", "FAILED"}
       /\ ses[s].active \in 0 .. MaxInteractions
       /\ ses[s].committed \in BOOLEAN /\ ses[s].said \in BOOLEAN
       /\ ses[s].provider \in BOOLEAN
       /\ ses[s].consumer \in {"none", "reading", "failing", "ending", "dead"}
       /\ ses[s].serving \subseteq Talk /\ ses[s].retired \in Seq(Talk)
       /\ ses[s].stale \in BOOLEAN /\ ses[s].over \in BOOLEAN
       /\ ses[s].stopped \in BOOLEAN
       /\ ses[s].closing \in {"no", "asked", "running", "unlisting", "done"}
       /\ Len(ses[s].queue) <= QueueLimit /\ Len(ses[s].retired) <= RetiredLimit
       /\ con[s].at \in {"new", "opening", "registered", "open", "leaving", "gone"}
       /\ con[s].cmd \in {"none", "start", "cancel", "interrupt"}
       /\ con[s].id \in 0 .. MaxInteractions /\ con[s].committed \in BOOLEAN
  /\ voiceTurn \in [Talk -> Terminal \cup {"none", "PROCESSING"}]
  /\ entry \in Session \cup {"none"} /\ gate \in Session \cup {"none"}
  /\ op.s \in Session /\ op.by \in {"client", "close", "consumer"}
  /\ lease \in BOOLEAN /\ text \in BOOLEAN
  /\ interactions \in 0 .. MaxInteractions /\ failures \in 0 .. MaxErrors /\ errors \in 0 .. MaxErrors

NoSession ==
  [state |-> "none", active |-> 0, committed |-> FALSE, said |-> FALSE,
   provider |-> FALSE, consumer |-> "none", serving |-> {}, retired |-> <<>>,
   stale |-> FALSE, queue |-> <<>>, over |-> FALSE, stopped |-> FALSE, closing |-> "no"]

NoConnection == [at |-> "new", cmd |-> "none", id |-> 0, committed |-> FALSE]

NoOp == [s |-> CHOOSE s \in Session : TRUE, by |-> "client", to |-> "none", todo |-> <<>>]

RealtimeInit ==
  /\ ses = [s \in Session |-> NoSession]
  /\ con = [s \in Session |-> NoConnection]
  /\ voiceTurn = [i \in Talk |-> "none"]
  /\ entry = "none" /\ gate = "none"
  /\ op = NoOp
  /\ lease = FALSE /\ text = FALSE
  /\ interactions = 0 /\ failures = 0 /\ errors = 0

MayFail == failures + errors < MaxErrors
ProviderFails == MayFail /\ failures' = failures + 1 /\ UNCHANGED <<interactions, errors>>
(* A provider that has failed may fail again when it is closed.            *)
FaultOnClose == IF failures > 0 THEN UNCHANGED counts ELSE ProviderFails
WriteFails == MayFail /\ errors' = errors + 1 /\ UNCHANGED <<interactions, failures>>

Running == op.todo # <<>>
At(step) == Running /\ Head(op.todo) = step
Run(s, by, to, todo) == op' = [s |-> s, by |-> by, to |-> to, todo |-> todo]
Rest == op' = [op EXCEPT !.todo = Tail(@)]
Done == op' = NoOp

LiveSessions == {s \in Session : ses[s].state \in Live}
Ended(s) == ses[s].state \in {"CLOSED", "FAILED"}

(***************************************************************************)
(* open_session, under _sessions_gate from end to end                      *)
(***************************************************************************)
OpenBegins(s) ==
  /\ con[s].at = "new" /\ gate = "none"
  /\ \/ /\ entry \in LiveSessions                             (* conflict  *)
        /\ con' = [con EXCEPT ![s].at = "gone"]
        /\ UNCHANGED <<entry, gate, lease>>
     \/ /\ entry \notin LiveSessions
        /\ entry' = "none"
        /\ \/ /\ lease \/ text                                (* conflict  *)
              /\ con' = [con EXCEPT ![s].at = "gone"]
              /\ UNCHANGED <<gate, lease>>
           \/ /\ ~lease /\ ~text
              /\ con' = [con EXCEPT ![s].at = "opening"]
              /\ gate' = s /\ lease' = TRUE
  /\ UNCHANGED <<ses, voiceTurn, op, text, counts>>

OpenRegisters(s) ==
  /\ con[s].at = "opening"
  /\ con' = [con EXCEPT ![s].at = "registered"]
  /\ ses' = [ses EXCEPT ![s].state = "IDLE", ![s].provider = TRUE,
                        ![s].consumer = "reading", ![s].queue = <<<<"news", 0>>>>]
  /\ entry' = s
  /\ UNCHANGED <<voiceTurn, gate, op, lease, text, counts>>

OpenReturns(s) ==
  /\ con[s].at = "registered"
  /\ con' = [con EXCEPT ![s].at = "open"]
  /\ gate' = "none" /\ lease' = FALSE
  /\ UNCHANGED <<ses, voiceTurn, entry, op, text, counts>>

(* No model, no provider, or the audit of a session that is registered     *)
(* already: its id is returned to nobody.                                  *)
OpeningFails(s) ==
  /\ con[s].at \in {"opening", "registered"}
  /\ ProviderFails
  /\ con' = [con EXCEPT ![s].at = "gone"]
  /\ gate' = "none" /\ lease' = FALSE
  /\ UNCHANGED <<ses, voiceTurn, entry, op, text>>

(***************************************************************************)
(* Text of the same Conversation                                           *)
(***************************************************************************)
TextBegins ==
  /\ ~lease /\ ~text
  /\ text' = TRUE
  /\ UNCHANGED <<ses, con, voiceTurn, entry, gate, op, lease, counts>>

(* A completed text Turn raises the context revision.                      *)
TextEnds ==
  /\ text /\ text' = FALSE
  /\ \/ ses' = [s \in Session |-> [ses[s] EXCEPT !.stale = ses[s].state \in Live]]
     \/ UNCHANGED ses
  /\ UNCHANGED <<con, voiceTurn, entry, gate, op, lease, counts>>

(***************************************************************************)
(* Events for the client: _emit, with the lock held                        *)
(***************************************************************************)
Claimed(s) == con[s].at \in {"open", "leaving"}
Asked(s) == ses[s].closing # "no"             (* shutdown and close flags  *)
Room(s) == Len(ses[s].queue) < QueueLimit
Put(s, event) == [ses EXCEPT ![s].queue = Append(@, event)]

(* A mutant of Told.                                                       *)
ToldOrStuck(s, event, after) ==
  /\ ses[s].stopped \/ Room(s)
  /\ ses' = IF ses[s].stopped THEN after ELSE [after EXCEPT ![s].queue = Append(@, event)]

(* An event that must not block its session's end: told, or let go.        *)
Told(s, event, after) ==
  LET left == IF ses[s].stopped THEN after ELSE [after EXCEPT ![s].queue = Append(@, event)]
  IN \/ (ses[s].stopped \/ Room(s)) /\ ses' = left
     \/ ~ses[s].stopped /\ ~Room(s) /\ (Asked(s) \/ ~Claimed(s)) /\ ses' = after

(* A normal event that cannot be delivered raises _EventDeliveryStopped.   *)
CannotTell(s) == ses[s].stopped \/ (~Room(s) /\ (Asked(s) \/ ses[s].over))

(***************************************************************************)
(* Commands of the client, in the order its connection receives them       *)
(***************************************************************************)
Idle(s) == con[s].at = "open" /\ con[s].cmd = "none"

Command(s, cmd) ==
  /\ Idle(s)
  /\ CASE cmd = "start"     -> con[s].id = 0 \/ con[s].committed
       [] cmd = "cancel"    -> con[s].id # 0 /\ ~con[s].committed
       [] cmd = "interrupt" -> con[s].id # 0 /\ con[s].committed
  /\ con' = [con EXCEPT ![s].cmd = cmd]
  /\ UNCHANGED <<ses, voiceTurn, entry, gate, op, lease, text, counts>>

(* The client disconnects, breaks the protocol or was refused: the sender  *)
(* is stopped and the session closed, if the connection still has one.     *)
Gone == [NoConnection EXCEPT !.at = "gone"]
Left(s) == [con EXCEPT ![s] = [NoConnection EXCEPT !.at = "leaving"]]
Stopped(r) == [r EXCEPT !.stopped = TRUE, !.queue = <<>>]  (* nobody reads *)
Asking(r) == [r EXCEPT !.closing = IF @ \in {"no", "done"} THEN "asked" ELSE @]
LeavingAs(s, r) ==
  /\ con' = Left(s)
  /\ ses' = [ses EXCEPT ![s] = Asking(Stopped(r))]
Leaving(s) == LeavingAs(s, ses[s])

Disconnect(s) ==
  /\ Idle(s)
  /\ Leaving(s)
  /\ UNCHANGED <<voiceTurn, entry, gate, op, lease, text, counts>>

(* session.close: the sender goes on until it has sent the end.            *)
ClientCloses(s) ==
  /\ Idle(s)
  /\ con' = Left(s)
  /\ ses' = [ses EXCEPT ![s] = Asking(@)]
  /\ UNCHANGED <<voiceTurn, entry, gate, op, lease, text, counts>>

(* commit_interaction looks at the session without the lock.               *)
Commit(s) ==
  /\ Idle(s) /\ con[s].id # 0 /\ ~con[s].committed
  /\ \/ /\ ses[s].state = "ACTIVE" /\ ~ses[s].committed /\ ses[s].provider
        /\ ses' = [ses EXCEPT ![s].committed = TRUE]
        /\ con' = [con EXCEPT ![s].committed = TRUE]
        /\ UNCHANGED counts
     \/ /\ ses[s].state # "ACTIVE" \/ ses[s].committed \/ ~ses[s].provider
        /\ Leaving(s)
        /\ UNCHANGED counts
     \/ /\ ses[s].state = "ACTIVE" /\ ~ses[s].committed      (* provider error *)
        /\ ProviderFails
        /\ LeavingAs(s, [ses[s] EXCEPT !.committed = TRUE])
  /\ UNCHANGED <<voiceTurn, entry, gate, op, lease, text>>

(* A mutant of Ending.                                                    *)
EndingAnswered(s) == IF ses[s].active # 0 /\ ses[s].said THEN <<"end", "tell">> ELSE <<>>

(* The program that ends the active interaction's Turn, if it has one.     *)
Ending(s) == IF ses[s].active # 0 /\ voiceTurn[ses[s].active] # "none" THEN <<"end", "tell">> ELSE <<>>

MayStart(s) == ses[s].state = "IDLE" /\ ses[s].active = 0 /\ ~lease /\ ~text
MayBargeIn(s) == ses[s].state = "ACTIVE" /\ ses[s].committed
MayRetire(s) ==
  /\ ses[s].active # 0 /\ ses[s].active = con[s].id
  /\ ses[s].committed = (con[s].cmd = "interrupt")

BeginStart(s) ==
  /\ con[s].cmd = "start" /\ ~Running
  /\ \/ /\ MayStart(s)
        /\ lease' = TRUE
        /\ Run(s, "client", "none", <<"check", "start", "announce">>)
     \/ /\ MayBargeIn(s)
        /\ UNCHANGED lease
        /\ Run(s, "client", "INTERRUPTED",
               <<"interrupt">> \o Ending(s) \o <<"retire", "check", "start", "announce">>)
  /\ UNCHANGED <<ses, con, voiceTurn, entry, gate, text, counts>>

BeginRetire(s) ==
  /\ con[s].cmd \in {"cancel", "interrupt"} /\ ~Running
  /\ MayRetire(s)
  /\ Run(s, "client", "INTERRUPTED", <<"interrupt">> \o Ending(s) \o <<"retire">>)
  /\ UNCHANGED <<ses, con, voiceTurn, entry, gate, lease, text, counts>>

(* What the connection allowed is refused by the session as it now is.     *)
Refused(s) ==
  /\ con[s].cmd # "none" /\ ~Running
  /\ IF con[s].cmd = "start" THEN ~MayStart(s) /\ ~MayBargeIn(s) ELSE ~MayRetire(s)
  /\ Leaving(s)
  /\ UNCHANGED <<voiceTurn, entry, gate, op, lease, text, counts>>

(***************************************************************************)
(* The steps of a transition, s == op.s                                    *)
(***************************************************************************)
Continue == IF Len(op.todo) = 1 THEN Done ELSE Rest
Finished(s, c) == con' = [con EXCEPT ![s] = [c EXCEPT !.cmd = "none"]]

(* An exception: the client's connection leaves, close_session goes on to  *)
(* its finally, the consumer to its handler or, from there, out.           *)
Raises(s, r) ==
  /\ Done
  /\ \/ /\ op.by = "client"
        /\ con' = Left(s)
        /\ ses' = [ses EXCEPT ![s] =
             [r EXCEPT !.stopped = TRUE,
                       !.closing = IF @ \in {"no", "done"} THEN "asked" ELSE @]]
     \/ /\ op.by = "close"
        /\ ses' = [ses EXCEPT ![s] = [r EXCEPT !.closing = "unlisting"]]
        /\ UNCHANGED con
     \/ /\ op.by = "consumer"
        /\ ses' = [ses EXCEPT ![s] =
             [r EXCEPT !.consumer = IF @ = "reading" THEN "failing" ELSE "dead"]]
        /\ UNCHANGED con

ProviderInterrupt(s) ==
  /\ At("interrupt")
  /\ ses[s].provider
  /\ \/ Continue /\ UNCHANGED <<ses, con, counts>>
     \/ ProviderFails /\ Raises(s, ses[s])
  /\ UNCHANGED <<voiceTurn, entry, gate, lease, text>>

TerminalizeTurn(s) ==
  /\ At("end")
  /\ voiceTurn[ses[s].active] = "PROCESSING"
  /\ \/ /\ voiceTurn' = [voiceTurn EXCEPT ![ses[s].active] = op.to]
        /\ Continue /\ UNCHANGED <<ses, con, counts>>
     \/ WriteFails /\ Raises(s, ses[s]) /\ UNCHANGED voiceTurn
  /\ UNCHANGED <<entry, gate, lease, text>>

TellEnded(s) ==
  /\ At("tell")
  /\ Told(s, <<"ended", ses[s].active>>, ses)
  /\ Continue
  /\ UNCHANGED <<con, voiceTurn, entry, gate, lease, text, counts>>

(* The bounded memory of interactions whose late events are ignored.       *)
Remember(r) ==
  IF Contains(r.retired, r.active) THEN r.retired
  ELSE LET all == Append(r.retired, r.active)
       IN IF Len(all) > RetiredLimit THEN Tail(all) ELSE all

Without(r) == [r EXCEPT !.active = 0, !.committed = FALSE, !.said = FALSE, !.state = "IDLE"]

(* The last of interrupt_interaction and cancel_interaction gives the lease *)
(* back; a barge-in keeps it.                                              *)
RetireActive(s) ==
  /\ At("retire")
  /\ ses' = [ses EXCEPT ![s] = Without([ses[s] EXCEPT !.retired = Remember(ses[s]),
                                                      !.stale = @ \/ ses[s].committed])]
  /\ Continue
  /\ IF Len(op.todo) = 1
     THEN /\ lease' = FALSE
          /\ Finished(s, [con[s] EXCEPT !.id = 0, !.committed = FALSE])
     ELSE UNCHANGED <<lease, con>>
  /\ UNCHANGED <<voiceTurn, entry, gate, text, counts>>

CheckContext(s) ==
  /\ At("check")
  /\ IF ses[s].stale
     THEN op' = [op EXCEPT !.todo = <<"reseed">> \o Tail(@)]
     ELSE Continue
  /\ UNCHANGED <<ses, con, voiceTurn, entry, gate, lease, text, counts>>

Undo == op' = [op EXCEPT !.todo = <<"undo">>]
NoProvider(r) == [r EXCEPT !.provider = FALSE, !.consumer = "none", !.serving = {}]

ReseedProvider(s) ==
  /\ At("reseed")
  /\ \/ /\ ses' = [ses EXCEPT ![s] =
             [NoProvider(@) EXCEPT !.provider = TRUE, !.consumer = "reading", !.stale = FALSE]]
        /\ Continue /\ UNCHANGED counts
     \/ /\ ProviderFails
        /\ ses' = [ses EXCEPT ![s] = NoProvider(@)]
        /\ Undo
  /\ UNCHANGED <<con, voiceTurn, entry, gate, lease, text>>

ProviderStart(s) ==
  /\ At("start")
  /\ ses[s].provider
  /\ \/ /\ interactions' = interactions + 1
        /\ ses' = [ses EXCEPT ![s].active = interactions + 1, ![s].state = "ACTIVE",
                              ![s].serving = @ \cup {interactions + 1}]
        /\ Continue /\ UNCHANGED <<failures, errors>>
     \/ ProviderFails /\ Undo /\ UNCHANGED ses
  /\ UNCHANGED <<con, voiceTurn, entry, gate, lease, text>>

AnnounceStarted(s) ==
  /\ At("announce")
  /\ \/ /\ CannotTell(s) /\ Undo /\ UNCHANGED <<ses, con>>
     \/ /\ ~ses[s].stopped /\ Room(s)
        /\ ses' = Put(s, <<"news", 0>>)
        /\ Finished(s, [con[s] EXCEPT !.id = ses[s].active, !.committed = FALSE])
        /\ Continue
  /\ UNCHANGED <<voiceTurn, entry, gate, lease, text, counts>>

(* The handler of start_interaction: the provider is closed first, and when *)
(* that raises nothing after it is done.                                   *)
UndoStart(s) ==
  /\ At("undo")
  /\ \/ /\ Raises(s, [Without(NoProvider(ses[s])) EXCEPT !.stale = TRUE])
        /\ lease' = FALSE /\ UNCHANGED counts
     \/ /\ ses[s].provider /\ FaultOnClose
        /\ Raises(s, NoProvider(ses[s]))
        /\ UNCHANGED lease
  /\ UNCHANGED <<voiceTurn, entry, gate, text>>

PersistVoiceTurn(s) ==
  /\ At("persist")
  /\ \/ voiceTurn' = [voiceTurn EXCEPT ![ses[s].active] = "PROCESSING"] /\ Continue /\ UNCHANGED <<ses, con, counts>>
     \/ WriteFails /\ Raises(s, ses[s]) /\ UNCHANGED voiceTurn
  /\ UNCHANGED <<entry, gate, lease, text>>

TellNews(s) ==
  /\ At("news")
  /\ \/ /\ ~ses[s].stopped /\ Room(s)
        /\ ses' = Put(s, <<"news", 0>>)
        /\ Continue
     \/ /\ CannotTell(s)
        /\ ses' = [ses EXCEPT ![s].consumer = "dead"]
        /\ Done
  /\ UNCHANGED <<con, voiceTurn, entry, gate, lease, text, counts>>

CompleteTurn(s) ==
  /\ At("complete")
  /\ \/ /\ voiceTurn' = [voiceTurn EXCEPT ![ses[s].active] = "COMPLETED"]
        /\ Continue /\ UNCHANGED <<ses, con, counts>>
     \/ WriteFails /\ Raises(s, ses[s]) /\ UNCHANGED voiceTurn
  /\ UNCHANGED <<entry, gate, lease, text>>

(* mark_context_changed: the others' contexts are behind.                  *)
CountContext(s) ==
  /\ At("count")
  /\ ses' = [o \in Session |-> IF o = s THEN ses[o]
                               ELSE [ses[o] EXCEPT !.stale = ses[o].state \in Live]]
  /\ Continue
  /\ UNCHANGED <<con, voiceTurn, entry, gate, lease, text, counts>>

(* A mutant of Dismiss.                                                   *)
DismissKeepingLease(s) ==
  /\ At("dismiss")
  /\ ses' = [ses EXCEPT ![s] = Without([ses[s] EXCEPT !.stale = @ \/ op.to = "FAILED"])]
  /\ Continue
  /\ UNCHANGED <<con, voiceTurn, entry, gate, lease, text, counts>>

(* _release_interaction; a failed response makes the context stale.        *)
Dismiss(s) ==
  /\ At("dismiss")
  /\ ses' = [ses EXCEPT ![s] = Without([ses[s] EXCEPT !.stale = @ \/ op.to = "FAILED"])]
  /\ lease' = FALSE
  /\ Continue
  /\ UNCHANGED <<con, voiceTurn, entry, gate, text, counts>>

(* The session is FAILED before its provider is closed.                    *)
FailSession(s) ==
  /\ At("fail")
  /\ LET failed == [ses[s] EXCEPT !.state = "FAILED", !.provider = FALSE, !.serving = {},
                                  !.consumer = "ending", !.retired = <<>>, !.stale = FALSE]
     IN \/ ses' = [ses EXCEPT ![s] = failed] /\ Continue /\ UNCHANGED <<con, counts>>
        \/ FaultOnClose /\ Raises(s, failed)
  /\ UNCHANGED <<voiceTurn, entry, gate, lease, text>>

ShutSession(s) ==
  /\ At("shut")
  /\ ses' = [ses EXCEPT ![s] = [NoProvider(@) EXCEPT !.state = "CLOSED", !.retired = <<>>, !.stale = FALSE]]
  /\ Continue
  /\ UNCHANGED <<con, voiceTurn, entry, gate, lease, text, counts>>

TellOver(s) ==
  /\ At("over")
  /\ Told(s, <<"over", 0>>,
          [ses EXCEPT ![s].over = TRUE,
                      ![s].closing = IF op.by = "close" THEN "unlisting" ELSE @])
  /\ Continue
  /\ UNCHANGED <<con, voiceTurn, entry, gate, lease, text, counts>>

UnlistFailed(s) ==
  /\ At("unlist") /\ gate = "none"
  /\ entry' = "none"
  /\ ses' = [ses EXCEPT ![s].consumer = "dead"]
  /\ Continue
  /\ UNCHANGED <<con, voiceTurn, gate, lease, text, counts>>

Step ==
  \/ ProviderInterrupt(op.s) \/ TerminalizeTurn(op.s) \/ TellEnded(op.s)
  \/ RetireActive(op.s) \/ CheckContext(op.s) \/ ReseedProvider(op.s)
  \/ ProviderStart(op.s) \/ AnnounceStarted(op.s) \/ UndoStart(op.s)
  \/ PersistVoiceTurn(op.s) \/ TellNews(op.s) \/ CompleteTurn(op.s)
  \/ CountContext(op.s) \/ Dismiss(op.s) \/ FailSession(op.s)
  \/ ShutSession(op.s) \/ TellOver(op.s) \/ UnlistFailed(op.s)

(***************************************************************************)
(* What the provider says: _consume_provider_events                        *)
(***************************************************************************)
Reading(s) == ~Running /\ ses[s].consumer = "reading" /\ ses[s].provider

(* The adapter knows the interaction that it is answering.                 *)
Serves(s) == Reading(s) /\ ses[s].active \in ses[s].serving

Hear(s, todo, r) ==
  /\ Run(s, "consumer", "none", todo)
  /\ ses' = [ses EXCEPT ![s] = r]
  /\ UNCHANGED <<con, voiceTurn, entry, gate, lease, text, counts>>

HearPartial(s) == Reading(s) /\ ses[s].active # 0 /\ Hear(s, <<"news">>, ses[s])

HearUser(s) ==
  /\ Serves(s) /\ voiceTurn[ses[s].active] = "none"
  /\ Hear(s, <<"persist", "news", "news">>, ses[s])

HearAssistant(s) ==
  /\ Serves(s) /\ voiceTurn[ses[s].active] # "none"
  /\ ~ses[s].said
  /\ Hear(s, <<"news">>, [ses[s] EXCEPT !.said = TRUE])

HearCompleted(s) ==
  /\ Serves(s)
  /\ voiceTurn[ses[s].active] = "PROCESSING" /\ ses[s].said
  /\ Hear(s, <<"complete", "tell", "count", "dismiss">>,
          [ses[s] EXCEPT !.serving = @ \ {ses[s].active}])

HearFailed(s) ==
  /\ Serves(s)
  /\ Run(s, "consumer", "FAILED",
         (IF voiceTurn[ses[s].active] = "none" THEN <<"tell">> ELSE <<"end", "tell">>) \o <<"dismiss">>)
  /\ ses' = [ses EXCEPT ![s].serving = @ \ {ses[s].active}]
  /\ UNCHANGED <<con, voiceTurn, entry, gate, lease, text, counts>>

(* _protocol_failure_locked.  That it and _fail_session_locked also retire *)
(* the interaction is not kept: no one asks a FAILED session.              *)
FailProtocol(s) ==
  LET i == ses[s].active
  IN /\ Run(s, "consumer", "FAILED",
            (IF i = 0 THEN <<>>
             ELSE (IF voiceTurn[i] = "none" THEN <<"tell">> ELSE <<"end", "tell">>) \o <<"dismiss">>)
            \o <<"fail", "over", "unlist">>)
     /\ UNCHANGED <<ses, con, voiceTurn, entry, gate, lease, text>>

ProtocolBreach(s) == Reading(s) /\ ProviderFails /\ FailProtocol(s)

(* A mutant of HearLate.                                                  *)
HearLateOfAny(s, i) ==
  /\ Reading(s) /\ i \in ses[s].serving \ {ses[s].active}
  /\ Run(s, "consumer", "none", <<"complete", "tell", "count", "dismiss">>)
  /\ UNCHANGED <<ses, con, voiceTurn, entry, gate, lease, text, counts>>

(* The last event of an interaction that is over: ignored while remembered. *)
HearLate(s, i) ==
  /\ Reading(s) /\ i \in ses[s].serving \ {ses[s].active}
  /\ \/ /\ Contains(ses[s].retired, i)
        /\ ses' = [ses EXCEPT ![s].serving = @ \ {i}]
        /\ UNCHANGED <<con, voiceTurn, entry, gate, op, lease, text, counts>>
     \/ /\ ~Contains(ses[s].retired, i)
        /\ FailProtocol(s) /\ UNCHANGED counts

(* The stream ends, raises, or says that the provider's session failed.    *)
StreamEnds(s) ==
  /\ ses[s].consumer = "reading" /\ ses[s].provider /\ ~(Running /\ op.s = s /\ op.by = "consumer")
  /\ ProviderFails
  /\ ses' = [ses EXCEPT ![s].consumer = "failing"]
  /\ UNCHANGED <<con, voiceTurn, entry, gate, op, lease, text>>

(* _fail_current_provider_session                                          *)
FailBegins(s) ==
  /\ ses[s].consumer = "failing" /\ ~Running
  /\ \/ /\ ses[s].provider /\ ses[s].state \in Live
        /\ Run(s, "consumer", "FAILED",
               Ending(s) \o (IF ses[s].active = 0 THEN <<>> ELSE <<"dismiss">>)
               \o <<"fail", "over", "unlist">>)
        /\ ses' = [ses EXCEPT ![s].consumer = "ending"]
     \/ /\ ~ses[s].provider \/ Ended(s)
        /\ ses' = [ses EXCEPT ![s].consumer = "dead"]
        /\ UNCHANGED op
  /\ UNCHANGED <<con, voiceTurn, entry, gate, lease, text, counts>>

(***************************************************************************)
(* close_session; when the Core stops, after its boundary, close_all calls *)
(* it for the sessions that are left                                       *)
(***************************************************************************)
CoreCloses(s) ==
  /\ ses[s].state \in Live /\ ses[s].closing \in {"no", "done"}
  /\ \A o \in Session : con[o].at = "gone"
  /\ ses' = [ses EXCEPT ![s].closing = "asked"]
  /\ UNCHANGED <<con, voiceTurn, entry, gate, op, lease, text, counts>>

CloseBegins(s) ==
  /\ ses[s].closing = "asked" /\ ~Running
  /\ \/ /\ ses[s].state \in Live
        /\ Run(s, "close", "INTERRUPTED",
               Ending(s) \o (IF ses[s].active = 0 THEN <<>> ELSE <<"dismiss">>) \o <<"shut", "over">>)
        /\ ses' = [ses EXCEPT ![s].closing = "running"]
     \/ /\ ~(ses[s].state \in Live)
        /\ ses' = [ses EXCEPT ![s].closing = "unlisting"]
        /\ UNCHANGED op
  /\ UNCHANGED <<con, voiceTurn, entry, gate, lease, text, counts>>

(* A mutant of UnlistClosed.                                              *)
UnlistAny(s) ==
  /\ ses[s].closing = "unlisting" /\ gate = "none"
  /\ entry' = "none"
  /\ ses' = [ses EXCEPT ![s].closing = "done"]
  /\ con' = [con EXCEPT ![s].at = IF @ = "leaving" THEN "gone" ELSE @]
  /\ UNCHANGED <<voiceTurn, gate, op, lease, text, counts>>

UnlistClosed(s) ==
  /\ ses[s].closing = "unlisting" /\ gate = "none"
  /\ entry' = IF entry = s THEN "none" ELSE entry
  /\ ses' = [ses EXCEPT ![s].closing = "done"]
  /\ con' = [con EXCEPT ![s].at = IF @ = "leaving" THEN "gone" ELSE @]
  /\ UNCHANGED <<voiceTurn, gate, op, lease, text, counts>>

(***************************************************************************)
(* The sender of a connection: _forward_events over events()               *)
(***************************************************************************)
Sending(s) == Claimed(s) /\ ~ses[s].stopped

(* The end of an interaction opens the connection for the next one.        *)
Forward(s) ==
  /\ Sending(s) /\ ses[s].queue # <<>>
  /\ LET e == Head(ses[s].queue)
     IN /\ ses' = [ses EXCEPT ![s] = IF e[1] = "over" THEN Stopped(@) ELSE [ses[s] EXCEPT !.queue = Tail(@)]]
        /\ con' = [con EXCEPT ![s] =
             IF e[1] = "over" /\ @.at = "open" THEN Gone
             ELSE IF e[1] = "ended" /\ e[2] = @.id THEN [@ EXCEPT !.id = 0, !.committed = FALSE]
             ELSE @]
  /\ UNCHANGED <<voiceTurn, entry, gate, op, lease, text, counts>>

(* A stream that ends without a last event, or a socket that fails.        *)
SenderEnds(s) ==
  /\ Sending(s)
  /\ ses' = [ses EXCEPT ![s] = Stopped(@)]
  /\ UNCHANGED <<con, voiceTurn, entry, gate, op, lease, text, counts>>

Begin(s) ==
  \/ interactions < MaxInteractions /\ BeginStart(s)
  \/ BeginRetire(s)
  \/ Refused(s)

RealtimeNext ==
  \/ Step
  \/ TextBegins \/ TextEnds
  \/ \E s \in Session :
       \/ OpenBegins(s) \/ OpenRegisters(s) \/ OpenReturns(s) \/ OpeningFails(s)
       \/ \E cmd \in {"start", "cancel", "interrupt"} : Command(s, cmd)
       \/ Disconnect(s) \/ ClientCloses(s) \/ Commit(s) \/ Begin(s)
       \/ HearPartial(s) \/ HearUser(s) \/ HearAssistant(s) \/ HearCompleted(s)
       \/ HearFailed(s) \/ ProtocolBreach(s) \/ StreamEnds(s) \/ FailBegins(s)
       \/ \E i \in Talk : HearLate(s, i)
       \/ CoreCloses(s) \/ CloseBegins(s) \/ UnlistClosed(s)
       \/ Forward(s) \/ SenderEnds(s)

RealtimeSpec == RealtimeInit /\ [][RealtimeNext]_realtimeVars

(***************************************************************************)
(* Properties                                                              *)
(***************************************************************************)

(* The voice lease has somebody who will give it back.                     *)
LeaseInHand ==
  \/ \E s \in Session : con[s].at \in {"opening", "registered"} \/ ses[s].active # 0
  \/ \E k \in DOMAIN op.todo : op.todo[k] \in {"announce", "undo"}

LeaseAttended == lease = LeaseInHand

(* The lease of the Conversation and those who hold it change together,    *)
(* through barge-ins, races of close and failure, and errors, with one     *)
(* exception: a start that failed and whose provider cannot be closed      *)
(* either leaves a lease that nobody will give back.                       *)
LeaseLostOnlyInUndo ==
  [][LeaseAttended /\ ~LeaseAttended' => At("undo")]_realtimeVars

(* A voice Turn that is PROCESSING belongs to the active interaction of a  *)
(* live session: whoever ends the session finds the Turn and ends it too.  *)
TurnAttended ==
  \A i \in Talk : voiceTurn[i] = "PROCESSING" =>
    \E s \in Session : ses[s].active = i /\ ses[s].state = "ACTIVE"

(* A Turn changes only while its interaction is the active one, is         *)
(* completed only by its own answer, and never changes once it has ended:  *)
(* no late event, closing or failing session touches another's Turn.       *)
TurnEndsOnce ==
  [][\A i \in Talk : voiceTurn'[i] # voiceTurn[i] =>
       /\ voiceTurn[i] \notin Terminal
       /\ \E s \in Session : /\ ses[s].active = i
                             /\ voiceTurn'[i] = "COMPLETED" => ses[s].said]_realtimeVars

(* _conversation_sessions forgets a live session in two ways only: another *)
(* session fails late, or closing it raised before it was CLOSED.          *)
EntryForgotten ==
  [][\A s \in LiveSessions : s \in LiveSessions' /\ entry = s /\ entry' # s =>
       \/ At("unlist") /\ op.s # s
       \/ ses[s].closing = "unlisting" /\ errors > 0]_realtimeVars

(* A transition that waits, waits for a sender that is still there or for  *)
(* a session that is being opened: never for a queue that nobody empties.  *)
TransitionMoves == Running => ENABLED Step \/ Sending(op.s) \/ gate # "none"

(* A session that was closed has ended, with its lease and its Turn, unless *)
(* the end of the Turn could not be stored.                                *)
ClosedIsOver ==
  \A s \in Session : ses[s].closing = "done" => ses[s].state \notin Live \/ errors > 0

(* Sessions are in order at every step: every PROCESSING Turn is attended, *)
(* and a session that was closed is over.                                  *)
SessionsInOrder == RealtimeTypeOK /\ TurnAttended /\ ClosedIsOver

(* No session touches what is another's: its Turns, or its entry.          *)
SessionsKeepApart == TurnEndsOnce /\ EntryForgotten
==============================================================================
