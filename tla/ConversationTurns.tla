--------------------------- MODULE ConversationTurns ---------------------------
(***************************************************************************)
(* One Conversation: its text requests (ConversationRuntime.send_text and  *)
(* stream_text), its realtime voice session and the coordinator that keeps *)
(* text and voice apart (ConversationActivityCoordinator).                 *)
(*                                                                         *)
(* A request waits for text_lock, persists its Turn, loads the completed   *)
(* Turns it answers from, works and finalises the Turn; it may be          *)
(* cancelled, or fail, at every await.  The coordinator's gate is never    *)
(* held over an await, so what is done under it is one step; text_lock is  *)
(* held by the request that is inside, and the order of its queue is       *)
(* abstracted.  Of a voice interaction only its lease and what its         *)
(* provider was told of the Conversation are kept, and of the session's    *)
(* transitions those that voice_transition serialises.                     *)
(***************************************************************************)
EXTENDS Integers, FiniteSets

CONSTANTS
  Request,    (* text requests of the Conversation                         *)
  Streamed,   (* those made by stream_text                                 *)
  MaxTalks,   (* bound: voice interactions                                 *)
  MaxFaults   (* bound: cancellations, errors and crashes                  *)

ASSUME RequestAssumption == IsFiniteSet(Request) /\ Streamed \subseteq Request
ASSUME BoundAssumption == MaxTalks \in Nat /\ MaxFaults \in Nat

VARIABLES
  pc,           (* where each request is                                   *)
  turn,         (* the status of its Turn, "NONE" while it has none        *)
  cut,          (* requests cancelled while their final commit went through *)
  pending,      (* pending_text                                            *)
  voiceActive,  (* voice_active                                            *)
  revision,     (* context_revision                                        *)
  session,      (* where the voice session is                              *)
  known,        (* the Turns its provider was seeded with                  *)
  synced,       (* synced_context_revision                                 *)
  stale,        (* provider_context_stale                                  *)
  talks,
  faults

texts == <<pc, turn, cut, pending, revision>>
voice == <<voiceActive, session, known, synced, stale, talks>>
vars  == <<texts, voice, faults>>

Final  == {"COMPLETED", "FAILED", "INTERRUPTED"}
Inside == {"persist", "audit", "load", "work", "last", "interrupt"}
Over   == {"done", "raised"}

(* The sessions that took the voice lease and have not given it back.      *)
Holding == {"opening", "reading", "opened", "check", "reseeding", "resyncing",
            "starting", "ACTIVE"}

TypeOK ==
  /\ pc \in [Request -> {"idle", "queued"} \cup Inside \cup Over]
  /\ turn \in [Request -> Final \cup {"NONE", "PROCESSING"}]
  /\ cut \subseteq Request
  /\ pending \in Int
  /\ voiceActive \in BOOLEAN
  /\ revision \in Nat
  /\ session \in {"CLOSED", "IDLE"} \cup Holding
  /\ known \subseteq Request
  /\ synced \in Nat
  /\ stale \in BOOLEAN
  /\ talks \in 0 .. MaxTalks
  /\ faults \in 0 .. MaxFaults

Init ==
  /\ pc = [t \in Request |-> "idle"]
  /\ turn = [t \in Request |-> "NONE"]
  /\ cut = {}
  /\ pending = 0
  /\ voiceActive = FALSE
  /\ revision = 0
  /\ session = "CLOSED"
  /\ known = {}
  /\ synced = 0
  /\ stale = FALSE
  /\ talks = 0
  /\ faults = 0

Queue     == {t \in Request : pc[t] = "queued"}
Active    == {t \in Request : pc[t] \in Inside}     (* text_active: not empty *)
Completed == {t \in Request : turn[t] = "COMPLETED"}

Goto(t, where) == pc' = [pc EXCEPT ![t] = where]
Write(t, status) == turn' = [turn EXCEPT ![t] = status]
Fault == faults < MaxFaults /\ faults' = faults + 1

(***************************************************************************)
(* text_activity                                                           *)
(***************************************************************************)
LockFree == Active = {} /\ Queue = {}

Arrive(t) ==
  /\ pc[t] = "idle"
  /\ ~voiceActive
  /\ IF LockFree
     THEN Goto(t, "persist") /\ UNCHANGED pending
     ELSE Goto(t, "queued") /\ pending' = pending + 1
  /\ UNCHANGED <<turn, cut, revision, voice, faults>>

(* A mutant of Granted.                                                   *)
GrantedUnlessVoice(t) ==
  /\ pc[t] = "queued" /\ Active = {} /\ ~voiceActive
  /\ Goto(t, "persist")
  /\ pending' = pending - 1
  /\ UNCHANGED <<turn, cut, revision, voice, faults>>

Granted(t) ==
  /\ pc[t] = "queued" /\ Active = {}
  /\ Goto(t, "persist")
  /\ pending' = pending - 1
  /\ UNCHANGED <<turn, cut, revision, voice, faults>>

(* except BaseException: also when the request was no longer waiting.      *)
TakeBack == IF pending > 0 THEN pending - 1 ELSE pending

GiveUp(t) ==
  /\ pc[t] = "queued"
  /\ Fault
  /\ Goto(t, "raised")
  /\ pending' = TakeBack
  /\ UNCHANGED <<turn, cut, revision, voice>>

(***************************************************************************)
(* A request that holds text_lock                                          *)
(***************************************************************************)
AfterPersist(t) == IF t \in Streamed THEN "audit" ELSE "load"

Persist(t) ==
  /\ pc[t] = "persist"
  /\ Write(t, "PROCESSING")
  /\ Goto(t, AfterPersist(t))
  /\ UNCHANGED <<cut, pending, revision, voice, faults>>

Audited(t) ==
  /\ pc[t] = "audit"
  /\ Goto(t, "load")
  /\ UNCHANGED <<turn, cut, pending, revision, voice, faults>>

Load(t) ==
  /\ pc[t] = "load" /\ turn[t] = "PROCESSING"
  /\ Goto(t, "work")
  /\ UNCHANGED <<turn, cut, pending, revision, voice, faults>>

(* A mutant of Finalize.                                                  *)
FinalizeUnmarked(t, status) ==
  /\ pc[t] = "work" \/ (pc[t] = "load" /\ status = "FAILED")
  /\ turn[t] = "PROCESSING"
  /\ Write(t, status)
  /\ Goto(t, "last")
  /\ UNCHANGED <<cut, pending, revision, voice, faults>>

(* _finalize_success marks the context changed, _finalize_failure does not; *)
(* a request that finds no model fails before it loads.                    *)
Finalize(t, status) ==
  /\ pc[t] = "work" \/ (pc[t] = "load" /\ status = "FAILED")
  /\ turn[t] = "PROCESSING"
  /\ Write(t, status)
  /\ revision' = IF status = "COMPLETED" THEN revision + 1 ELSE revision
  /\ Goto(t, "last")
  /\ UNCHANGED <<cut, pending, voice, faults>>

Leave(t) ==
  /\ pc[t] = "last"
  /\ Goto(t, "done")
  /\ UNCHANGED <<turn, cut, pending, revision, voice, faults>>

(* The body raised: text_active ends, the lock is free, the count is taken back. *)
Raised(t) == Goto(t, "raised") /\ pending' = TakeBack

(* An error, or a cancellation that no handler of the Turn catches; a commit *)
(* that is cancelled may have gone through.                                *)
Raise(t) ==
  /\ pc[t] \in Inside /\ (pc[t] = "last" => t \in Streamed)
  /\ Fault
  /\ \/ UNCHANGED turn
     \/ pc[t] = "persist" /\ Write(t, "PROCESSING")
  /\ Raised(t)
  /\ UNCHANGED <<cut, revision, voice>>

(* A stream that is cancelled or closed inside its try.                    *)
Cancel(t) ==
  /\ t \in Streamed /\ pc[t] \in {"load", "work"}
  /\ Fault
  /\ Goto(t, "interrupt")
  /\ UNCHANGED <<turn, cut, pending, revision, voice>>

(* Cancelled between the final commit and mark_context_changed.            *)
CancelInCommit(t, status) ==
  /\ pc[t] = "work" /\ turn[t] = "PROCESSING"
  /\ Fault
  /\ Write(t, status)
  /\ cut' = cut \cup {t}
  /\ IF t \in Streamed THEN Goto(t, "interrupt") /\ UNCHANGED pending ELSE Raised(t)
  /\ UNCHANGED <<revision, voice>>

(* _finalize_interruption: a Turn that is no longer PROCESSING is a conflict, *)
(* and the request raises either way.                                      *)
Interrupted(t) ==
  /\ pc[t] = "interrupt"
  /\ IF turn[t] = "PROCESSING" THEN Write(t, "INTERRUPTED") ELSE UNCHANGED turn
  /\ Raised(t)
  /\ UNCHANGED <<cut, revision, voice, faults>>

(***************************************************************************)
(* The voice session                                                       *)
(***************************************************************************)
(* A mutant of MayTalk.                                                   *)
MayTalkIgnoringQueue == ~voiceActive /\ Active = {}
MayTalk == ~voiceActive /\ Active = {} /\ pending = 0

OpenSession ==
  /\ session = "CLOSED" /\ MayTalk
  /\ session' = "opening" /\ voiceActive' = TRUE
  /\ UNCHANGED <<texts, known, synced, stale, talks, faults>>

(* The seed: of open_session, and of _reseed_provider.                     *)
LoadTurns ==
  /\ session \in {"opening", "reseeding"}
  /\ session' = IF session = "opening" THEN "reading" ELSE "resyncing"
  /\ known' = Completed
  /\ UNCHANGED <<texts, voiceActive, synced, stale, talks, faults>>

ReadRevision ==
  /\ session \in {"reading", "resyncing"}
  /\ session' = IF session = "reading" THEN "opened" ELSE "starting"
  /\ synced' = revision
  /\ stale' = FALSE
  /\ UNCHANGED <<texts, voiceActive, known, talks, faults>>

Opened ==
  /\ session = "opened"
  /\ session' = "IDLE" /\ voiceActive' = FALSE
  /\ UNCHANGED <<texts, known, synced, stale, talks, faults>>

(* A session that was already registered when its opening failed stays.    *)
OpenFails ==
  /\ session \in {"opening", "reading", "opened"}
  /\ Fault
  /\ \/ session' = "CLOSED"
     \/ session = "opened" /\ session' = "IDLE"
  /\ voiceActive' = FALSE
  /\ UNCHANGED <<texts, known, synced, stale, talks>>

StartInteraction ==
  /\ session = "IDLE" /\ MayTalk
  /\ talks < MaxTalks /\ talks' = talks + 1
  /\ session' = "check" /\ voiceActive' = TRUE
  /\ UNCHANGED <<texts, known, synced, stale, faults>>

(* A barge-in retires the interaction and keeps its lease.                 *)
BargeIn ==
  /\ session = "ACTIVE"
  /\ talks < MaxTalks /\ talks' = talks + 1
  /\ session' = "check" /\ stale' = TRUE
  /\ UNCHANGED <<texts, voiceActive, known, synced, faults>>

Check ==
  /\ session = "check"
  /\ session' = IF stale \/ synced # revision THEN "reseeding" ELSE "starting"
  /\ UNCHANGED <<texts, voiceActive, known, synced, stale, talks, faults>>

Started ==
  /\ session = "starting"
  /\ session' = "ACTIVE"
  /\ UNCHANGED <<texts, voiceActive, known, synced, stale, talks, faults>>

(* The handler closes the provider first: when that fails too, the lease   *)
(* is not released and the session has lost it.                            *)
StartFails ==
  /\ session \in {"check", "reseeding", "resyncing", "starting"}
  /\ Fault
  /\ session' = "IDLE"
  /\ \/ stale' = TRUE /\ voiceActive' = FALSE
     \/ UNCHANGED <<stale, voiceActive>>
  /\ UNCHANGED <<texts, known, synced, talks>>

(* The provider completes the response: its Turn is stored and counted.    *)
ResponseCompleted ==
  /\ session = "ACTIVE"
  /\ revision' = revision + 1
  /\ synced' = revision + 1
  /\ session' = "IDLE" /\ voiceActive' = FALSE
  /\ UNCHANGED <<pc, turn, cut, pending, known, stale, talks, faults>>

(* interrupt_interaction and a failed response make the context stale,     *)
(* cancel_interaction leaves it.                                           *)
Retire ==
  /\ session = "ACTIVE"
  /\ session' = "IDLE" /\ voiceActive' = FALSE
  /\ stale' = TRUE \/ UNCHANGED stale
  /\ UNCHANGED <<texts, known, synced, talks, faults>>

(* close_session, and the failure of the provider's session.               *)
CloseSession ==
  /\ session \in {"IDLE", "ACTIVE"}
  /\ session' = "CLOSED"
  /\ \/ session = "ACTIVE" /\ voiceActive' = FALSE
     \/ session = "IDLE" /\ UNCHANGED voiceActive
  /\ UNCHANGED <<texts, known, synced, stale, talks, faults>>

(* The process dies: only the Turns survive, and nothing takes up the      *)
(* PROCESSING ones.                                                        *)
Crash ==
  /\ Fault
  /\ pc' = [t \in Request |-> IF pc[t] \in {"idle", "done"} THEN pc[t] ELSE "raised"]
  /\ pending' = 0 /\ revision' = 0
  /\ voiceActive' = FALSE /\ session' = "CLOSED"
  /\ known' = {} /\ synced' = 0 /\ stale' = FALSE
  /\ UNCHANGED <<turn, cut, talks>>

TextStep(t) ==
  \/ Granted(t)
  \/ Persist(t)
  \/ Audited(t)
  \/ Load(t)
  \/ \E status \in {"COMPLETED", "FAILED"} : Finalize(t, status)
  \/ Interrupted(t)
  \/ Leave(t)

TextFault(t) ==
  \/ GiveUp(t)
  \/ Raise(t)
  \/ Cancel(t)
  \/ \E status \in {"COMPLETED", "FAILED"} : CancelInCommit(t, status)

VoiceStep ==
  \/ OpenSession
  \/ LoadTurns
  \/ ReadRevision
  \/ Opened
  \/ OpenFails
  \/ StartInteraction
  \/ BargeIn
  \/ Check
  \/ Started
  \/ StartFails
  \/ ResponseCompleted
  \/ Retire
  \/ CloseSession

Next ==
  \/ \E t \in Request : Arrive(t) \/ TextStep(t) \/ TextFault(t)
  \/ VoiceStep
  \/ Crash

Spec == Init /\ [][Next]_vars

(* The event loop and the timeouts of the providers move every request that *)
(* was accepted; nobody has to arrive, to talk or to stop talking.         *)
FairSpec == Spec /\ \A t \in Request : WF_vars(TextStep(t))

(***************************************************************************)
(* Properties                                                              *)
(***************************************************************************)

(* A voice activity and a text activity are never inside together:         *)
(* text_activity and acquire_voice_activity each promise to reject the     *)
(* other.  The code breaks it, see CountIsRight.                           *)
NeverBoth == ~(session \in Holding /\ Active # {})

(* pending_text counts the requests that wait for the text lock.           *)
CountIsRight == pending = Cardinality(Queue)

(* While the count is right, voice and text exclude each other, whatever   *)
(* is cancelled, barges in, fails to start or crashes.                    *)
VoiceExcludesText == CountIsRight => NeverBoth

(* Only one thing loses count: a request that raises while it holds the    *)
(* lock and another waits, as text_activity's handler takes the other's    *)
(* share back.                                                             *)
OnlyARaiseLosesCount ==
  [][CountIsRight /\ ~CountIsRight'
       => \E t \in Request : /\ pc[t] \in Inside /\ pc'[t] = "raised"
                             /\ Queue # {}]_vars

(* Text is serialised: while a request works from the Turns it loaded, no  *)
(* other request completes one.                                            *)
ContextStaysPut ==
  [][\A t \in Request : pc[t] = "work" /\ pc'[t] = "work" => Completed' = Completed]_vars

(* A final Turn is never rewritten, though a stream whose last commit is   *)
(* cancelled runs its interruption over it.                                *)
TurnIsFinal ==
  [][\A t \in Request : turn[t] \in Final => turn'[t] = turn[t]]_vars

(* What the session relies on: its provider knows every completed Turn, or *)
(* the next start_interaction will notice that it does not.  A Turn whose  *)
(* commit was cut before mark_context_changed is the exception.            *)
InSync ==
  \/ session \in {"reading", "resyncing", "opened", "starting", "ACTIVE"}
  \/ session \in {"IDLE", "check"} /\ ~stale /\ synced = revision
  => Completed \ cut \subseteq known

(* A voice provider falls behind the Conversation unnoticed only when text *)
(* and voice overlap: context_revision covers every other order of events. *)
VoiceLagsOnlyInOverlap ==
  [][InSync /\ ~InSync' => ~NeverBoth]_vars

(* A request that was accepted ends, whatever voice does.                  *)
AcceptedTextEnds ==
  \A t \in Request : pc[t] = "queued" ~> pc[t] \in Over

(* At every step the records are of their types and, as long as nobody has *)
(* miscounted the queue, text and voice exclude each other.                *)
TextAndVoiceApart == TypeOK /\ VoiceExcludesText

(* The order of the Conversation survives every interleaving: the queue is *)
(* miscounted only by a request that raises, no Turn is completed under    *)
(* the context another is answered from, none is rewritten, and voice      *)
(* falls behind only in an overlap.                                        *)
OrderIsKept ==
  /\ OnlyARaiseLosesCount
  /\ ContextStaysPut
  /\ TurnIsFinal
  /\ VoiceLagsOnlyInOverlap
==============================================================================
