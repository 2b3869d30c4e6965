----------------------------- MODULE DesktopVoice -----------------------------
(***************************************************************************)
(* Voice in the desktop application: three threads of one process.  The    *)
(* worker (ClientWorker) takes clicks and events one slot at a time from   *)
(* its Qt queue and calls the runtime through a                            *)
(* NativeRealtimeVoiceConnection; the pump reads the events of one session *)
(* and puts them into that queue; the runtime's loop owns the sessions.    *)
(* While the worker waits for an answer of the runtime, sessions fail,     *)
(* interactions end, the pump reads on and the user clicks.                *)
(*                                                                         *)
(* A call of the runtime is one step here: module RealtimeSession shows    *)
(* what happens inside.  One Conversation; choosing another one stops the  *)
(* voice as the stop button does.  Left out: text turns and dashboards of  *)
(* the same worker, transcripts, audio content and its conversion, frames  *)
(* of the microphone (an error of send_audio is passed over).              *)
(***************************************************************************)
EXTENDS Naturals, Sequences

CONSTANTS
  MaxStarts,    (* bound: clicks on start; each makes a connection and an  *)
                (* interaction at most, and two sessions                   *)
  MaxClicks,    (* bound: other clicks                                     *)
  MaxFaults     (* bound: calls that raise or come back too late, devices  *)
                (* that do not start, a stream that breaks                 *)

ASSUME DesktopVoiceAssumption ==
  {MaxStarts, MaxClicks, MaxFaults} \subseteq Nat

Voice == 1 .. MaxStarts
Session == 1 .. (2 * MaxStarts)
Interaction == 1 .. MaxStarts
Nobody == 0

VARIABLES
  app,       (* the thread of SofiaApplication                             *)
  slot,      (* what the worker is doing                                   *)
  after,     (* why it closes a voice                                      *)
  closing,   (* the connection it closes                                   *)
  status,    (* VoiceState, what the window shows                         *)
  voice,     (* its connection                                             *)
  conn,      (* connections: session, interaction, committed; replaced:    *)
             (* it has discarded a session (history)                       *)
  mic,       (* the microphone runs                                        *)
  inbox,     (* the worker's Qt queue                                      *)
  pump,      (* the pump thread: its connection and session                *)
  deaf,      (* a voice was bound while another session's pump lived       *)
  ses,       (* runtime sessions                                           *)
  queue,     (* their undelivered events                                   *)
  starts,    (* interactions started                                       *)
  asked, clicks,   (* clicks on start, and others                          *)
  faults

worker == <<slot, after, closing, status, voice, conn, mic, deaf>>
runtime == <<ses, queue, starts>>
user == <<asked, clicks>>
vars == <<app, worker, inbox, pump, runtime, user, faults>>

VoiceStates == {"IDLE", "CONNECTING", "LISTENING", "RESPONDING", "READY", "INTERRUPTED", "ERROR"}
Clicks == {"start", "commit", "stop", "interrupt", "quit"}
Kinds == {"audio", "completed", "failed", "interrupted", "lost", "closed", "broken"}
Click(k) == [kind |-> k, voice |-> Nobody, session |-> Nobody]

Unused == [state |-> "unused", active |-> Nobody, committed |-> FALSE, turn |-> FALSE, spoken |-> FALSE]
Silent == [state |-> "ended", voice |-> Nobody, session |-> Nobody]

TypeOK ==
  /\ app \in {"new", "ready", "stopping", "stopped"}
  /\ slot \in {"free", "open", "start", "discard", "reopen", "restart", "bind", "commit",
               "interrupt", "cancel", "close", "join", "stopped"}
  /\ after \in {"stop", "quit", "failure", "event"} /\ closing \in Voice \cup {Nobody}
  /\ status \in VoiceStates
  /\ voice \in Voice \cup {Nobody}
  /\ conn \in Seq([session : Session \cup {Nobody}, interaction : Interaction \cup {Nobody},
                   committed : BOOLEAN, replaced : BOOLEAN])
  /\ Len(conn) \in 0 .. MaxStarts /\ voice \in 0 .. Len(conn)
  /\ mic \in BOOLEAN /\ deaf \in BOOLEAN
  /\ inbox \in Seq([kind : Clicks \cup Kinds, voice : Voice \cup {Nobody}, session : Session \cup {Nobody}])
  /\ pump \in [state : {"starting", "reading", "ended"}, voice : Voice \cup {Nobody}, session : Session \cup {Nobody}]
  /\ ses \in [Session -> [state : {"unused", "IDLE", "ACTIVE", "CLOSED", "FAILED", "forgotten"},
                          active : Interaction \cup {Nobody}, committed : BOOLEAN, turn : BOOLEAN, spoken : BOOLEAN]]
  /\ queue \in [Session -> Seq(Kinds \cup {"END"})]
  /\ starts \in 0 .. MaxStarts /\ asked \in 0 .. MaxStarts /\ clicks \in 0 .. MaxClicks /\ faults \in 0 .. MaxFaults

Init ==
  /\ app = "new" /\ slot = "free" /\ after = "stop" /\ closing = Nobody
  /\ status = "IDLE" /\ voice = Nobody /\ conn = <<>>
  /\ mic = FALSE /\ deaf = FALSE /\ inbox = <<>> /\ pump = Silent
  /\ ses = [s \in Session |-> Unused] /\ queue = [s \in Session |-> <<>>]
  /\ starts = 0 /\ asked = 0 /\ clicks = 0 /\ faults = 0

MayFail == faults < MaxFaults /\ faults' = faults + 1
Fine == UNCHANGED faults

Live(s) == ses[s].state \in {"IDLE", "ACTIVE"}

-----------------------------------------------------------------------------
(* The runtime: what its operations do to a session and its events.        *)

Put(s, state, interaction, events) ==
  /\ ses' = [ses EXCEPT ![s] = [Unused EXCEPT !.state = state, !.active = interaction]]
  /\ queue' = [queue EXCEPT ![s] = @ \o events]

IfTurn(s, e) == IF ses[s].turn THEN <<e>> ELSE <<>>

(* open_session: one live session of a Conversation. *)
CanOpen == \A s \in Session : ~Live(s)
Opens(s) ==
  /\ ses[s].state = "unused" /\ \A r \in 1 .. (s - 1) : ses[r].state # "unused"
  /\ CanOpen
  /\ Put(s, "IDLE", Nobody, <<>>) /\ UNCHANGED starts

(* start_interaction: on an idle session, or over a committed interaction. *)
CanStart(s) == ses[s].state = "IDLE" \/ (ses[s].state = "ACTIVE" /\ ses[s].committed)
NotIdle(s) == ses[s].state \in {"CLOSED", "FAILED"}
Starts(s) ==
  /\ CanStart(s) /\ starts' = starts + 1
  /\ Put(s, "ACTIVE", starts + 1, IfTurn(s, "interrupted"))

Commits(s) == ses' = [ses EXCEPT ![s].committed = TRUE] /\ UNCHANGED <<queue, starts>>

Retires(s) == Put(s, "IDLE", Nobody, IfTurn(s, "interrupted")) /\ UNCHANGED starts

Closes(s) ==
  IF Live(s)
  THEN Put(s, "CLOSED", Nobody, IfTurn(s, "interrupted") \o <<"closed", "END">>) /\ UNCHANGED starts
  ELSE UNCHANGED runtime

-----------------------------------------------------------------------------
(* The provider.                                                           *)

(* The user's words are transcribed; the Turn is stored.                   *)
HearsUser(s) ==
  /\ ses[s].committed /\ ~ses[s].turn
  /\ ses' = [ses EXCEPT ![s].turn = TRUE] /\ UNCHANGED queue

Speaks(s) ==
  /\ ses[s].committed /\ ~ses[s].spoken
  /\ ses' = [ses EXCEPT ![s].spoken = TRUE]
  /\ queue' = [queue EXCEPT ![s] = Append(@, "audio")]

Completes(s) == ses[s].committed /\ ses[s].turn /\ Put(s, "IDLE", Nobody, <<"completed">>)
FailsToAnswer(s) == ses[s].state = "ACTIVE" /\ Put(s, "IDLE", Nobody, <<"failed">>)
LosesSession(s) == Live(s) /\ Put(s, "FAILED", Nobody, IfTurn(s, "failed") \o <<"lost", "END">>)

Provider(s) ==
  /\ HearsUser(s) \/ Speaks(s) \/ Completes(s) \/ FailsToAnswer(s) \/ LosesSession(s)
  /\ UNCHANGED <<app, worker, inbox, pump, starts, user>> /\ Fine

-----------------------------------------------------------------------------
(* The pump.  Its events name the connection they come from.               *)

Posted(k) == [kind |-> k, voice |-> pump.voice, session |-> pump.session]

Bind ==
  /\ pump.state = "starting"
  /\ LET s == conn[pump.voice].session
     IN IF s = Nobody
        THEN /\ pump' = Silent /\ inbox' = Append(inbox, Posted("broken"))
        ELSE /\ pump' = [pump EXCEPT !.state = "reading", !.session = s] /\ UNCHANGED inbox
  /\ UNCHANGED <<app, worker, runtime, user>> /\ Fine

(* A session whose stream has ended is forgotten by the runtime.           *)
Pumped ==
  /\ pump.state = "reading" /\ queue[pump.session] # <<>>
  /\ LET s == pump.session
         e == Head(queue[s])
     IN /\ queue' = [queue EXCEPT ![s] = Tail(@)]
        /\ IF e = "END"
           THEN /\ pump' = Silent /\ ses' = [ses EXCEPT ![s].state = "forgotten"] /\ UNCHANGED inbox
           ELSE /\ inbox' = Append(inbox, Posted(e)) /\ UNCHANGED <<pump, ses>>
  /\ UNCHANGED <<app, worker, starts, user>> /\ Fine

StreamBreaks ==
  /\ pump.state = "reading" /\ MayFail
  /\ pump' = Silent /\ inbox' = Append(inbox, Posted("broken"))
  /\ UNCHANGED <<app, worker, runtime, user>>

-----------------------------------------------------------------------------
(* The worker: closing a voice.                                            *)

Elsewhere == UNCHANGED <<app, pump, user>>

(* A mutant of EndVoice.                                                  *)
EndVoiceDropping(why) ==
  /\ mic' = FALSE /\ voice' = Nobody /\ after' = why /\ deaf' = FALSE
  /\ closing' = IF why = "event" THEN Nobody ELSE voice
  /\ slot' = IF why = "event" THEN "free" ELSE IF voice # Nobody THEN "cancel" ELSE "join"
  /\ UNCHANGED conn

(* _stop_audio_devices and _close_voice; what follows depends on the slot. *)
EndVoice(why) ==
  /\ mic' = FALSE /\ voice' = Nobody /\ after' = why /\ deaf' = FALSE
  /\ closing' = voice
  /\ slot' = IF voice # Nobody THEN "cancel" ELSE IF why = "event" THEN "free" ELSE "join"
  /\ UNCHANGED conn

(* A call of the runtime: it is done, or raises; with a fault it raises    *)
(* without effect, or comes too late and its answer is lost.               *)
Calls(can, Effect, Answer, Error) ==
  \/ can /\ Effect /\ Answer /\ Fine
  \/ ~can /\ UNCHANGED runtime /\ Error /\ Fine
  \/ (UNCHANGED runtime \/ (can /\ Effect)) /\ Error /\ MayFail

(* NativeRealtimeVoiceConnection.stop; errors are passed over.             *)
CancelInput ==
  /\ slot = "cancel" /\ slot' = "close"
  /\ LET c == conn[closing]
         s == c.session
     IN IF s # Nobody /\ c.interaction # Nobody /\ ~c.committed
        THEN Calls(ses[s].active = c.interaction /\ ~ses[s].committed, Retires(s), TRUE, TRUE)
        ELSE UNCHANGED runtime /\ Fine
  /\ UNCHANGED <<after, closing, status, voice, conn, mic, deaf, inbox>> /\ Elsewhere

Emptied == [session |-> Nobody, interaction |-> Nobody, committed |-> FALSE, replaced |-> FALSE]

CloseSession ==
  /\ slot = "close" /\ closing' = Nobody
  /\ \/ after = "event" /\ slot' = "free" /\ after' = "stop"
     \/ after # "event" /\ slot' = "join" /\ UNCHANGED after
  /\ LET s == conn[closing].session
     IN IF s # Nobody THEN Calls(TRUE, Closes(s), TRUE, TRUE) ELSE UNCHANGED runtime /\ Fine
  /\ conn' = [conn EXCEPT ![closing] = Emptied]
  /\ UNCHANGED <<status, voice, mic, deaf, inbox>> /\ Elsewhere

(* _wait_for_pump waits two seconds at most, whatever the pump does.       *)
Joined == TRUE

JoinPump ==
  /\ slot = "join" /\ Joined
  /\ status' = IF after = "failure" THEN status ELSE "IDLE"
  /\ \/ after = "quit" /\ slot' = "stopped" /\ UNCHANGED after
     \/ after # "quit" /\ slot' = "free" /\ after' = "stop"
  /\ UNCHANGED <<closing, voice, conn, mic, deaf, inbox, runtime>> /\ Elsewhere /\ Fine

-----------------------------------------------------------------------------
(* The worker: starting a voice.                                           *)

Here == UNCHANGED <<inbox, app, user>>

(* Exceptions of start_voice: the voice is in error, and closed.           *)
StartFails == status' = "ERROR" /\ EndVoice("failure")
StartGoesOn(next) == slot' = next /\ UNCHANGED <<after, closing, status, voice, mic, deaf>>

(* The session id of an open that comes back too late is never known.      *)
OpenSession ==
  /\ slot \in {"open", "reopen"}
  /\ \E s \in Session :
       /\ \A r \in 1 .. (s - 1) : ses[r].state # "unused"
       /\ ses[s].state = "unused"
       /\ Calls(CanOpen, Opens(s),
                /\ conn' = [conn EXCEPT ![voice].session = s]
                /\ StartGoesOn(IF slot = "open" THEN "start" ELSE "restart"),
                StartFails)
  /\ UNCHANGED pump /\ Here

(* NativeRealtimeVoiceConnection.start: a session that is over is replaced *)
(* once.                                                                   *)
StartInteraction ==
  /\ slot \in {"start", "restart"}
  /\ LET s == conn[voice].session
     IN \/ /\ ~(slot = "start" /\ NotIdle(s))
           /\ Calls(CanStart(s), Starts(s),
                    /\ conn' = [conn EXCEPT ![voice].interaction = starts + 1, ![voice].committed = FALSE]
                    /\ StartGoesOn("bind"),
                    StartFails)
        \/ /\ slot = "start" /\ NotIdle(s)
           /\ conn' = [conn EXCEPT ![voice] = [Emptied EXCEPT !.replaced = TRUE]]
           /\ StartGoesOn("reopen") /\ UNCHANGED runtime /\ Fine
  /\ UNCHANGED pump /\ Here

(* Speaker, pump, microphone; a device that does not start ends the voice, *)
(* with its pump when that is the microphone.  A pump that lives is taken   *)
(* for ours.                                                                *)
BindDevices ==
  /\ slot = "bind"
  /\ \/ /\ pump' = IF pump.state = "ended"
                    THEN [state |-> "starting", voice |-> voice, session |-> Nobody] ELSE pump
        /\ \/ /\ mic' = TRUE /\ status' = "LISTENING" /\ slot' = "free"
              /\ deaf' = (pump.state # "ended"
                           /\ (pump.voice # voice \/ pump.session # conn[voice].session))
              /\ UNCHANGED <<after, closing, voice>> /\ Fine
           \/ StartFails /\ MayFail
     \/ StartFails /\ UNCHANGED pump /\ MayFail
  /\ UNCHANGED <<conn, runtime>> /\ Here

-----------------------------------------------------------------------------
(* The worker: one slot for each click and each event.                     *)

Take(k) == slot = "free" /\ inbox # <<>> /\ Head(inbox).kind = k /\ inbox' = Tail(inbox)
Rest == UNCHANGED <<app, pump, runtime, user>> /\ Fine
Only(next) == slot' = next /\ UNCHANGED <<after, closing, conn, deaf>>

Refuses == status \in {"CONNECTING", "LISTENING", "RESPONDING"}

OnStart ==
  /\ Take("start") /\ Rest
  /\ \/ Refuses /\ UNCHANGED <<worker>>
     \/ /\ ~Refuses /\ status' = "CONNECTING" /\ UNCHANGED <<after, closing, mic, deaf>>
        /\ \/ voice # Nobody /\ slot' = "start" /\ UNCHANGED <<voice, conn>>
           \/ /\ voice = Nobody /\ slot' = "open"
              /\ conn' = Append(conn, Emptied)
              /\ voice' = Len(conn) + 1

OnCommit ==
  /\ Take("commit") /\ mic' = FALSE
  /\ IF voice = Nobody THEN Only("free") ELSE Only("commit")
  /\ UNCHANGED <<status, voice>> /\ Rest

Commit ==
  /\ slot = "commit" /\ slot' = "free"
  /\ LET c == conn[voice]
         s == c.session
     IN Calls(s # Nobody /\ c.interaction # Nobody /\ ses[s].state = "ACTIVE" /\ ~ses[s].committed, Commits(s),
              status' = "RESPONDING" /\ conn' = [conn EXCEPT ![voice].committed = TRUE],
              UNCHANGED <<status, conn>>)
  /\ UNCHANGED <<after, closing, voice, mic, deaf>> /\ UNCHANGED pump /\ Here

OnInterrupt ==
  /\ Take("interrupt")
  /\ IF voice = Nobody THEN status' = "IDLE" /\ Only("free") ELSE UNCHANGED status /\ Only("interrupt")
  /\ UNCHANGED <<voice, mic>> /\ Rest

Interrupt ==
  /\ slot = "interrupt" /\ slot' = "free"
  /\ LET c == conn[voice]
         s == c.session
     IN Calls(s # Nobody /\ c.interaction # Nobody /\ c.committed /\ ses[s].active = c.interaction, Retires(s),
              status' = "INTERRUPTED" /\ conn' = [conn EXCEPT ![voice].committed = FALSE],
              status' = "ERROR" /\ UNCHANGED conn)
  /\ UNCHANGED <<after, closing, voice, mic, deaf>> /\ UNCHANGED pump /\ Here

OnStop == Take("stop") /\ EndVoice("stop") /\ UNCHANGED status /\ Rest
OnQuit == Take("quit") /\ EndVoice("quit") /\ UNCHANGED status /\ Rest

(* A mutant of Current.                                                   *)
CurrentWhatever(m) == voice # Nobody
CurrentWhileResponding(m) == m.voice = voice /\ (m.kind = "completed" => status = "RESPONDING")

(* An event counts when it comes from the connection in use.               *)
Current(m) == m.voice = voice

OnEvent ==
  /\ \E k \in Kinds : Take(k) /\ Rest
  /\ LET m == Head(inbox)
     IN \/ /\ ~Current(m) /\ UNCHANGED worker
        \/ /\ Current(m) /\ m.kind = "audio" /\ status' = "RESPONDING"
           /\ Only("free") /\ UNCHANGED <<voice, mic>>
        \/ /\ Current(m) /\ m.kind \in {"completed", "interrupted"} /\ status' = "READY"
           /\ Only("free") /\ UNCHANGED <<voice, mic>>
        \/ /\ Current(m) /\ m.kind \in {"failed", "lost", "broken"} /\ status' = "ERROR"
           /\ EndVoice("event")
        \/ /\ Current(m) /\ m.kind = "closed" /\ status' = "IDLE"
           /\ mic' = FALSE /\ voice' = Nobody /\ Only("free")

WorkerStep ==
  /\ app # "new"
  /\ \/ OnStart \/ OpenSession \/ StartInteraction \/ BindDevices
     \/ OnCommit \/ Commit \/ OnInterrupt \/ Interrupt
     \/ OnStop \/ OnQuit \/ OnEvent
     \/ CancelInput \/ CloseSession \/ JoinPump

-----------------------------------------------------------------------------
(* The window and the application.                                         *)

(* A click on a button that the state enables, taken when its turn comes;  *)
(* choosing another Conversation stops the voice at any time.              *)
Enabled(k) ==
  \/ k = "start" /\ status \in {"IDLE", "READY", "ERROR"}
  \/ k = "commit" /\ status = "LISTENING"
  \/ k = "interrupt" /\ status = "RESPONDING"
  \/ k \in {"stop", "quit"}

HasQuit == \E i \in DOMAIN inbox : inbox[i].kind = "quit"
Quitting == HasQuit \/ after = "quit" \/ slot = "stopped"

UserClicks ==
  /\ app = "ready"
  /\ \E k \in Clicks :
       /\ Enabled(k) /\ inbox' = Append(inbox, Click(k))
       /\ IF k = "start" THEN asked < MaxStarts /\ asked' = asked + 1 /\ UNCHANGED clicks
                         ELSE clicks < MaxClicks /\ clicks' = clicks + 1 /\ UNCHANGED asked
       /\ k = "quit" => ~Quitting
  /\ UNCHANGED <<app, worker, pump, runtime>> /\ Fine

(* SofiaApplication.start, and stop when the window is gone: close_all.    *)
AppStarts ==
  /\ app = "new" /\ app' = "ready"
  /\ UNCHANGED <<worker, inbox, pump, runtime, user>> /\ Fine

AppStops ==
  /\ app = "ready" /\ slot = "stopped" /\ app' = "stopping"
  /\ UNCHANGED <<worker, inbox, pump, runtime, user>> /\ Fine

CloseAll ==
  /\ app = "stopping"
  /\ \/ \E s \in Session : Live(s) /\ Closes(s) /\ UNCHANGED app
     \/ (\A s \in Session : ~Live(s)) /\ app' = "stopped" /\ UNCHANGED runtime
  /\ UNCHANGED <<worker, inbox, pump, user>> /\ Fine

Next ==
  \/ WorkerStep \/ Bind \/ Pumped \/ StreamBreaks
  \/ \E s \in Session : Provider(s)
  \/ UserClicks \/ AppStarts \/ AppStops \/ CloseAll

(* Threads run on; the provider and the user need not do anything.         *)
Spec == /\ Init /\ [][Next]_vars
        /\ WF_vars(WorkerStep) /\ WF_vars(Bind) /\ WF_vars(Pumped)
        /\ WF_vars(AppStops) /\ WF_vars(CloseAll)

-----------------------------------------------------------------------------
(* Properties.                                                             *)

Between == slot \in {"free", "stopped"}

(* Between two slots the microphone runs only for an interaction of the     *)
(* voice in use whose input is not committed: whatever ended a voice, and   *)
(* whenever, has switched the microphone off.                               *)
MicrophoneHasInput ==
  Between /\ mic =>
    /\ voice # Nobody /\ conn[voice].session # Nobody
    /\ conn[voice].interaction # Nobody /\ ~conn[voice].committed

(* Without faults no session is left behind: between two slots a live       *)
(* session is the one of the voice in use.  (A call that comes back too     *)
(* late leaves one: the next open is then refused until the session fails.) *)
SessionsAreOwned ==
  faults = 0 /\ Between => \A s \in Session : Live(s) => voice # Nobody /\ conn[voice].session = s

(* What the runtime says last of the interaction in use gets to the window: *)
(* the voice becomes ready, is in error or has been stopped, unless it has  *)
(* replaced its session.  Only a voice that was bound while the pump of     *)
(* another session was still alive is deaf to it.                           *)
Final(s) == \E i \in DOMAIN queue[s] : queue[s][i] \in {"completed", "failed", "lost"}
Waiting(s) == voice # Nobody /\ conn[voice].session = s /\ Final(s)
Excused == deaf \/ (voice # Nobody /\ conn[voice].replaced)
ResultIsShown ==
  \A s \in Session : Waiting(s) ~> (status \in {"READY", "ERROR", "IDLE"} \/ Excused)

(* Late events of a voice that is closed do not end its successor.  Only a  *)
(* voice that has replaced its session is ended by an event of the old one: *)
(* the failure that made it replace the session, told afterwards.           *)
LateEventsEndNothing ==
  [][(Between /\ voice # Nobody /\ voice' = Nobody /\ Head(inbox).kind \in Kinds)
       => (Head(inbox).session = conn[voice].session \/ conn[voice].replaced)]_vars

(* Quitting ends the worker and then the runtime with all its sessions,     *)
(* also when a session could not be closed and its pump never ends.         *)
QuitCompletes == HasQuit ~> (app = "stopped")

(* Between two slots the devices and sessions are those of the voice in     *)
(* use, and of no other.                                                    *)
VoiceInOrder == TypeOK /\ MicrophoneHasInput /\ SessionsAreOwned

(* The user is told how his voice interaction ended, and can quit.          *)
UserIsAnswered == ResultIsShown /\ QuitCompletes
=============================================================================
