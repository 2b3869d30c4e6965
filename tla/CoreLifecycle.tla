---------------------------- MODULE CoreLifecycle ----------------------------
(***************************************************************************)
(* The processes of one data directory: Cores (host/runner.py, SofiaCore,  *)
(* LocalClientBoundary) and the desktops that look for one, start one and  *)
(* attach to it (DesktopCoreSupervisor).  They share the single-instance   *)
(* mutex, the operational store with its runtime_sessions rows, and the    *)
(* attach record in the credential store of the user.                      *)
(*                                                                         *)
(* A Core is one process and one runtime session; its address and          *)
(* credential are its own, so that a record of another Core never opens a  *)
(* session with it.  A desktop stands for one DesktopCoreSupervisor.       *)
(*                                                                         *)
(* Left out: what the runtimes do while the Core runs (the other modules), *)
(* the audit of the host, and the credential's text.  Uvicorn is modelled  *)
(* by what LocalHttpServer uses of it: a stopping server takes no new      *)
(* connection and ends when the responses under way have ended.            *)
(***************************************************************************)
EXTENDS Naturals, FiniteSets

CONSTANTS
  Core,         (* processes that may be started                           *)
  Desktop,
  Polls,        (* bound: readings of the record after a launch            *)
  Attempts,     (* bound: reconnect_attempts                               *)
  MaxAttaches,  (* bound: attach() or reconnect() of one desktop           *)
  MaxFailures   (* bound: crashes, start and stop errors, timeouts         *)

None == "none"

ASSUME CoreLifecycleAssumption ==
  /\ None \notin Core
  /\ Polls \in Nat \ {0} /\ Attempts \in Nat \ {0} /\ MaxAttaches \in Nat /\ MaxFailures \in Nat

VARIABLES
  at,        (* where a Core process is                                    *)
  opened,    (* the Cores that have the operational store open             *)
  loose,     (* those in which something that was not stopped may use it   *)
             (* as long as their process lives                             *)
  owner,     (* who holds the mutex                                        *)
  rows,      (* the runtime_sessions rows                                  *)
  record,    (* the published ClientAttachRecord                           *)
  dpc, mode, found, left,   (* a desktop: step, what for, record read, tries left *)
  attached,  (* the Core of its authenticated client, while it is attached *)
  session,   (* open ClientSessions                                        *)
  stream,    (* notification streams being answered                        *)
  uses, failures

host == <<at, opened, loose, owner, rows>>
desk == <<dpc, mode, found, left, attached, uses>>
links == <<session, stream>>
coreVars == <<host, record, desk, links, failures>>

Link == Desktop \X Core

Starting == {"launched", "owner", "store", "composed", "running", "serving"}
Stopping == {"compare", "delete", "drain", "refuse", "runtimes"}
Closing == {"row", "close", "leaving"}

(* The Core is RUNNING and lends its services to the boundary.             *)
Lends(c) == at[c] \in {"running", "serving", "listed", "compare", "delete", "drain", "refuse"}
Answers(c) == c \in Core /\ at[c] \in {"serving", "listed", "compare", "delete", "drain"}

CoreTypeOK ==
  /\ at \in [Core -> {"new", "listed", "gone"} \cup Starting \cup Stopping \cup Closing]
  /\ opened \subseteq Core /\ loose \subseteq Core /\ owner \in Core \cup {None}
  /\ rows \in [Core -> {"none", "RUNNING", "INTERRUPTED", "STOPPED"}]
  /\ record \in Core \cup {None}
  /\ dpc \in [Desktop -> {"idle", "read", "verify", "compare", "delete", "launch", "attached", "failed"}]
  /\ mode \in [Desktop -> {"attach", "poll", "reconnect"}]
  /\ found \in [Desktop -> Core \cup {None}] /\ attached \in [Desktop -> Core \cup {None}]
  /\ left \in [Desktop -> 0 .. (Polls + Attempts)] /\ uses \in [Desktop -> 0 .. MaxAttaches]
  /\ session \subseteq Link /\ stream \subseteq session
  /\ failures \in 0 .. MaxFailures

CoreInit ==
  /\ at = [c \in Core |-> "new"] /\ opened = {} /\ loose = {} /\ owner = None
  /\ rows = [c \in Core |-> "none"] /\ record = None
  /\ dpc = [d \in Desktop |-> "idle"] /\ mode = [d \in Desktop |-> "attach"]
  /\ found = [d \in Desktop |-> None] /\ attached = [d \in Desktop |-> None]
  /\ left = [d \in Desktop |-> 0] /\ uses = [d \in Desktop |-> 0]
  /\ session = {} /\ stream = {} /\ failures = 0

MayFail == failures < MaxFailures /\ failures' = failures + 1
Fine == UNCHANGED failures

-----------------------------------------------------------------------------
(* A Core starts.                                                          *)

Move(c, from, to) == at[c] = from /\ at' = [at EXCEPT ![c] = to]

Acquire(c) ==
  /\ \/ owner = None /\ Move(c, "launched", "owner") /\ owner' = c
     \/ owner # None /\ Move(c, "launched", "gone") /\ UNCHANGED owner
  /\ UNCHANGED <<opened, loose, rows, record, desk, links>> /\ Fine

OpenStore(c) ==
  /\ Move(c, "owner", "store") /\ opened' = opened \cup {c}
  /\ UNCHANGED <<loose, owner, rows, record, desk, links>> /\ Fine

(* RuntimeSessionLifecycle.start: sessions found running were interrupted. *)
RowAtStart(c, e) == IF e = c THEN "RUNNING"
                    ELSE IF rows[e] = "RUNNING" THEN "INTERRUPTED" ELSE rows[e]

StartSession(c) ==
  /\ Move(c, "store", "composed")
  /\ rows' = [e \in Core |-> RowAtStart(c, e)]
  /\ UNCHANGED <<opened, loose, owner, record, desk, links>> /\ Fine

(* Runtimes are composed, recovery runs, proactivity starts.               *)
Compose(c) ==
  /\ Move(c, "composed", "running")
  /\ UNCHANGED <<opened, loose, owner, rows, record, desk, links>> /\ Fine

(* A start that fails is taken back.  The thread that migrates the store   *)
(* goes on when its caller is cancelled; the Task and Agent runtimes are    *)
(* not stopped, and what recovery has put back to work goes on with the     *)
(* session factory.                                                         *)
StartFails(c) ==
  /\ \/ Move(c, "owner", "close") /\ loose' = loose \cup {c}
     \/ Move(c, "store", "close") /\ UNCHANGED loose
     \/ Move(c, "composed", "row") /\ loose' = loose \cup {c}
  /\ MayFail /\ UNCHANGED <<opened, owner, rows, record, desk, links>>

Serve(c) ==
  /\ Move(c, "running", "serving")
  /\ UNCHANGED <<opened, loose, owner, rows, record, desk, links>> /\ Fine

PublishRecord(c) ==
  /\ Move(c, "serving", "listed") /\ record' = c
  /\ UNCHANGED <<opened, loose, owner, rows, desk, links>> /\ Fine

(* The boundary or the record fails: whatever started is stopped.          *)
ServeFails(c) ==
  /\ Move(c, "running", "runtimes") \/ Move(c, "serving", "drain")
  /\ MayFail /\ UNCHANGED <<opened, loose, owner, rows, record, desk, links>>

-----------------------------------------------------------------------------
(* A Core stops.                                                           *)

(* A signal. *)
Interrupt(c) ==
  /\ Move(c, "listed", "compare")
  /\ UNCHANGED <<opened, loose, owner, rows, record, desk, links>> /\ Fine

(* delete_if_current, by the Core and by desktops: read and compare, then  *)
(* delete what is there; an error of the store is reported and passed over.*)
CompareRecord(c) ==
  /\ at[c] = "compare"
  /\ \/ at' = [at EXCEPT ![c] = IF record = c THEN "delete" ELSE "drain"] /\ Fine
     \/ at' = [at EXCEPT ![c] = "drain"] /\ MayFail
  /\ UNCHANGED <<opened, loose, owner, rows, record, desk, links>>

DeleteRecord(c) ==
  /\ Move(c, "delete", "drain") /\ record' = None
  /\ UNCHANGED <<opened, loose, owner, rows, desk, links>> /\ Fine

Streams(c) == {k \in stream : k[2] = c}
Sessions(c) == {k \in session : k[2] = c}

(* A mutant of Drained.                                                   *)
DrainedBySilence(c) == Sessions(c) = {}

(* LocalClientBoundary.stop: the server first, then the sessions.  The     *)
(* server takes connections until it sees that it should exit; a stream    *)
(* ends with its session or its client, so that it holds the server.       *)
Drained(c) == Streams(c) = {}

Refuse(c) ==
  /\ Move(c, "drain", "refuse")
  /\ UNCHANGED <<opened, loose, owner, rows, record, desk, links>> /\ Fine

Drain(c) ==
  /\ Drained(c) /\ Move(c, "refuse", "runtimes")
  /\ session' = session \ Sessions(c) /\ stream' = stream \ Streams(c)
  /\ UNCHANGED <<opened, loose, owner, rows, record, desk>> /\ Fine

(* SofiaCore.stop: each step is taken even when one before it has failed.  *)
(* A runtime whose stop fails may leave work behind.                       *)
StopRuntimes(c) ==
  /\ Move(c, "runtimes", "row")
  /\ \/ UNCHANGED loose /\ Fine
     \/ loose' = loose \cup {c} /\ MayFail
  /\ UNCHANGED <<opened, owner, rows, record, desk, links>>

StopSession(c) ==
  /\ Move(c, "row", "close")
  /\ \/ rows' = [rows EXCEPT ![c] = "STOPPED"] /\ Fine
     \/ UNCHANGED rows /\ MayFail
  /\ UNCHANGED <<opened, loose, owner, record, desk, links>>

(* A mutant of CloseAndRelease: the store is left to the end of the process.*)
ReleaseOnly(c) ==
  /\ Move(c, "close", "leaving") /\ owner' = None
  /\ UNCHANGED <<opened, loose, rows, record, desk, links>> /\ Fine

(* resources.close(), then the mutex, with no await between them.  The      *)
(* store stays open when closing it raises, and the mutex is released all   *)
(* the same; it stays with the process when releasing it raises.  A process *)
(* that keeps nothing is gone, whatever it takes to exit.                   *)
CloseAndRelease(c) ==
  /\ \/ /\ Move(c, "close", IF c \in loose THEN "leaving" ELSE "gone")
        /\ opened' = opened \ {c} /\ owner' = None /\ UNCHANGED loose /\ Fine
     \/ /\ Move(c, "close", "leaving") /\ MayFail
        /\ \/ owner' = None /\ loose' = loose \cup {c} /\ UNCHANGED opened
           \/ opened' = opened \ {c} /\ UNCHANGED <<loose, owner>>
  /\ UNCHANGED <<rows, record, desk, links>>

(* What was not stopped opens the store again, be it closed: a disposed    *)
(* engine connects anew.                                                   *)
Stray(c) ==
  /\ c \in loose /\ at[c] \in Closing
  /\ opened' = opened \cup {c}
  /\ UNCHANGED <<at, loose, owner, rows, record, desk, links>> /\ Fine

(* The runner returns, and the system closes and abandons what is left.    *)
Ends(c) ==
  /\ at' = [at EXCEPT ![c] = "gone"]
  /\ opened' = opened \ {c} /\ loose' = loose \ {c}
  /\ owner' = IF owner = c THEN None ELSE owner

Exit(c) ==
  /\ at[c] = "leaving" /\ Ends(c)
  /\ UNCHANGED <<rows, record, desk, links>> /\ Fine

(* The process ends: the system abandons the mutex and closes everything,  *)
(* the row and the record stay.                                            *)
Crash(c) ==
  /\ at[c] \notin {"new", "gone"} /\ MayFail
  /\ Ends(c)
  /\ session' = session \ Sessions(c) /\ stream' = stream \ Streams(c)
  /\ UNCHANGED <<rows, record, desk>>

CoreStep(c) ==
  \/ Acquire(c) \/ OpenStore(c) \/ StartSession(c) \/ Compose(c) \/ Serve(c)
  \/ PublishRecord(c) \/ CompareRecord(c) \/ DeleteRecord(c) \/ Drain(c)
  \/ Refuse(c) \/ StopRuntimes(c) \/ StopSession(c) \/ CloseAndRelease(c) \/ Exit(c)

-----------------------------------------------------------------------------
(* A desktop attaches.                                                     *)

Desk(d, from, to) == dpc[d] = from /\ dpc' = [dpc EXCEPT ![d] = to]

(* attach() of a new application, or reconnect() of one that lost its Core.*)
BeginAttach(d) ==
  /\ uses[d] < MaxAttaches /\ uses' = [uses EXCEPT ![d] = @ + 1]
  /\ \/ dpc[d] \in {"idle", "failed"} /\ mode' = [mode EXCEPT ![d] = "attach"]
        /\ left' = [left EXCEPT ![d] = 0]
     \/ dpc[d] = "attached" /\ ~Answers(attached[d]) /\ mode' = [mode EXCEPT ![d] = "reconnect"]
        /\ left' = [left EXCEPT ![d] = Attempts]
  /\ dpc' = [dpc EXCEPT ![d] = "read"] /\ attached' = [attached EXCEPT ![d] = None]
  /\ UNCHANGED <<host, record, found, links>> /\ Fine

(* What an unsuccessful look at the record leads to. *)
NotFound(d, c) ==
  CASE mode[d] = "attach" -> IF c = None THEN "launch" ELSE "compare"
    [] mode[d] = "poll" -> IF left[d] > 0 THEN "read" ELSE "failed"
    [] mode[d] = "reconnect" -> IF left[d] > 0 THEN "read" ELSE IF c = None THEN "launch" ELSE "compare"

LooksAgain(d) == [left EXCEPT ![d] = IF @ > 0 THEN @ - 1 ELSE 0]

Read(d) ==
  /\ dpc[d] = "read"
  /\ found' = [found EXCEPT ![d] = record]
  /\ left' = LooksAgain(d)
  /\ dpc' = [dpc EXCEPT ![d] = "verify"]
  /\ UNCHANGED <<host, record, mode, attached, links, uses>> /\ Fine

(* _verify: connect, open a session and compare the runtime session; an    *)
(* answer may come too late from a Core that is well.  The record is kept   *)
(* for a comparison only, the rest for another look.                       *)
Verify(d) ==
  /\ dpc[d] = "verify"
  /\ LET c == found[d]
     IN \/ /\ Answers(c)
           /\ dpc' = [dpc EXCEPT ![d] = "attached"] /\ attached' = [attached EXCEPT ![d] = c]
           /\ session' = {k \in session : k[1] # d} \cup {<<d, c>>}
           /\ stream' = {k \in stream : k[1] # d}
           /\ Fine
        \/ /\ IF Answers(c) THEN MayFail ELSE Fine
           /\ dpc' = [dpc EXCEPT ![d] = NotFound(d, c)]
           /\ UNCHANGED <<attached, links>>
  /\ found' = [found EXCEPT ![d] = IF dpc'[d] = "compare" THEN @ ELSE None]
  /\ mode' = [mode EXCEPT ![d] = IF dpc'[d] = "read" THEN @ ELSE "attach"]
  /\ left' = [left EXCEPT ![d] = IF dpc'[d] = "read" THEN @ ELSE 0]
  /\ UNCHANGED <<host, record, uses>>

(* A mutant of CompareStale.                                              *)
CompareNothing(d) ==
  /\ Desk(d, "compare", "delete")
  /\ UNCHANGED <<host, record, mode, found, left, attached, uses, links>> /\ Fine

CompareStale(d) ==
  /\ dpc[d] = "compare"
  /\ dpc' = [dpc EXCEPT ![d] = IF record = found[d] THEN "delete" ELSE "launch"]
  /\ found' = [found EXCEPT ![d] = None]
  /\ UNCHANGED <<host, record, mode, left, attached, uses, links>> /\ Fine

DeleteStale(d) ==
  /\ Desk(d, "delete", "launch") /\ record' = None
  /\ UNCHANGED <<host, mode, found, left, attached, uses, links>> /\ Fine

(* _launch_and_attach: one more process, whatever is running already; no   *)
(* process when the executable is missing.                                 *)
Launch(d) ==
  /\ dpc[d] = "launch"
  /\ \/ /\ \E c \in Core : Move(c, "new", "launched")
        /\ dpc' = [dpc EXCEPT ![d] = "read"] /\ mode' = [mode EXCEPT ![d] = "poll"]
        /\ left' = [left EXCEPT ![d] = Polls]
     \/ /\ \A c \in Core : at[c] # "new"
        /\ dpc' = [dpc EXCEPT ![d] = "failed"]
        /\ UNCHANGED <<at, mode, left>>
  /\ UNCHANGED <<opened, loose, owner, rows, record, found, attached, uses, links>> /\ Fine

(* request_stop_sofia: accepted for the runtime session that is current.   *)
RequestStop(d) ==
  /\ dpc[d] = "attached" /\ Answers(attached[d]) /\ <<d, attached[d]>> \in session
  /\ Move(attached[d], "listed", "compare")
  /\ UNCHANGED <<opened, loose, owner, rows, record, desk, links>> /\ Fine

OpenStream(d) ==
  /\ dpc[d] = "attached" /\ Answers(attached[d]) /\ <<d, attached[d]>> \in session
  /\ stream' = stream \cup {<<d, attached[d]>>}
  /\ UNCHANGED <<host, record, desk, session>> /\ Fine

CloseStream(d) ==
  /\ \E k \in stream : k[1] = d
  /\ stream' = {k \in stream : k[1] # d}
  /\ UNCHANGED <<host, record, desk, session>> /\ Fine

(* The application is quit; the Core goes on.                              *)
Quit(d) ==
  /\ Desk(d, "attached", "idle")
  /\ attached' = [attached EXCEPT ![d] = None]
  /\ session' = {k \in session : k[1] # d} /\ stream' = {k \in stream : k[1] # d}
  /\ UNCHANGED <<host, record, mode, found, left, uses>> /\ Fine

DesktopStep(d) == Read(d) \/ Verify(d) \/ CompareStale(d) \/ DeleteStale(d) \/ Launch(d)

CoreNext ==
  \/ \E c \in Core : CoreStep(c) \/ StartFails(c) \/ ServeFails(c) \/ Interrupt(c)
                      \/ Stray(c) \/ Crash(c)
  \/ \E d \in Desktop : DesktopStep(d) \/ BeginAttach(d) \/ RequestStop(d) \/ OpenStream(d) \/ CloseStream(d) \/ Quit(d)

(* Processes run on; nothing makes a client close its stream.              *)
CoreSpec == /\ CoreInit /\ [][CoreNext]_coreVars
        /\ \A c \in Core : WF_coreVars(CoreStep(c))
        /\ \A d \in Desktop : WF_coreVars(DesktopStep(d))

-----------------------------------------------------------------------------
(* Properties.                                                             *)

(* However many desktops launch Cores at once, and wherever they crash, who *)
(* has the operational store open owns it.  That holds of a Core at work,   *)
(* starting or stopping; the one exception is a process on its way out that *)
(* gave the ownership back although its store could not be closed, or left  *)
(* work behind that no failed start or stop has ended.  The next Core may   *)
(* then share the store with it, until that process is gone.                *)
StoreHasOneUser == \A c \in opened : owner = c \/ (c \in loose /\ at[c] = "leaving")

(* The durable rows tell which session is running: at most one says so, and *)
(* a Core that lends its services is that one.                              *)
RowsTellWhoRuns ==
  /\ \A c, e \in Core : rows[c] = "RUNNING" /\ rows[e] = "RUNNING" => c = e
  /\ \A c \in Core : Lends(c) => rows[c] = "RUNNING" /\ c \in opened

(* A Core that is ready can be found: its attach record is there, unless a  *)
(* fault was before it.  Cores stop, are replaced and looked for at the     *)
(* same time, and none of the stale views of the record that arise deletes  *)
(* the record of the next Core.  (After a crash it may: the record that a   *)
(* desktop compared may be replaced before it is deleted; and a desktop     *)
(* that waits too long for an answer deletes the record of a Core that is   *)
(* well, after which no desktop finds it and no other Core can start.)      *)
ListedWhileWell == failures = 0 => \A c \in Core : at[c] = "listed" => record = c

(* A Core that is asked to stop ends, unless a client holds a notification  *)
(* stream: the server waits for the stream, the stream for the end of its   *)
(* session, and sessions are closed when the server has stopped.            *)
StopEndsWithoutStreams ==
  \A c \in Core : (at[c] \in Stopping \cup Closing) ~> (at[c] = "gone" \/ Streams(c) # {})

(* Every attach and reconnect ends, attached or failed.                     *)
AttachEnds ==
  \A d \in Desktop :
    (dpc[d] \in {"read", "verify", "compare", "delete", "launch"}) ~> (dpc[d] \in {"attached", "failed"})

(* What is written down of the Core is true at every step: the rows of its  *)
(* sessions, and the record by which a desktop finds it.                    *)
RecordsAreTrue == CoreTypeOK /\ RowsTellWhoRuns /\ ListedWhileWell

(* Who stops a Core or looks for one is not kept waiting for ever.          *)
NobodyWaitsForEver == StopEndsWithoutStreams /\ AttachEnds
=============================================================================
