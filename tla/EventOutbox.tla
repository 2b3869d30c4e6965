------------------------------ MODULE EventOutbox ------------------------------
(***************************************************************************)
(* EventBus (proactivity/events.py) with its outbox table, the             *)
(* NotificationService handler (proactivity/notifications.py) and the      *)
(* notification streams of the clients (client_boundary/proactivity_http): *)
(* a durable event is claimed, handed to every handler in turn, retried    *)
(* and settled; its notification is pushed to whoever listens.             *)
(*                                                                         *)
(* One process runs at a time and dispatch_pending holds a lock, so there  *)
(* is one dispatcher.  Time is two facts of a row: whether its retry is    *)
(* due and whether its lease has expired; either may come true whenever.   *)
(***************************************************************************)
EXTENDS Naturals, Sequences, SequencesExt, FiniteSets

CONSTANTS
  Event,
  Own,         (* those that need no fact to be told of                    *)
  Handlers,    (* the handlers subscribed to the events, in order          *)
  RetrySafe,   (* those subscribed with retry_safe=True                    *)
  Notifier,    (* NotificationService.on_event, one of them                *)
  Stream,      (* clients that read the notification stream                *)
  QueueSize,   (* of a listener: 64                                        *)
  SyncLimit,   (* rows of the first read of a stream: 100                  *)
  MaxFaults,   (* bound: crashes, stops and storage errors                 *)
  None

Handler == Range(Handlers)
Tries == 3

ASSUME OutboxAssumption ==
  /\ Notifier \in RetrySafe /\ RetrySafe \subseteq Handler
  /\ Handlers \in Seq(Handler) /\ IsInjective(Handlers)
  /\ QueueSize \in Nat \ {0} /\ SyncLimit \in Nat \ {0} /\ MaxFaults \in Nat
  /\ None \notin Event /\ Own \subseteq Event

VARIABLES
  fact,        (* fact[e]: whether what e tells of is so: a Task ended or    *)
               (* paused, a confirmation pending                           *)
  up,          (* whether the process runs                                 *)
  rec,         (* rec[e]: the EventRecord                                  *)
  note,        (* note[e]: state of the NotificationRecord                 *)
  older,       (* the pending ones by created_at: the pairs of an older    *)
               (* and a newer one                                          *)
  disp,        (* where dispatch_pending is, and its locals                *)
  stream,      (* stream[s]: the client's stream and its listener queue    *)
  runs,        (* runs[e]: history of the handlers begun for e             *)
  faults

vars == <<fact, up, rec, note, older, disp, stream, runs, faults>>

Closed == {"DELIVERED", "FAILED", "CANCELLED"}
Record == [status : Closed \cup {"ABSENT", "PENDING", "DISPATCHING"},
           owner : {"none", "this", "earlier"}, due : BOOLEAN, expired : BOOLEAN,
           attempts : Nat, completed : SUBSET Handler, started : SUBSET Handler]

(* The locals of dispatch_pending, and of a client's stream.               *)
Pass   == [pc : {"idle", "claimed", "next", "run", "push", "done", "audit"},
           event : Event \cup {None}, at : 1 .. Len(Handlers) + 1,
           failed : BOOLEAN, retryable : BOOLEAN]
Reader == [pc : {"off", "sync", "live"}, queue : Seq(Event \cup {None}),
           seen : SUBSET Event, listens : BOOLEAN,
           missed : SUBSET Event]   (* history: what its first read left out *)

Rest == [pc |-> "idle", event |-> None, at |-> 1, failed |-> FALSE, retryable |-> TRUE]
Off  == [pc |-> "off", queue |-> << >>, seen |-> {}, listens |-> FALSE,
         missed |-> {}]

TypeOK ==
  /\ fact \in [Event -> BOOLEAN]
  /\ up \in BOOLEAN
  /\ rec \in [Event -> Record]
  /\ note \in [Event -> {"NONE", "PENDING", "ACKNOWLEDGED"}]
  /\ older \subseteq Event \X Event
  /\ disp \in Pass
  /\ stream \in [Stream -> Reader]
  /\ \A s \in Stream : Len(stream[s].queue) <= QueueSize
  /\ runs \in [Event -> Seq(Handler)]
  /\ faults \in 0 .. MaxFaults

Init ==
  /\ fact = [e \in Event |-> FALSE]
  /\ up = TRUE
  /\ rec = [e \in Event |-> [status |-> "ABSENT", owner |-> "none", due |-> FALSE,
                             expired |-> FALSE, attempts |-> 0, completed |-> {},
                             started |-> {}]]
  /\ note = [e \in Event |-> "NONE"]
  /\ older = {}
  /\ disp = Rest
  /\ stream = [s \in Stream |-> Off]
  /\ runs = [e \in Event |-> << >>]
  /\ faults = 0

------------------------------------------------------------------------------
(* Producers.  The id of a durable event is derived from the fact, and one *)
(* that is stored already is left as it is.                                *)

(* A Task ends or is paused, a confirmation is asked; a retry, a recovery  *)
(* or a decision may make that the past before it is told.                 *)
Happens(e) ==
  /\ up /\ e \notin Own /\ ~fact[e] /\ rec[e].status = "ABSENT"
  /\ fact' = [fact EXCEPT ![e] = TRUE]
  /\ UNCHANGED <<up, rec, note, older, disp, stream, runs, faults>>

Passes(e) ==
  /\ up /\ fact[e] /\ rec[e].status = "ABSENT"
  /\ fact' = [fact EXCEPT ![e] = FALSE]
  /\ UNCHANGED <<up, rec, note, older, disp, stream, runs, faults>>

Stores(batch) ==
  rec' = [e \in Event |-> IF e \in batch
                          THEN [rec[e] EXCEPT !.status = "PENDING", !.due = TRUE] ELSE rec[e]]

Uncollected == {e \in Event : fact[e] /\ rec[e].status = "ABSENT"}

(* collect_operational_events: all that is so and was not told yet (the    *)
(* code takes a hundred rows of each kind, and the rest in the next pass). *)
Collect ==
  /\ up /\ disp.pc = "idle" /\ Uncollected # {}
  /\ Stores(Uncollected)
  /\ UNCHANGED <<fact, up, note, older, disp, stream, runs, faults>>

(* The Scheduler and observe_health store an event with what they change.  *)
Publish(e) ==
  /\ up /\ e \in Own /\ rec[e].status = "ABSENT"
  /\ Stores({e})
  /\ UNCHANGED <<fact, up, note, older, disp, stream, runs, faults>>

(* Scheduler.cancel takes back what nobody has claimed.                    *)
Withdraw(e) ==
  /\ up /\ e \in Own /\ rec[e].status = "PENDING"
  /\ rec' = [rec EXCEPT ![e].status = "CANCELLED"]
  /\ UNCHANGED <<fact, up, note, older, disp, stream, runs, faults>>

BackoffEnds(e) ==
  /\ rec[e].status = "PENDING" /\ ~rec[e].due
  /\ rec' = [rec EXCEPT ![e].due = TRUE]
  /\ UNCHANGED <<fact, up, note, older, disp, stream, runs, faults>>

LeaseExpires(e) ==
  /\ rec[e].status = "DISPATCHING" /\ ~rec[e].expired
  /\ rec' = [rec EXCEPT ![e].expired = TRUE]
  /\ UNCHANGED <<fact, up, note, older, disp, stream, runs, faults>>

------------------------------------------------------------------------------
(* dispatch_pending.                                                       *)

h == Handlers[disp.at]

Working(l) == up /\ disp.pc = l /\ (l = "next" => disp.at <= Len(Handlers))
Goto(l)    == disp' = [disp EXCEPT !.pc = l]
GoOn       == disp' = [disp EXCEPT !.pc = "next", !.at = @ + 1]

(* _save is one UPDATE conditional on the owner.                           *)
Save(r) ==
  rec' = IF rec[disp.event].owner = "this" THEN [rec EXCEPT ![disp.event] = r] ELSE rec

Leased(r) == [r EXCEPT !.status = "DISPATCHING", !.owner = "this", !.expired = FALSE,
                       !.attempts = @ + 1]

(* Mutant of Claim: a lease is for ever.                                   *)
ClaimPending ==
  /\ up /\ disp.pc = "idle"
  /\ \E e \in Event :
       /\ rec[e].status = "PENDING" /\ rec[e].due
       /\ rec' = [rec EXCEPT ![e] = Leased(rec[e])]
       /\ disp' = [Rest EXCEPT !.pc = "claimed", !.event = e]
  /\ UNCHANGED <<fact, up, note, older, stream, runs, faults>>

(* _claim: a due event, or one whose dispatcher has been gone for a lease. *)
Claim ==
  /\ up /\ disp.pc = "idle"
  /\ \E e \in Event :
       /\ \/ rec[e].status = "PENDING" /\ rec[e].due
          \/ rec[e].status = "DISPATCHING" /\ rec[e].expired
       /\ rec' = [rec EXCEPT ![e] = Leased(rec[e])]
       /\ disp' = [Rest EXCEPT !.pc = "claimed", !.event = e]
  /\ UNCHANGED <<fact, up, note, older, stream, runs, faults>>

Begin ==
  /\ Working("claimed")
  /\ Goto("next")
  /\ UNCHANGED <<fact, up, rec, note, older, stream, runs, faults>>

(* A handler that has completed, or whose effect a crash left uncertain.   *)
Skip ==
  /\ Working("next")
  /\ \/ h \in rec[disp.event].completed /\ GoOn
     \/ /\ h \in rec[disp.event].started
        /\ disp' = [disp EXCEPT !.at = @ + 1, !.failed = TRUE, !.retryable = FALSE]
  /\ UNCHANGED <<fact, up, rec, note, older, stream, runs, faults>>

(* Mutant of Start: nothing tells that the handler started.                *)
StartUnmarked ==
  /\ Working("next")
  /\ h \notin rec[disp.event].completed \cup rec[disp.event].started
  /\ Goto("run")
  /\ UNCHANGED <<fact, up, rec, note, older, stream, runs, faults>>

(* Unless it is safe to repeat, that it starts is stored first.            *)
Start ==
  /\ Working("next")
  /\ h \notin rec[disp.event].completed \cup rec[disp.event].started
  /\ \/ h \in RetrySafe /\ UNCHANGED rec
     \/ h \notin RetrySafe /\ Save([rec[disp.event] EXCEPT !.started = @ \cup {h}])
  /\ Goto("run")
  /\ UNCHANGED <<fact, up, note, older, stream, runs, faults>>

(* Another handler than the notifier does whatever it does.                *)
Handle ==
  /\ Working("run") /\ h # Notifier
  /\ runs' = [runs EXCEPT ![disp.event] = Append(@, h)]
  /\ Goto("done")
  /\ UNCHANGED <<fact, up, rec, note, older, stream, faults>>

Pending == {e \in Event : note[e] = "PENDING"}

(* on_event: one notification per event, however often it runs.            *)
Notify ==
  /\ Working("run") /\ h = Notifier
  /\ IF note[disp.event] = "NONE"
       THEN /\ note' = [note EXCEPT ![disp.event] = "PENDING"]
            /\ older' = older \cup (Pending \X {disp.event})
       ELSE UNCHANGED <<note, older>>
  /\ Goto("push")
  /\ UNCHANGED <<fact, up, rec, stream, runs, faults>>

(* Mutant of Pushed: what does not fit is lost.                            *)
PushedIfFits(s) ==
  IF s.listens /\ Len(s.queue) < QueueSize THEN [s EXCEPT !.queue = Append(@, disp.event)]
  ELSE s

(* A listener whose queue is full is emptied, told to start over (None),   *)
(* and forgotten.                                                          *)
Pushed(s) ==
  IF ~s.listens THEN s
  ELSE IF Len(s.queue) < QueueSize THEN [s EXCEPT !.queue = Append(@, disp.event)]
  ELSE [s EXCEPT !.queue = <<None>>, !.listens = FALSE]

Push ==
  /\ Working("push")
  /\ stream' = [s \in Stream |-> Pushed(stream[s])]
  /\ Goto("done")
  /\ UNCHANGED <<fact, up, rec, note, older, runs, faults>>

Completed ==
  /\ Working("done")
  /\ Save([rec[disp.event] EXCEPT !.completed = @ \cup {h}, !.started = @ \ {h}])
  /\ GoOn
  /\ UNCHANGED <<fact, up, note, older, stream, runs, faults>>

(* A handler raises or runs into its timeout, whatever it had done by then. *)
HandlerFails ==
  /\ Working("run") \/ Working("push") \/ (Working("done") /\ h # Notifier)
  /\ disp' = [disp EXCEPT !.pc = "next", !.at = @ + 1, !.failed = TRUE,
                          !.retryable = @ /\ h \in RetrySafe]
  /\ UNCHANGED <<fact, up, rec, note, older, stream, runs, faults>>

(* Mutant of Outcome: only what can be retried counts as a failure.        *)
OutcomeLenient ==
  IF disp.failed /\ disp.retryable /\ rec[disp.event].attempts < Tries
    THEN "PENDING" ELSE "DELIVERED"

Outcome ==
  IF ~disp.failed THEN "DELIVERED"
  ELSE IF disp.retryable /\ rec[disp.event].attempts < Tries THEN "PENDING" ELSE "FAILED"

Conclude ==
  /\ up /\ disp.pc = "next" /\ disp.at > Len(Handlers)
  /\ Save([rec[disp.event] EXCEPT !.status = Outcome, !.owner = "none", !.expired = FALSE,
                                  !.due = FALSE])
  /\ Goto("audit")
  /\ UNCHANGED <<fact, up, note, older, stream, runs, faults>>

Audited ==
  /\ Working("audit")
  /\ disp' = Rest
  /\ UNCHANGED <<fact, up, rec, note, older, stream, runs, faults>>

(* Any other exception ends the pass; the row keeps its lease.             *)
DispatchBreaks ==
  /\ disp.pc # "idle"
  /\ faults < MaxFaults /\ faults' = faults + 1
  /\ disp' = Rest
  /\ UNCHANGED <<fact, up, rec, note, older, stream, runs>>

------------------------------------------------------------------------------
(* Clients: notification_stream and acknowledge.                           *)

Acknowledge(e) ==
  /\ up /\ note[e] = "PENDING"
  /\ note' = [note EXCEPT ![e] = "ACKNOWLEDGED"]
  /\ older' = {p \in older : p[1] # e /\ p[2] # e}
  /\ UNCHANGED <<fact, up, rec, disp, stream, runs, faults>>

(* It listens before it reads what is pending ...                          *)
Listen(s) ==
  /\ up /\ stream[s].pc = "off"
  /\ stream' = [stream EXCEPT ![s] = [Off EXCEPT !.pc = "sync", !.listens = TRUE]]
  /\ UNCHANGED <<fact, up, rec, note, older, disp, runs, faults>>

(* pending(): one page of what is pending, the oldest first.  Nobody asks  *)
(* for a second one; what a full page of older ones leaves out is missed.  *)
Least(m, n) == IF m < n THEN m ELSE n

IsPage(page) ==
  /\ page \subseteq Pending
  /\ Cardinality(page) = Least(SyncLimit, Cardinality(Pending))
  /\ \A e \in page, f \in Pending \ page : <<e, f>> \in older

OffPage(page, e) ==
  Cardinality(page) = SyncLimit /\ \A f \in page : <<f, e>> \in older

Sync(s) ==
  /\ up /\ stream[s].pc = "sync"
  /\ \E page \in SUBSET Pending :
       /\ IsPage(page)
       /\ stream' = [stream EXCEPT ![s].pc = "live", ![s].seen = page,
                                   ![s].missed = {e \in Pending \ page : OffPage(page, e)}]
  /\ UNCHANGED <<fact, up, rec, note, older, disp, runs, faults>>

(* ... then it follows its queue, to the end or until it is told to leave. *)
Taken(s) ==
  IF Head(s.queue) = None THEN Off
  ELSE [s EXCEPT !.seen = @ \cup {Head(s.queue)}, !.queue = Tail(@)]

Take(s) ==
  /\ up /\ stream[s].pc = "live" /\ stream[s].queue # << >>
  /\ stream' = [stream EXCEPT ![s] = Taken(stream[s])]
  /\ UNCHANGED <<fact, up, rec, note, older, disp, runs, faults>>

Hangup(s) ==
  /\ stream[s].pc # "off"
  /\ stream' = [stream EXCEPT ![s] = Off]
  /\ UNCHANGED <<fact, up, rec, note, older, disp, runs, faults>>

------------------------------------------------------------------------------
(* The process.  stop cancels the dispatch, which hands its event back; a  *)
(* claim that is not in the try yet stays leased.                          *)

Down ==
  /\ up' = FALSE
  /\ disp' = Rest
  /\ stream' = [s \in Stream |-> Off]
  /\ UNCHANGED <<fact, note, older, runs>>

Stop ==
  /\ up /\ faults < MaxFaults /\ faults' = faults + 1
  /\ \/ disp.pc \in {"idle", "claimed"} /\ UNCHANGED rec
     \/ /\ disp.pc \notin {"idle", "claimed"}
        /\ Save([rec[disp.event] EXCEPT !.status = "PENDING", !.owner = "none",
                                        !.expired = FALSE])
  /\ Down

Crash ==
  /\ up /\ faults < MaxFaults /\ faults' = faults + 1
  /\ Down
  /\ UNCHANGED rec

(* The next process is another owner.                                      *)
Restart ==
  /\ ~up /\ up' = TRUE
  /\ rec' = [e \in Event |-> IF rec[e].owner = "this"
                               THEN [rec[e] EXCEPT !.owner = "earlier"] ELSE rec[e]]
  /\ UNCHANGED <<fact, note, older, disp, stream, runs, faults>>

------------------------------------------------------------------------------
Dispatch ==
  \/ Claim \/ Begin \/ Skip \/ Start \/ Handle \/ Notify \/ Push \/ Completed
  \/ HandlerFails \/ Conclude \/ Audited

Next ==
  \/ Dispatch \/ DispatchBreaks \/ Collect
  \/ \E e \in Event : Happens(e) \/ Passes(e) \/ Publish(e) \/ Withdraw(e) \/ BackoffEnds(e) \/ LeaseExpires(e)
                      \/ Acknowledge(e)
  \/ \E s \in Stream : Listen(s) \/ Sync(s) \/ Take(s) \/ Hangup(s)
  \/ Stop \/ Crash \/ Restart

Spec == Init /\ [][Next]_vars

(* ProactivityRuntime ticks every half second, time passes, and somebody   *)
(* starts the assistant again.                                             *)
Fairness ==
  /\ WF_vars(Dispatch) /\ WF_vars(Collect) /\ WF_vars(Restart)
  /\ \A e \in Event : WF_vars(BackoffEnds(e)) /\ WF_vars(LeaseExpires(e))

FairSpec == Spec /\ Fairness

------------------------------------------------------------------------------
(* Properties.                                                             *)

(* A handler that is not safe to repeat begins once at most for an event,  *)
(* whatever crashes, stops, timeouts and lapsed leases do to its dispatch. *)
UnsafeHandlerAtMostOnce ==
  \A e \in Event : \A i, j \in DOMAIN runs[e] :
    runs[e][i] = runs[e][j] /\ runs[e][i] \notin RetrySafe => i = j

(* DELIVERED is said of an event that every handler has completed, and     *)
(* what is settled stays so: not even the cancellation that comes between  *)
(* the last commit of a dispatch and its audit record reopens it.          *)
DeliveredToAll == \A e \in Event :
  rec[e].status = "DELIVERED" => rec[e].completed = Handler /\ note[e] # "NONE"

SettledForGood ==
  [][\A e \in Event : rec[e].status \in Closed => rec'[e].status = rec[e].status]_vars

(* "reconnect/creation race can replay IDs but cannot lose them"           *)
(* (proactivity_http.py): a stream that has synchronised knows every       *)
(* pending notification whose handler is through, has it in its queue, or  *)
(* is about to be told to start over.  That is true of the race; it is not *)
(* true of a backlog.  What was pending when the stream began, and found   *)
(* no place on its first page, full of older ones, it is never sent: the   *)
(* client gets it from the list of notifications, or from a stream that it *)
(* begins when older ones have been acknowledged.                          *)
StreamCannotLose ==
  \A s \in Stream, e \in Event :
    stream[s].pc = "live" /\ note[e] = "PENDING" /\ Notifier \in rec[e].completed =>
      \/ e \in stream[s].seen \/ {e, None} \cap Range(stream[s].queue) # {}
      \/ e \in stream[s].missed

(* No event is forgotten: one that is stored gets settled, and a fact that *)
(* stays so is stored and settled, also when a crash came in between:      *)
(* "Reconcile durable source state after crash" (notifications.py).        *)
EveryEventSettles ==
  \A e \in Event :
    fact[e] \/ rec[e].status = "PENDING" ~>
      rec[e].status \in Closed \/ (rec[e].status = "ABSENT" /\ ~fact[e])

(* The delivery records are true: of their types, and DELIVERED only where *)
(* every handler is through.                                                *)
DeliveryIsTrue == TypeOK /\ DeliveredToAll

(* Every event is settled in the end, and once.                             *)
EventsSettleOnce == SettledForGood /\ EveryEventSettles
==============================================================================
