----------------------------- MODULE ScheduledTask -----------------------------
(***************************************************************************)
(* A Task created with wait_until: its runner puts it to sleep             *)
(* (Scheduler.wait_task), the scheduler's tick turns the due schedule into *)
(* an event, the event wakes it (TaskRuntime.resume_schedule) and          *)
(* recover_scheduled_tasks gives it a runner again; a cancellation or a    *)
(* crash may come at any point.  See TaskLifecycle for the other Tasks and *)
(* EventOutbox for the delivery of events.                                 *)
(*                                                                         *)
(* The Task has one mutating call, under a grant that lets it act.         *)
(***************************************************************************)
EXTENDS Naturals

CONSTANT MaxSetbacks   (* bound: crashes, and failed commits or deliveries *)

ASSUME ScheduleAssumption == MaxSetbacks \in Nat

VARIABLES
  phase,       (* "up", "down", or the recovery that is next at startup    *)
  due,         (* whether the time the Task waits for has come             *)
  task,        (* the TaskRecord: status, cancellation_requested           *)
  call,        (* status of its ToolCall                                   *)
  sched,       (* status of its ScheduleRecord                             *)
  event,       (* the schedule's event, RESUMED once its handler committed *)
  runner,      (* the runner: where it is, its result, whether it waits    *)
  registered,  (* whether _tasks has an entry for the Task                 *)
  canceller,   (* where cancel_task is, holding _lock                      *)
  effects,     (* how many times the call took effect                      *)
  setbacks

stored == <<task, call, sched, event, effects>>
scheduleVars == <<phase, due, stored, runner, registered, canceller, setbacks>>

Ended == {"SUCCEEDED", "FAILED", "CANCELLED"}
Task  == [status : Ended \cup {"NONE", "QUEUED", "RUNNING", "WAITING_SCHEDULE",
                               "CANCELLING", "PAUSED"},
          cancelRequested : BOOLEAN]
NoTask == [status |-> "NONE", cancelRequested |-> FALSE]
NoJob  == [pc |-> "none", waits |-> FALSE, cut |-> FALSE, result |-> "FAILED"]

ScheduleTypeOK ==
  /\ phase \in {"up", "down", "stale", "scheduled"}
  /\ due \in BOOLEAN
  /\ task \in Task
  /\ call \in {"ABSENT", "QUEUED", "SCHEDULED", "RUNNING", "SUCCEEDED", "FAILED"}
  /\ sched \in {"NONE", "ACTIVE", "COMPLETED", "CANCELLED"}
  /\ event \in {"NONE", "PENDING", "RESUMED", "DELIVERED", "FAILED"}
  /\ runner \in [pc : {"none", "created", "new", "claimed", "started", "asleep", "invoke", "acting",
                       "acted", "result", "finish"},
                 waits : BOOLEAN, cut : BOOLEAN, result : {"SUCCEEDED", "FAILED"}]
  /\ registered \in BOOLEAN
  /\ canceller \in {"idle", "write", "signal", "wait", "finish"}
  /\ effects \in Nat
  /\ setbacks \in 0 .. MaxSetbacks

ScheduleInit ==
  /\ phase = "up"
  /\ due = FALSE
  /\ task = NoTask
  /\ call = "ABSENT"
  /\ sched = "NONE"
  /\ event = "NONE"
  /\ runner = NoJob
  /\ registered = FALSE
  /\ canceller = "idle"
  /\ effects = 0
  /\ setbacks = 0

------------------------------------------------------------------------------
GoesTo(l) == runner' = [runner EXCEPT !.pc = l]
At(l)   == runner.pc = l /\ ~runner.cut
Mark(s) == task' = [task EXCEPT !.status = s]
Leave   == runner' = NoJob /\ registered' = FALSE

Spawn(waits) ==
  /\ runner' = [NoJob EXCEPT !.pc = "new", !.waits = waits]
  /\ registered' = TRUE

FinishCancelled == task' = [status |-> "CANCELLED", cancelRequested |-> TRUE]

TimeComes ==
  /\ ~due /\ due' = TRUE
  /\ UNCHANGED <<phase, stored, runner, registered, canceller, setbacks>>

------------------------------------------------------------------------------
(* create_task(wait_until=...): nothing that is stored mentions the wait.  *)

Create ==
  /\ phase = "up" /\ task.status = "NONE"
  /\ Mark("QUEUED")
  /\ call' = "QUEUED"
  /\ runner' = [NoJob EXCEPT !.pc = "created", !.waits = TRUE]
  /\ UNCHANGED <<phase, due, sched, event, registered, canceller, effects, setbacks>>

Created ==
  /\ At("created")
  /\ Spawn(TRUE)
  /\ UNCHANGED <<phase, due, stored, canceller, setbacks>>

------------------------------------------------------------------------------
(* _run.                                                                   *)

ClaimTask ==
  /\ At("new") /\ task.status = "QUEUED"
  /\ Mark("RUNNING")
  /\ GoesTo("claimed")
  /\ UNCHANGED <<phase, due, call, sched, event, registered, canceller, effects, setbacks>>

ClaimLost ==
  /\ At("new") /\ task.status # "QUEUED"
  /\ runner' = NoJob
  /\ UNCHANGED <<phase, due, stored, registered, canceller, setbacks>>

(* The attempt is recorded; from here on _run is in its try.               *)
StartAttempt ==
  /\ At("claimed")
  /\ GoesTo(IF runner.waits THEN "started" ELSE "invoke")
  /\ UNCHANGED <<phase, due, stored, registered, canceller, setbacks>>

FailTask == task' = IF task.status \in {"CANCELLED", "SUCCEEDED"} THEN task
                    ELSE [task EXCEPT !.status = "FAILED"]

(* Mutant of WaitTask: the Task put to sleep without its schedule.         *)
WaitTaskUnscheduled ==
  /\ At("started") /\ task.status = "RUNNING" /\ ~task.cancelRequested
  /\ Mark("WAITING_SCHEDULE") /\ call' = "SCHEDULED"
  /\ Leave
  /\ UNCHANGED <<phase, due, sched, event, canceller, effects, setbacks>>

(* wait_task: Task, call and schedule in one transaction.                  *)
WaitTask ==
  /\ At("started") /\ task.status = "RUNNING" /\ ~task.cancelRequested
  /\ Mark("WAITING_SCHEDULE") /\ call' = "SCHEDULED" /\ sched' = "ACTIVE"
  /\ runner' = [runner EXCEPT !.pc = "asleep", !.waits = FALSE]
  /\ UNCHANGED <<phase, due, event, registered, canceller, effects, setbacks>>

(* The audit and the attempt, and the runner leaves; the Task may be awake *)
(* by then.  An error there is _run's, and fails the Task.                 *)
WaitReported ==
  /\ At("asleep") /\ Leave
  /\ UNCHANGED <<phase, due, stored, canceller, setbacks>>

WaitUnreported ==
  /\ At("asleep") /\ setbacks < MaxSetbacks /\ setbacks' = setbacks + 1
  /\ FailTask /\ Leave
  /\ UNCHANGED <<phase, due, call, sched, event, canceller, effects>>

(* A Task that is not running any more is failed, by _run's own handler.   *)
WaitRefused ==
  /\ At("started") /\ (task.status # "RUNNING" \/ task.cancelRequested)
  /\ FailTask /\ Leave
  /\ UNCHANGED <<phase, due, call, sched, event, canceller, effects, setbacks>>

Answered == call \in {"SUCCEEDED", "FAILED", "RUNNING"}

InvokeAnswered ==
  /\ At("invoke") /\ Answered
  /\ runner' = [runner EXCEPT !.pc = "result",
                  !.result = IF call = "SUCCEEDED" THEN "SUCCEEDED" ELSE "FAILED"]
  /\ UNCHANGED <<phase, due, stored, registered, canceller, setbacks>>

InvokeStarts ==
  /\ At("invoke") /\ ~Answered
  /\ call' = "RUNNING"
  /\ GoesTo("acting")
  /\ UNCHANGED <<phase, due, task, sched, event, registered, canceller, effects, setbacks>>

InvokeActs ==
  /\ At("acting")
  /\ effects' = effects + 1
  /\ GoesTo("acted")
  /\ UNCHANGED <<phase, due, task, call, sched, event, registered, canceller, setbacks>>

InvokeEnds ==
  /\ \E s \in {"SUCCEEDED", "FAILED"} :
       /\ At("acted") \/ (At("acting") /\ s = "FAILED")
       /\ call' = s
       /\ runner' = [runner EXCEPT !.pc = "result", !.result = s]
  /\ UNCHANGED <<phase, due, task, sched, event, registered, canceller, effects, setbacks>>

(* The verdict; a cancellation in between has cut the runner (see          *)
(* TaskLifecycle for the two commits this takes).                          *)
ConcludeTask ==
  /\ At("result")
  /\ task' = IF task.cancelRequested THEN [status |-> "CANCELLED", cancelRequested |-> TRUE]
             ELSE [task EXCEPT !.status = runner.result]
  /\ Leave
  /\ UNCHANGED <<phase, due, call, sched, event, canceller, effects, setbacks>>

Finish ==
  /\ At("finish")
  /\ FinishCancelled
  /\ Leave
  /\ UNCHANGED <<phase, due, call, sched, event, canceller, effects, setbacks>>

Interrupted ==
  /\ runner.cut
  /\ \/ runner.pc \in {"new", "claimed"} /\ runner' = NoJob
     \/ /\ runner.pc \notin {"new", "claimed"}
        /\ runner' = [runner EXCEPT !.pc = "finish", !.cut = FALSE]
  /\ UNCHANGED <<phase, due, stored, registered, canceller, setbacks>>

------------------------------------------------------------------------------
(* Scheduler.tick: the event and the schedule's end in one transaction;    *)
(* the schedule of a Task that does not sleep any more is dropped.         *)

(* Mutant of Tick: before its time.                                        *)
TickEarly ==
  /\ phase = "up" /\ sched = "ACTIVE"
  /\ \/ task.status = "WAITING_SCHEDULE" /\ sched' = "COMPLETED" /\ event' = "PENDING"
     \/ task.status # "WAITING_SCHEDULE" /\ sched' = "CANCELLED" /\ UNCHANGED event
  /\ UNCHANGED <<phase, due, task, call, runner, registered, canceller, effects, setbacks>>

Sleeps == task.status = "WAITING_SCHEDULE" /\ ~task.cancelRequested

Tick ==
  /\ phase = "up" /\ sched = "ACTIVE" /\ due
  /\ \/ Sleeps /\ sched' = "COMPLETED" /\ event' = "PENDING"
     \/ ~Sleeps /\ sched' = "CANCELLED" /\ UNCHANGED event
  /\ UNCHANGED <<phase, due, task, call, runner, registered, canceller, effects, setbacks>>

(* Mutant of Resume: the Task it wakes is looked for among the running.    *)
ResumeRunning ==
  /\ phase = "up" /\ event = "PENDING"
  /\ event' = "RESUMED"
  /\ task' = IF task.status = "RUNNING" THEN [task EXCEPT !.status = "QUEUED"] ELSE task
  /\ UNCHANGED <<phase, due, call, sched, runner, registered, canceller, effects, setbacks>>

(* resume_schedule takes no lock: one transaction of its own ...           *)
Resume ==
  /\ phase = "up" /\ event = "PENDING"
  /\ event' = "RESUMED"
  /\ task' = IF Sleeps THEN [task EXCEPT !.status = "QUEUED"] ELSE task
  /\ UNCHANGED <<phase, due, call, sched, runner, registered, canceller, effects, setbacks>>

(* ... and recover_scheduled_tasks, which waits for _lock.  The same runs  *)
(* after every tick.                                                       *)
Eligible(statuses) ==
  /\ canceller = "idle"
  /\ sched = "COMPLETED" /\ ~registered
  /\ task.status \in statuses /\ ~task.cancelRequested

Wake ==
  /\ phase = "up" /\ Eligible({"QUEUED"})
  /\ Spawn(FALSE)
  /\ UNCHANGED <<phase, due, stored, canceller, setbacks>>

Delivered ==
  /\ phase = "up" /\ event = "RESUMED" /\ ~Eligible({"QUEUED"}) /\ canceller = "idle"
  /\ event' = "DELIVERED"
  /\ UNCHANGED <<phase, due, task, call, sched, runner, registered, canceller, effects, setbacks>>

(* The outbox delivers again what did not get through, and gives up in the *)
(* end.                                                                    *)
Redeliver ==
  /\ setbacks < MaxSetbacks /\ setbacks' = setbacks + 1
  /\ event \in {"PENDING", "RESUMED"}
  /\ event' \in {"PENDING", "FAILED"}
  /\ UNCHANGED <<phase, due, task, call, sched, runner, registered, canceller, effects>>

------------------------------------------------------------------------------
(* cancel_task.                                                            *)

Cancel ==
  /\ phase = "up" /\ canceller = "idle"
  /\ task.status \notin Ended \cup {"NONE"}
  /\ canceller' = "write"
  /\ UNCHANGED <<phase, due, stored, runner, registered, setbacks>>

(* Whatever it had read, these are the two fields it writes.               *)
CancelWrites ==
  /\ canceller = "write"
  /\ task' = [status |-> "CANCELLING", cancelRequested |-> TRUE]
  /\ canceller' = "signal"
  /\ UNCHANGED <<phase, due, call, sched, event, runner, registered, effects, setbacks>>

CancelSignals ==
  /\ canceller = "signal"
  /\ IF registered /\ runner.pc \notin {"none", "created"}
       THEN runner' = [runner EXCEPT !.cut = TRUE] /\ canceller' = "wait"
       ELSE canceller' = "finish" /\ UNCHANGED runner
  /\ UNCHANGED <<phase, due, stored, registered, setbacks>>

CancelFinishes ==
  /\ canceller = "finish" \/ (canceller = "wait" /\ runner.pc = "none")
  /\ FinishCancelled
  /\ canceller' = "idle"
  /\ UNCHANGED <<phase, due, call, sched, event, runner, registered, effects, setbacks>>

------------------------------------------------------------------------------
(* A crash (a stop leaves the same rows behind) and the two recoveries of  *)
(* the next start.                                                         *)

CoreCrashes ==
  /\ phase # "down" /\ setbacks < MaxSetbacks /\ setbacks' = setbacks + 1
  /\ phase' = "down"
  /\ runner' = NoJob /\ registered' = FALSE /\ canceller' = "idle"
  /\ event' = IF event = "RESUMED" THEN "PENDING" ELSE event
  /\ UNCHANGED <<due, task, call, sched, effects>>

CoreRestarts ==
  /\ phase = "down"
  /\ phase' = "stale"
  /\ UNCHANGED <<due, stored, runner, registered, canceller, setbacks>>

(* recover_stale_work leaves any Task with a schedule to the other pass.   *)
RecoverStale ==
  /\ phase = "stale" /\ phase' = "scheduled"
  /\ \/ /\ sched # "NONE" \/ task.status \in Ended \cup {"NONE", "PAUSED"}
        /\ UNCHANGED <<task, runner, registered>>
     \/ /\ sched = "NONE" /\ task.status = "QUEUED" /\ call = "QUEUED"
        /\ Spawn(FALSE)
        /\ UNCHANGED task
     \/ /\ sched = "NONE" /\ task.status = "RUNNING"
        /\ Mark(IF call \in Ended THEN call ELSE "PAUSED")
        /\ UNCHANGED <<runner, registered>>
     \/ /\ sched = "NONE"
        /\ \/ task.status = "CANCELLING"
           \/ task.status = "QUEUED" /\ call # "QUEUED"
        /\ IF task.status = "CANCELLING" /\ call # "RUNNING" THEN FinishCancelled
           ELSE Mark("PAUSED")
        /\ UNCHANGED <<runner, registered>>
  /\ UNCHANGED <<due, call, sched, event, canceller, effects, setbacks>>

(* recover_scheduled_tasks(startup=True).                                  *)
RecoverScheduled ==
  /\ phase = "scheduled" /\ phase' = "up"
  /\ \/ ~Eligible({"QUEUED", "RUNNING"}) /\ UNCHANGED <<task, runner, registered>>
     \/ /\ Eligible({"RUNNING"}) /\ call = "RUNNING"
        /\ Mark("PAUSED")
        /\ UNCHANGED <<runner, registered>>
     \/ /\ Eligible({"QUEUED"}) \/ (Eligible({"RUNNING"}) /\ call # "RUNNING")
        /\ Mark("QUEUED")
        /\ Spawn(FALSE)
  /\ UNCHANGED <<due, call, sched, event, canceller, effects, setbacks>>

------------------------------------------------------------------------------
Run ==
  \/ Created \/ ClaimTask \/ ClaimLost \/ StartAttempt \/ WaitTask \/ WaitReported \/ WaitRefused
  \/ InvokeAnswered \/ InvokeStarts \/ InvokeActs \/ InvokeEnds \/ ConcludeTask \/ Finish
  \/ Interrupted

Proactivity == Tick \/ Resume \/ Wake \/ Delivered
Cancellation == CancelWrites \/ CancelSignals \/ CancelFinishes
Startup == CoreRestarts \/ RecoverStale \/ RecoverScheduled

ScheduleNext ==
  \/ TimeComes \/ Create \/ Run \/ WaitUnreported \/ Proactivity \/ Redeliver
  \/ Cancel \/ Cancellation \/ CoreCrashes \/ Startup

ScheduleSpec == ScheduleInit /\ [][ScheduleNext]_scheduleVars

(* ProactivityRuntime ticks for as long as the process runs, time passes,  *)
(* and somebody starts the assistant again.                                *)
FairScheduleSpec ==
  /\ ScheduleSpec
  /\ WF_scheduleVars(TimeComes) /\ WF_scheduleVars(Run) /\ WF_scheduleVars(Cancellation)
  /\ WF_scheduleVars(Startup) /\ WF_scheduleVars(Tick) /\ WF_scheduleVars(Resume)
  /\ WF_scheduleVars(Wake) /\ WF_scheduleVars(Delivered)

------------------------------------------------------------------------------
(* Properties.                                                             *)

(* However often the event is delivered and whatever recovery makes of a   *)
(* crash, the Task's call takes effect once.                               *)
ActsOnce == effects <= 1

(* Who sleeps has an alarm: an active schedule, or the event it turned     *)
(* into and that nobody has handled (or the outbox gave up on).            *)
SleeperHasAlarm ==
  Sleeps => sched = "ACTIVE" \/ event \in {"PENDING", "FAILED"}

(* Once asleep, the Task does not act before its time, and not at all once *)
(* it is cancelled.                                                        *)
ActsWhenDue ==
  [][effects' # effects /\ sched # "NONE" => due /\ task.status # "CANCELLED"]_scheduleVars

(* Who sleeps wakes up, unless the outbox gave up on the event.            *)
SleeperWakes == Sleeps ~> ~Sleeps \/ event = "FAILED"

(* At every step, crash points included, a scheduled Task has acted once at *)
(* most and, asleep, has what will wake it.                                 *)
SleepIsSafe == ScheduleTypeOK /\ ActsOnce /\ SleeperHasAlarm
==============================================================================
