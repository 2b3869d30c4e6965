---------------------------- MODULE TaskLifecycle ----------------------------
(***************************************************************************)
(* TaskRuntime (execution/task_runtime.py): the life of one durable Task   *)
(* that drives a tool, from create_task over its runner, cancellation,     *)
(* approval and retry to the recovery pass after a crash or a shutdown.    *)
(* Tasks share nothing but _lock, which cancel_task holds.                 *)
(*                                                                         *)
(* Workers are the coroutines: runners (_run, and whoever is about to      *)
(* spawn one) and approvers.  What they read of the Task before an await   *)
(* is their snapshot, and update_task writes all of it back.               *)
(*                                                                         *)
(* ExecutionRuntime.invoke is taken as coarsely as this level can see it:  *)
(* see ToolExecution for its own steps.                                    *)
(***************************************************************************)
EXTENDS Naturals, Sequences, FiniteSets

CONSTANTS
  Runner, Approver,
  Call,        (* ids of the calls the Task's attempts can name            *)
  RetrySafe,   (* calls of idempotent tools without side effect            *)
  Idempotent,  (* calls of idempotent tools: retry_task takes these        *)
  Asks,        (* calls that need a confirmation when they have no grant   *)
  MaxAttempts, (* bound: retry_task is called below this many attempts    *)
  MaxFaults,   (* bound: crashes, shutdowns and storage errors             *)
  None

ASSUME TaskAssumption ==
  /\ RetrySafe \subseteq Idempotent /\ Idempotent \subseteq Call
  /\ Asks \subseteq Call
  /\ MaxAttempts \in Nat \ {0} /\ MaxFaults \in Nat
  /\ Runner \cap Approver = {}
  /\ None \notin Runner \cup Approver \cup Call

VARIABLES
  phase,       (* what the process is doing                                *)
  task,        (* the TaskRecord: status, claimed_by, cancellation_requested *)
  att,         (* the TaskAttempts, in order                               *)
  call,        (* call[c]: status of the ToolCall                          *)
  conf,        (* conf[c]: status of the call's confirmation               *)
  spent,       (* whether the ONE_SHOT grant given to create_task is spent *)
  effects,     (* effects[c]: how many times call c took effect            *)
  job,         (* job[w]: where worker w is, and its locals                *)
  registered,  (* _tasks[task_id]: the runner registered, or None          *)
  cancelEvent, (* whether _cancel_events[task_id] is set                   *)
  canceller,   (* cancel_task: where it is, and its snapshot               *)
  recovery,    (* recover_stale_work: its next commit                      *)
  faults

durable == <<task, att, call, conf, spent, effects>>
vars == <<phase, durable, job, registered, cancelEvent, canceller, recovery, faults>>

Worker == Runner \cup Approver

Ended      == {"SUCCEEDED", "FAILED", "CANCELLED"}
TaskStatus == Ended \cup {"NONE", "QUEUED", "RUNNING", "WAITING_CONFIRMATION",
                          "CANCELLING", "PAUSED"}
Settled    == {"SUCCEEDED", "FAILED", "DENIED"}
CallStatus == Settled \cup {"ABSENT", "QUEUED", "WAITING_CONFIRMATION", "RUNNING",
                            "RECOVERY_REQUIRED"}
Authority  == {"none", "reusable", "one-shot", "approved"}
Result     == {"SUCCEEDED", "FAILED", "CONFIRMATION_REQUIRED"}

Task    == [status : TaskStatus, claimed : BOOLEAN, cancelRequested : BOOLEAN]
Attempt == [call : Call, status : {"QUEUED", "RUNNING", "SUCCEEDED", "FAILED"},
            grant : Authority]

InTry   == {"started", "invoke", "acting", "acted", "result", "decide", "attempt"}
Running == InTry \cup {"claimed", "finish"}
Job == [pc : Running \cup {"gone", "created", "retry", "new", "approve", "write"},
        call : Call \cup {None}, grant : Authority, attempt : Nat, snap : Task,
        result : Result, cut : BOOLEAN, forTask : BOOLEAN]

NoTask == [status |-> "NONE", claimed |-> FALSE, cancelRequested |-> FALSE]
Gone == [pc |-> "gone", call |-> None, grant |-> "none", attempt |-> 0, snap |-> NoTask,
         result |-> "FAILED", cut |-> FALSE, forTask |-> FALSE]
Idle == [pc |-> "idle", snap |-> NoTask, runner |-> None]

TypeOK ==
  /\ phase \in {"up", "stopping", "down", "recovering"}
  /\ task \in Task
  /\ att \in Seq(Attempt)
  /\ call \in [Call -> CallStatus]
  /\ conf \in [Call -> {"NONE", "PENDING", "APPROVED", "DENIED"}]
  /\ spent \in BOOLEAN
  /\ effects \in [Call -> Nat]
  /\ job \in [Worker -> Job]
  /\ registered \in Runner \cup {None}
  /\ cancelEvent \in BOOLEAN
  /\ canceller \in [pc : {"idle", "write", "signal", "wait", "finish"}, snap : Task,
                    runner : Runner \cup {None}]
  /\ recovery \in {"idle", "reconcile", "requeue-call", "requeue-task", "park-call",
                   "fail-call", "finalize-attempt"}
  /\ faults \in 0 .. MaxFaults

Init ==
  /\ phase = "up"
  /\ task = NoTask
  /\ att = << >>
  /\ call = [c \in Call |-> "ABSENT"]
  /\ conf = [c \in Call |-> "NONE"]
  /\ spent = FALSE
  /\ effects = [c \in Call |-> 0]
  /\ job = [w \in Worker |-> Gone]
  /\ registered = None
  /\ cancelEvent = FALSE
  /\ canceller = Idle
  /\ recovery = "idle"
  /\ faults = 0

------------------------------------------------------------------------------
(* Helpers.                                                                *)

Latest == att[Len(att)]

Free(w)  == job[w] = Gone
Fresh(r) == Free(r) /\ r \notin {registered, canceller.runner}

Move(w, l) == job' = [job EXCEPT ![w].pc = l]
End(w)     == job' = [job EXCEPT ![w] = Gone]
Returned(w, r) == job' = [job EXCEPT ![w] = [@ EXCEPT !.pc = "result", !.result = r]]

SaveCall(c, s)    == call' = [call EXCEPT ![c] = s]
SaveAttempt(i, s) == att' = [att EXCEPT ![i].status = s]

(* update_task(replace(snap, status = s)): everything else as it was read. *)
SaveTask(snap, s) == task' = [snap EXCEPT !.status = s]

(* asyncio.create_task(self._run(...)), registered in _tasks, with a fresh *)
(* cancellation event.                                                     *)
Spawn(r, c, g) ==
  /\ job' = [job EXCEPT ![r] = [Gone EXCEPT !.pc = "new", !.call = c, !.grant = g]]
  /\ registered' = r
  /\ cancelEvent' = FALSE

(* The runner leaves _run past its finally: it is popped from _tasks.      *)
Leave(r) ==
  /\ End(r)
  /\ registered' = None

(* _finish_cancelled writes CANCELLED whatever the Task had become.        *)
FinishCancelled ==
  task' = IF task.status = "CANCELLED" THEN task
          ELSE [task EXCEPT !.status = "CANCELLED", !.cancelRequested = TRUE]

------------------------------------------------------------------------------
(* create_task and retry_task.                                             *)

(* save_task_with_intent: Task, call and attempt in one transaction; the   *)
(* runner is spawned after the audit record that follows.                  *)
Create(r, c, g) ==
  /\ phase = "up" /\ task.status = "NONE" /\ Fresh(r)
  /\ task' = [NoTask EXCEPT !.status = "QUEUED"]
  /\ att' = <<[call |-> c, status |-> "QUEUED", grant |-> g]>>
  /\ SaveCall(c, "QUEUED")
  /\ job' = [job EXCEPT ![r] = [Gone EXCEPT !.pc = "created", !.call = c, !.grant = g]]
  /\ UNCHANGED <<phase, conf, spent, effects, registered, cancelEvent, canceller,
                 recovery, faults>>

Created(r) ==
  /\ phase = "up" /\ job[r].pc = "created"
  /\ Spawn(r, job[r].call, job[r].grant)
  /\ UNCHANGED <<phase, durable, canceller, recovery, faults>>

(* Only a FAILED Task, and only an idempotent tool.  Nothing in the        *)
(* repository calls retry_task; a caller is taken to wait until the last   *)
(* runner and any cancellation have left.  (A runner that still closes its *)
(* attempt would unregister the new one, and fail it if its commit raises; *)
(* a cancellation that began earlier would stop it.)                       *)
Retry(r, c) ==
  /\ phase = "up" /\ task.status = "FAILED" /\ Fresh(r)
  /\ c \in Idempotent /\ Len(att) < MaxAttempts
  /\ canceller = Idle /\ \A q \in Runner : Free(q)
  /\ job' = [job EXCEPT ![r] = [Gone EXCEPT !.pc = "retry", !.call = c, !.snap = task]]
  /\ UNCHANGED <<phase, durable, registered, cancelEvent, canceller, recovery, faults>>

RetryQueued(r) ==
  /\ phase = "up" /\ job[r].pc = "retry"
  /\ task' = [NoTask EXCEPT !.status = "QUEUED"]
  /\ Spawn(r, job[r].call, "none")
  /\ UNCHANGED <<phase, att, call, conf, spent, effects, canceller, recovery, faults>>

------------------------------------------------------------------------------
(* _run.                                                                   *)

(* Mutant of Claim: what became of the Task is not looked at.              *)
ClaimAnyway(r) ==
  /\ job[r].pc = "new" /\ ~job[r].cut
  /\ task' = [task EXCEPT !.status = "RUNNING", !.claimed = TRUE]
  /\ Move(r, "claimed")
  /\ UNCHANGED <<phase, att, call, conf, spent, effects, registered, cancelEvent,
                 canceller, recovery, faults>>

(* claim_task is one UPDATE conditional on QUEUED and unclaimed.           *)
Claim(r) ==
  /\ job[r].pc = "new" /\ ~job[r].cut
  /\ task.status = "QUEUED" /\ ~task.claimed
  /\ task' = [task EXCEPT !.status = "RUNNING", !.claimed = TRUE]
  /\ Move(r, "claimed")
  /\ UNCHANGED <<phase, att, call, conf, spent, effects, registered, cancelEvent,
                 canceller, recovery, faults>>

(* Not claimed: _run returns before its try, and stays in _tasks.          *)
ClaimLost(r) ==
  /\ job[r].pc = "new" /\ ~job[r].cut
  /\ task.status # "QUEUED" \/ task.claimed
  /\ End(r)
  /\ UNCHANGED <<phase, durable, registered, cancelEvent, canceller, recovery, faults>>

(* The attempt stored with the Task is reused; another run appends one.    *)
StartAttempt(r) ==
  /\ job[r].pc = "claimed" /\ ~job[r].cut
  /\ \/ Latest.call = job[r].call /\ Latest.status = "QUEUED"
          /\ SaveAttempt(Len(att), "RUNNING")
     \/ /\ Latest.call # job[r].call \/ Latest.status # "QUEUED"
        /\ att' = Append(att, [call |-> job[r].call, status |-> "RUNNING",
                               grant |-> job[r].grant])
  /\ job' = [job EXCEPT ![r] = [@ EXCEPT !.pc = "started", !.attempt = Len(att')]]
  /\ UNCHANGED <<phase, task, call, conf, spent, effects, registered, cancelEvent,
                 canceller, recovery, faults>>

CheckCancelled(r) ==
  /\ job[r].pc = "started" /\ ~job[r].cut
  /\ Move(r, IF cancelEvent THEN "finish" ELSE "invoke")
  /\ UNCHANGED <<phase, durable, registered, cancelEvent, canceller, recovery, faults>>

(* After invoke the Task is read again.                                    *)
Reread(r) ==
  /\ r \in Runner /\ job[r].pc = "result" /\ ~job[r].cut
  /\ job' = [job EXCEPT ![r] = [@ EXCEPT !.pc = "decide", !.snap = task]]
  /\ UNCHANGED <<phase, durable, registered, cancelEvent, canceller, recovery, faults>>

AwaitConfirmation(r) ==
  /\ job[r].pc = "decide" /\ ~job[r].cut
  /\ job[r].result = "CONFIRMATION_REQUIRED"
  /\ SaveTask(job[r].snap, "WAITING_CONFIRMATION")
  /\ Leave(r)
  /\ UNCHANGED <<phase, att, call, conf, spent, effects, cancelEvent, canceller,
                 recovery, faults>>

NoticeCancelled(r) ==
  /\ job[r].pc = "decide" /\ ~job[r].cut
  /\ job[r].result # "CONFIRMATION_REQUIRED"
  /\ cancelEvent \/ job[r].snap.cancelRequested
  /\ Move(r, "finish")
  /\ UNCHANGED <<phase, durable, registered, cancelEvent, canceller, recovery, faults>>

Conclude(r) ==
  /\ job[r].pc = "decide" /\ ~job[r].cut
  /\ job[r].result # "CONFIRMATION_REQUIRED"
  /\ ~cancelEvent /\ ~job[r].snap.cancelRequested
  /\ SaveTask(job[r].snap, job[r].result)
  /\ Move(r, "attempt")
  /\ UNCHANGED <<phase, att, call, conf, spent, effects, registered, cancelEvent,
                 canceller, recovery, faults>>

CloseAttempt(r) ==
  /\ r \in Runner /\ job[r].pc = "attempt" /\ ~job[r].cut
  /\ SaveAttempt(job[r].attempt, job[r].result)
  /\ Leave(r)
  /\ UNCHANGED <<phase, task, call, conf, spent, effects, cancelEvent, canceller,
                 recovery, faults>>

RunnerFinishes(r) ==
  /\ job[r].pc = "finish" /\ ~job[r].cut
  /\ FinishCancelled
  /\ Leave(r)
  /\ UNCHANGED <<phase, att, call, conf, spent, effects, cancelEvent, canceller,
                 recovery, faults>>

(* CancelledError.  Before the try it ends the runner on the spot (and     *)
(* leaves it in _tasks); inside, it becomes a cancelled Task, unless the   *)
(* whole runtime is stopping.                                              *)
Interrupted(r) ==
  /\ job[r].cut
  /\ \/ job[r].pc \in {"new", "claimed"} /\ End(r) /\ UNCHANGED registered
     \/ /\ job[r].pc \in InTry \cup {"finish"} /\ phase # "stopping"
        /\ job' = [job EXCEPT ![r] = [@ EXCEPT !.pc = "finish", !.cut = FALSE]]
        /\ UNCHANGED registered
     \/ job[r].pc \in InTry \cup {"finish"} /\ phase = "stopping" /\ Leave(r)
  /\ UNCHANGED <<phase, durable, cancelEvent, canceller, recovery, faults>>

(* Any other exception in the try.                                         *)
Trip(r) ==
  /\ job[r].pc \in InTry /\ r \in Runner /\ ~job[r].cut
  /\ faults < MaxFaults /\ faults' = faults + 1
  /\ task' = IF task.status \in {"CANCELLED", "SUCCEEDED"} THEN task
             ELSE [task EXCEPT !.status = "FAILED"]
  /\ Leave(r)
  /\ UNCHANGED <<phase, att, call, conf, spent, effects, cancelEvent, canceller, recovery>>

------------------------------------------------------------------------------
(* ExecutionRuntime.invoke, by a runner or an approver; one at a time.     *)

Unlocked == \A w \in Worker : job[w].pc \notin {"acting", "acted"}

(* A duplicate in flight is answered with an error, as is a settled        *)
(* failure; a waiting call with its confirmation.                          *)
InvokeAnswered(w) ==
  /\ job[w].pc = "invoke" /\ ~job[w].cut /\ Unlocked
  /\ LET c == job[w].call IN
       \/ call[c] = "SUCCEEDED" /\ Returned(w, "SUCCEEDED")
       \/ call[c] \in {"FAILED", "DENIED", "RUNNING"} /\ Returned(w, "FAILED")
       \/ call[c] = "WAITING_CONFIRMATION" /\ job[w].grant = "none"
            /\ Returned(w, "CONFIRMATION_REQUIRED")
  /\ UNCHANGED <<phase, durable, registered, cancelEvent, canceller, recovery, faults>>

Proceeds(w) ==
  /\ job[w].pc = "invoke" /\ ~job[w].cut /\ Unlocked
  /\ \/ call[job[w].call] \in {"ABSENT", "QUEUED", "RECOVERY_REQUIRED"}
     \/ call[job[w].call] = "WAITING_CONFIRMATION" /\ job[w].grant # "none"

InvokeAsks(w) ==
  /\ Proceeds(w) /\ job[w].grant = "none" /\ job[w].call \in Asks
  /\ conf' = [conf EXCEPT ![job[w].call] = "PENDING"]
  /\ SaveCall(job[w].call, "WAITING_CONFIRMATION")
  /\ Returned(w, "CONFIRMATION_REQUIRED")
  /\ UNCHANGED <<phase, task, att, spent, effects, registered, cancelEvent, canceller,
                 recovery, faults>>

InvokeRefused(w) ==
  /\ Proceeds(w)
  /\ \/ job[w].grant = "none" /\ job[w].call \notin Asks
     \/ job[w].grant = "one-shot" /\ spent
  /\ SaveCall(job[w].call, "DENIED")
  /\ Returned(w, "FAILED")
  /\ UNCHANGED <<phase, task, att, conf, spent, effects, registered, cancelEvent,
                 canceller, recovery, faults>>

InvokeStarts(w) ==
  /\ Proceeds(w)
  /\ \/ job[w].grant \in {"reusable", "approved"} /\ UNCHANGED spent
     \/ job[w].grant = "one-shot" /\ ~spent /\ spent' = TRUE
  /\ SaveCall(job[w].call, "RUNNING")
  /\ Move(w, "acting")
  /\ UNCHANGED <<phase, task, att, conf, effects, registered, cancelEvent, canceller,
                 recovery, faults>>

InvokeActs(w) ==
  /\ job[w].pc = "acting" /\ ~job[w].cut
  /\ effects' = [effects EXCEPT ![job[w].call] = @ + 1]
  /\ Move(w, "acted")
  /\ UNCHANGED <<phase, task, att, call, conf, spent, registered, cancelEvent, canceller,
                 recovery, faults>>

InvokeEnds(w) ==
  /\ ~job[w].cut
  /\ \E s \in {"SUCCEEDED", "FAILED"} :
       /\ job[w].pc = "acted" \/ (job[w].pc = "acting" /\ s = "FAILED")
       /\ SaveCall(job[w].call, s)
       /\ Returned(w, s)
  /\ UNCHANGED <<phase, task, att, conf, spent, effects, registered, cancelEvent,
                 canceller, recovery, faults>>

------------------------------------------------------------------------------
(* approve_confirmation of the Task (forTask), or of the execution runtime *)
(* behind the Task's back, which is what the desktop's button calls.       *)

Approve(a, c, forTask) ==
  /\ phase = "up" /\ Free(a) /\ conf[c] = "PENDING"
  /\ forTask => task.status = "WAITING_CONFIRMATION"
  /\ job' = [job EXCEPT ![a] = [Gone EXCEPT !.pc = "approve", !.call = c, !.grant = "approved",
                                            !.snap = task, !.forTask = forTask]]
  /\ UNCHANGED <<phase, durable, registered, cancelEvent, canceller, recovery, faults>>

Approved(a) ==
  /\ job[a].pc = "approve" /\ conf[job[a].call] = "PENDING"
  /\ conf' = [conf EXCEPT ![job[a].call] = "APPROVED"]
  /\ Move(a, "invoke")
  /\ UNCHANGED <<phase, task, att, call, spent, effects, registered, cancelEvent,
                 canceller, recovery, faults>>

ResolvedByOther(a) ==
  /\ job[a].pc = "approve" /\ conf[job[a].call] # "PENDING"
  /\ End(a)
  /\ UNCHANGED <<phase, durable, registered, cancelEvent, canceller, recovery, faults>>

(* Mutant of ApproverConcludes: an approval is taken for a success.        *)
ApproverTrusts(a) ==
  /\ a \in Approver /\ job[a].pc = "result"
  /\ \/ job[a].forTask /\ SaveTask(job[a].snap, "SUCCEEDED") /\ Move(a, "attempt")
     \/ ~job[a].forTask /\ End(a) /\ UNCHANGED task
  /\ UNCHANGED <<phase, att, call, conf, spent, effects, registered, cancelEvent,
                 canceller, recovery, faults>>

(* The Task is written back as it was read before the approval.            *)
ApproverConcludes(a) ==
  /\ a \in Approver /\ job[a].pc = "result"
  /\ \/ /\ job[a].forTask
        /\ SaveTask(job[a].snap, IF job[a].result = "SUCCEEDED" THEN "SUCCEEDED" ELSE "FAILED")
        /\ Move(a, "attempt")
     \/ ~job[a].forTask /\ End(a) /\ UNCHANGED task
  /\ UNCHANGED <<phase, att, call, conf, spent, effects, registered, cancelEvent,
                 canceller, recovery, faults>>

ApproverClosesAttempt(a) ==
  /\ a \in Approver /\ job[a].pc = "attempt"
  /\ SaveAttempt(Len(att), IF job[a].result = "SUCCEEDED" THEN "SUCCEEDED" ELSE "FAILED")
  /\ End(a)
  /\ UNCHANGED <<phase, task, call, conf, spent, effects, registered, cancelEvent,
                 canceller, recovery, faults>>

Deny(c) ==
  /\ phase = "up" /\ conf[c] = "PENDING"
  /\ conf' = [conf EXCEPT ![c] = "DENIED"]
  /\ UNCHANGED <<phase, task, att, call, spent, effects, job, registered, cancelEvent,
                 canceller, recovery, faults>>

------------------------------------------------------------------------------
(* cancel_task; _lock lets one cancellation run at a time.                 *)

Cancel ==
  /\ phase = "up" /\ canceller = Idle
  /\ task.status \notin Ended \cup {"NONE"}
  /\ canceller' = [canceller EXCEPT !.pc = "write", !.snap = task]
  /\ UNCHANGED <<phase, durable, job, registered, cancelEvent, recovery, faults>>

CancelWrites ==
  /\ canceller.pc = "write"
  /\ task' = [canceller.snap EXCEPT !.status = "CANCELLING", !.cancelRequested = TRUE]
  /\ canceller' = [canceller EXCEPT !.pc = "signal", !.snap = NoTask]
  /\ UNCHANGED <<phase, att, call, conf, spent, effects, job, registered, cancelEvent,
                 recovery, faults>>

(* A registered runner that is not done is cancelled and waited for.       *)
CancelSignals ==
  /\ canceller.pc = "signal"
  /\ cancelEvent' = TRUE
  /\ IF registered # None /\ ~Free(registered)
       THEN /\ job' = [job EXCEPT ![registered].cut = TRUE]
            /\ canceller' = [canceller EXCEPT !.pc = "wait", !.runner = registered]
       ELSE /\ canceller' = [canceller EXCEPT !.pc = "finish"]
            /\ UNCHANGED job
  /\ UNCHANGED <<phase, durable, registered, recovery, faults>>

CancelGathered ==
  /\ canceller.pc = "wait" /\ Free(canceller.runner)
  /\ canceller' = [canceller EXCEPT !.pc = "finish", !.runner = None]
  /\ UNCHANGED <<phase, durable, job, registered, cancelEvent, recovery, faults>>

(* Mutant of CancelFinishes: left to the runner's own handler.             *)
CancelTrusts ==
  /\ canceller.pc = "finish"
  /\ canceller' = Idle
  /\ UNCHANGED <<phase, durable, job, registered, cancelEvent, recovery, faults>>

CancelFinishes ==
  /\ canceller.pc = "finish"
  /\ FinishCancelled
  /\ canceller' = Idle
  /\ UNCHANGED <<phase, att, call, conf, spent, effects, job, registered, cancelEvent,
                 recovery, faults>>

------------------------------------------------------------------------------
(* Anywhere else an exception ends the coroutine and nothing is put right; *)
(* one in a handler of _run still leaves through its finally.              *)

Break(w) ==
  /\ faults < MaxFaults /\ faults' = faults + 1
  /\ ~Free(w) /\ ~(w \in Runner /\ job[w].pc \in InTry)
  /\ End(w)
  /\ registered' = IF job[w].pc = "finish" THEN None ELSE registered
  /\ UNCHANGED <<phase, durable, cancelEvent, canceller, recovery>>

CancelBreaks ==
  /\ faults < MaxFaults /\ faults' = faults + 1
  /\ canceller # Idle
  /\ canceller' = Idle
  /\ UNCHANGED <<phase, durable, job, registered, cancelEvent, recovery>>

------------------------------------------------------------------------------
(* stop(), a crash, and the next start.                                    *)

Stop ==
  /\ phase = "up" /\ faults < MaxFaults /\ faults' = faults + 1
  /\ phase' = "stopping"
  /\ cancelEvent' = TRUE
  /\ job' = [w \in Worker |-> IF w = registered /\ ~Free(w)
                                THEN [job[w] EXCEPT !.cut = TRUE] ELSE job[w]]
  /\ UNCHANGED <<durable, registered, canceller, recovery>>

Forgotten ==
  /\ job' = [w \in Worker |-> Gone]
  /\ registered' = None
  /\ cancelEvent' = FALSE
  /\ canceller' = Idle
  /\ recovery' = "idle"

(* Stopped once the registered runners are done; what else still ran goes  *)
(* with the process.                                                       *)
Stopped ==
  /\ phase = "stopping"
  /\ \A r \in Runner : ~job[r].cut
  /\ phase' = "down"
  /\ Forgotten
  /\ UNCHANGED <<durable, faults>>

Crash ==
  /\ phase # "down" /\ faults < MaxFaults /\ faults' = faults + 1
  /\ phase' = "down"
  /\ Forgotten
  /\ UNCHANGED durable

Restart ==
  /\ phase = "down"
  /\ phase' = "recovering"
  /\ recovery' = "reconcile"
  /\ UNCHANGED <<durable, job, registered, cancelEvent, canceller, faults>>

------------------------------------------------------------------------------
(* recover_stale_work, before the Core takes requests.                     *)

Known == task.status # "NONE"
Evidence == IF Known THEN call[Latest.call] ELSE "ABSENT"

Then(l) == recovery' = l /\ phase' = IF l = "idle" THEN "up" ELSE phase

(* Mutant of RetrySafeCall: idempotent is taken to be safe.                *)
IdempotentCall == Latest.call \in Idempotent

RetrySafeCall == Latest.call \in RetrySafe

(* _pause_for_reconciliation: the Task first, then the call's doubt.       *)
Pause(l) ==
  /\ task' = [task EXCEPT !.status = "PAUSED", !.claimed = FALSE]
  /\ Then(l)
  /\ UNCHANGED <<att, call, job, registered, cancelEvent>>

Requeue ==
  /\ task' = [task EXCEPT !.status = "QUEUED", !.claimed = FALSE]
  /\ \E r \in Runner : Spawn(r, Latest.call, Latest.grant)
  /\ Then("idle")
  /\ UNCHANGED <<att, call>>

NothingToDo ==
  /\ recovery = "reconcile"
  /\ task.status \in Ended \cup {"NONE", "PAUSED"}
  /\ Then("idle")
  /\ UNCHANGED <<durable, job, registered, cancelEvent, canceller, faults>>

ReconcileQueued ==
  /\ recovery = "reconcile" /\ task.status = "QUEUED"
  /\ \/ Evidence = "QUEUED" /\ Requeue
     \/ Evidence # "QUEUED" /\ Pause("idle")
  /\ UNCHANGED <<conf, spent, effects, canceller, faults>>

ReconcileRunning ==
  /\ recovery = "reconcile" /\ task.status = "RUNNING"
  /\ \/ /\ Evidence \in Settled
        /\ task' = [task EXCEPT !.claimed = FALSE,
                      !.status = IF Evidence = "SUCCEEDED" THEN "SUCCEEDED" ELSE "FAILED"]
        /\ Then("finalize-attempt")
        /\ UNCHANGED <<att, call, job, registered, cancelEvent>>
     \/ /\ Evidence = "WAITING_CONFIRMATION"
        /\ task' = [task EXCEPT !.status = "WAITING_CONFIRMATION", !.claimed = FALSE]
        /\ Then("idle")
        /\ UNCHANGED <<att, call, job, registered, cancelEvent>>
     \/ /\ Evidence = "RUNNING" /\ RetrySafeCall
        /\ SaveAttempt(Len(att), "FAILED")
        /\ Then("requeue-call")
        /\ UNCHANGED <<task, call, job, registered, cancelEvent>>
     \/ Evidence = "RUNNING" /\ ~RetrySafeCall /\ Pause("park-call")
     \/ Evidence \in {"ABSENT", "QUEUED", "RECOVERY_REQUIRED"} /\ Pause("idle")
  /\ UNCHANGED <<conf, spent, effects, canceller, faults>>

ReconcileWaiting ==
  /\ recovery = "reconcile" /\ task.status = "WAITING_CONFIRMATION"
  /\ \/ /\ conf[Latest.call] = "PENDING"
        /\ Then("idle")
        /\ UNCHANGED <<task, att, call, job, registered, cancelEvent>>
     \/ conf[Latest.call] # "PENDING" /\ Pause("idle")
  /\ UNCHANGED <<conf, spent, effects, canceller, faults>>

ReconcileCancelling ==
  /\ recovery = "reconcile" /\ task.status = "CANCELLING"
  /\ \/ Evidence = "RUNNING" /\ ~RetrySafeCall /\ Pause("park-call")
     \/ /\ Evidence = "RUNNING" => RetrySafeCall
        /\ FinishCancelled
        /\ Then(IF Evidence = "RUNNING" THEN "fail-call" ELSE "idle")
        /\ UNCHANGED <<att, call, job, registered, cancelEvent>>
  /\ UNCHANGED <<conf, spent, effects, canceller, faults>>

(* The later commits of a reconciliation.                                  *)
RecoveryGoesOn ==
  /\ \/ /\ recovery = "finalize-attempt"
        /\ SaveAttempt(Len(att), task.status)
        /\ Then("idle")
        /\ UNCHANGED <<task, call, job, registered, cancelEvent>>
     \/ /\ recovery = "requeue-call"
        /\ SaveCall(Latest.call, "QUEUED")
        /\ Then("requeue-task")
        /\ UNCHANGED <<task, att, job, registered, cancelEvent>>
     \/ recovery = "requeue-task" /\ Requeue
     \/ /\ recovery \in {"park-call", "fail-call"}
        /\ SaveCall(Latest.call, IF recovery = "park-call" THEN "RECOVERY_REQUIRED" ELSE "FAILED")
        /\ Then("idle")
        /\ UNCHANGED <<task, att, job, registered, cancelEvent>>
  /\ UNCHANGED <<conf, spent, effects, canceller, faults>>

------------------------------------------------------------------------------
Run(r) ==
  \/ Created(r) \/ RetryQueued(r) \/ Claim(r) \/ ClaimLost(r) \/ StartAttempt(r)
  \/ CheckCancelled(r) \/ Reread(r) \/ AwaitConfirmation(r) \/ NoticeCancelled(r)
  \/ Conclude(r) \/ CloseAttempt(r) \/ RunnerFinishes(r) \/ Interrupted(r)

Invoke(w) ==
  \/ InvokeAnswered(w) \/ InvokeAsks(w) \/ InvokeRefused(w) \/ InvokeStarts(w)
  \/ InvokeActs(w) \/ InvokeEnds(w)

Approval(a) ==
  \/ Approved(a) \/ ResolvedByOther(a) \/ ApproverConcludes(a) \/ ApproverClosesAttempt(a)

Cancellation == CancelWrites \/ CancelSignals \/ CancelGathered \/ CancelFinishes

Recover ==
  \/ NothingToDo \/ ReconcileQueued \/ ReconcileRunning \/ ReconcileWaiting
  \/ ReconcileCancelling \/ RecoveryGoesOn

Next ==
  \/ \E r \in Runner : Run(r) \/ Invoke(r) \/ Trip(r)
  \/ \E r \in Runner, c \in Call :
       \/ \E g \in {"none", "reusable", "one-shot"} : Create(r, c, g)
       \/ Retry(r, c)
  \/ \E a \in Approver : Approval(a) \/ Invoke(a)
  \/ \E a \in Approver, c \in Call, t \in BOOLEAN : Approve(a, c, t)
  \/ \E c \in Call : Deny(c)
  \/ \E w \in Worker : Break(w)
  \/ Cancel \/ Cancellation \/ CancelBreaks
  \/ Stop \/ Stopped \/ Crash \/ Restart \/ Recover

Spec == Init /\ [][Next]_vars

(* The event loop runs every ready coroutine, and every tool runs under a  *)
(* timeout; the lock of invoke serves its waiters in order.                *)
Fairness ==
  /\ \A r \in Runner : WF_vars(Run(r))
  /\ \A w \in Worker : SF_vars(Invoke(w))
  /\ WF_vars(Cancellation)

FairSpec == Spec /\ Fairness

------------------------------------------------------------------------------
(* Properties.                                                             *)

(* A call whose tool is not known to be safe to repeat takes effect once   *)
(* at most, over retries, cancellations, crashes and recoveries.           *)
UncertainNeverRepeated == \A c \in Call \ RetrySafe : effects[c] <= 1

(* A Task that SUCCEEDED has an effect to show for it: the call of one of  *)
(* its attempts succeeded.                                                 *)
SuccessHasEvidence ==
  task.status = "SUCCEEDED" =>
    \E i \in DOMAIN att : call[att[i].call] = "SUCCEEDED" /\ effects[att[i].call] > 0

(* While the Core serves, a Task that says somebody is working on it is    *)
(* right, a RUNNING one having its runner and a CANCELLING one its         *)
(* canceller: only an error outside _run's try takes them away, and        *)
(* recovery never leaves a Task so.                                        *)
Stranded ==
  /\ phase = "up" /\ canceller.pc = "idle"
  /\ \/ task.status = "RUNNING" /\ \A r \in Runner : job[r].pc \notin Running
     \/ task.status = "CANCELLING"

OnlyErrorsStrand == [][Stranded' /\ ~Stranded => faults' > faults]_vars

(* CANCELLED stands.  Only who had read the Task before it was cancelled,  *)
(* an approval or another cancellation, writes over it.                    *)
CancelledIsFinal ==
  [][task.status = "CANCELLED" =>
       \/ task' = task
       \/ \E w \in Worker :
            /\ job[w].pc = "result" /\ job'[w] # job[w]
            /\ job[w].snap.status = "WAITING_CONFIRMATION"
       \/ canceller.pc = "write" /\ canceller.snap.status # "CANCELLED"]_vars

(* Unless something fails, cancel_task gets its way: neither the lock it   *)
(* holds nor the runner it waits for can keep it from it.                  *)
CancelCompletes ==
  canceller.pc = "write" ~> task.status = "CANCELLED" \/ faults > 0

(* The stored verdicts are true: every record is of its type, and SUCCEEDED *)
(* has its evidence, whichever of the separate commits of a Task, its       *)
(* attempt and its call a crash or an error cuts off.                       *)
VerdictsAreTrue == TypeOK /\ SuccessHasEvidence

(* The status of a Task is kept up to date by whoever is at work on it, and *)
(* left alone when it is final.                                             *)
StatusIsKept == OnlyErrorsStrand /\ CancelledIsFinal
==============================================================================
