------------------------------- MODULE AgentRuns -------------------------------
(***************************************************************************)
(* A Task delegated to Agents (AgentRuntime with the two runners of the    *)
(* product, ResearchAgent and DevelopmentAnalysisAgent, and the part of    *)
(* TaskRuntime that keeps and recovers AGENT Tasks): the driver that       *)
(* creates a run, executes it and projects its result, the client that     *)
(* cancels the Task or decides a parked call, crashes and restarts.        *)
(*                                                                         *)
(* The provider's answers and the Tools' results are free choices; the     *)
(* proposals of one answer are drawn one at a time.  What a Tool call does *)
(* inside ExecutionRuntime.invoke is the subject of ToolExecution: here it *)
(* acts, or is parked for a confirmation.  The driver is no code of src/:  *)
(* it does what the project's tests do.                                    *)
(*                                                                         *)
(* Left out: the texts, the usage counts, the prompt, the routing (module  *)
(* AIConfiguration), what a repository analysis says it inspected (the     *)
(* provider's own word when it gives one), and web.search, a Tool call     *)
(* like any other that names no source.                                    *)
(***************************************************************************)
EXTENDS Naturals, Sequences, FiniteSets

CONSTANTS
  Url,                       (* what web.read and filesystem.read can name *)
  MaxSteps, MaxToolCalls,    (* runtime_limits of the definitions          *)
  MinSources, MaxSources,
  MaxRuns, MaxFaults, MaxCrashes   (* bounds of the exploration            *)

None == "none"

ASSUME AgentRunsAssumption ==
  /\ None \notin Url
  /\ {MaxSteps, MaxToolCalls, MinSources, MaxSources} \subseteq Nat \ {0}
  /\ {MaxRuns, MaxFaults, MaxCrashes} \subseteq Nat

VARIABLES
  task,       (* status of the AGENT Task; "NONE" before it is created     *)
  runs,       (* its agent_runs rows, oldest first                         *)
  at,         (* where the driver is with the last of them                 *)
  loop,       (* the local state of the runner: _RunState and counters     *)
  outcome,    (* what the driver is about to store                         *)
  cancelling, (* a cancel_task is between its two commits                  *)
  parked,     (* for each run, its calls that wait for a confirmation      *)
  acts,       (* for each run, the Tool calls that took effect             *)
  read,       (* the sources a Tool really returned to the last run        *)
  faults, crashes

store == <<task, runs>>
driver == <<at, loop, outcome>>
world == <<parked, acts, read>>
vars == <<store, driver, cancelling, world, faults, crashes>>

(* INTERRUPTED is FAILED with the result that recovery writes.             *)
Kind == {"RESEARCH", "ANALYSIS"}
TaskStatus == {"NONE", "QUEUED", "PAUSED", "CANCELLING", "SUCCEEDED", "FAILED", "CANCELLED"}
RunStatus == {"QUEUED", "RUNNING", "SUCCEEDED", "FAILED", "INTERRUPTED", "CANCELLED"}

Last == Len(runs)
Running(r) == r \in DOMAIN runs /\ runs[r].status = "RUNNING"
Inside == {"loop", "tool"}                  (* the runner has control       *)
Committing == {"created", "starting", "saving", "audit"}   (* outside its try *)
Alive == at \notin {"down", "pausing"}

Fresh == [steps |-> 0, calls |-> 0, open |-> FALSE, now |-> None, good |-> {}]
Nothing == [status |-> "FAILED", sources |-> {}]

Init ==
  /\ task = "NONE" /\ runs = <<>>
  /\ at = "idle" /\ loop = Fresh /\ outcome = Nothing
  /\ cancelling = FALSE /\ parked = [r \in 1..MaxRuns |-> 0]
  /\ acts = [r \in 1..MaxRuns |-> 0] /\ read = {}
  /\ faults = 0 /\ crashes = 0

(***************************************************************************)
(* TaskRuntime: the AGENT Task                                             *)
(***************************************************************************)
CreateTask ==
  /\ task = "NONE" /\ at = "idle"
  /\ task' = "QUEUED"
  /\ UNCHANGED <<runs, driver, cancelling, world, faults, crashes>>

(* complete_agent_task asks neither the Task nor the run for its status.   *)
CompleteTask ==
  /\ at = "returned"
  /\ task' = outcome.status /\ at' = "idle" /\ outcome' = Nothing
  /\ UNCHANGED <<runs, loop, cancelling, world, faults, crashes>>

RequestCancel ==
  /\ Alive /\ ~cancelling /\ task \in {"QUEUED", "PAUSED", "CANCELLING"}
  /\ task' = "CANCELLING" /\ cancelling' = TRUE
  /\ UNCHANGED <<runs, driver, world, faults, crashes>>

FinishCancel ==
  /\ cancelling
  /\ task' = "CANCELLED" /\ cancelling' = FALSE
  /\ UNCHANGED <<runs, driver, world, faults, crashes>>

(***************************************************************************)
(* AgentRuntime.create_agent_run and run                                   *)
(***************************************************************************)
CreateRun ==
  /\ at = "idle" /\ task \in {"QUEUED", "PAUSED"} /\ Last < MaxRuns
  /\ \E k \in Kind :
       runs' = Append(runs, [kind |-> k, status |-> "QUEUED", sources |-> {}])
  /\ at' = "created" /\ read' = {}
  /\ UNCHANGED <<task, loop, outcome, cancelling, parked, acts, faults, crashes>>

Stored(status, sources) ==
  runs' = [runs EXCEPT ![Last].status = status, ![Last].sources = sources]

(* A definition is a row, its runner lives in this process only: a run     *)
(* whose runner was not registered again after a restart fails at once.    *)
RunnerUnavailable ==
  /\ at = "created" /\ crashes > 0
  /\ Stored("FAILED", {}) /\ outcome' = Nothing /\ at' = "audit"
  /\ UNCHANGED <<task, loop, cancelling, world, faults, crashes>>

StartRun ==
  /\ at = "created"
  /\ Stored("RUNNING", {}) /\ at' = "starting"
  /\ UNCHANGED <<task, loop, outcome, cancelling, world, faults, crashes>>

EnterRunner ==
  /\ at = "starting"
  /\ at' = "loop"
  /\ UNCHANGED <<store, loop, outcome, cancelling, world, faults, crashes>>

Returns(status, sources) ==
  /\ outcome' = [status |-> status, sources |-> sources]
  /\ at' = "saving" /\ loop' = Fresh

SaveOutcome ==
  /\ at = "saving"
  /\ Stored(outcome.status, outcome.sources) /\ at' = "audit"
  /\ UNCHANGED <<task, loop, outcome, cancelling, world, faults, crashes>>

(* A cancelled run raises again: its driver has no result to project.      *)
AuditOutcome ==
  /\ at = "audit"
  /\ IF outcome.status = "CANCELLED" THEN at' = "idle" /\ outcome' = Nothing
                                     ELSE at' = "returned" /\ UNCHANGED outcome
  /\ UNCHANGED <<store, loop, cancelling, world, faults, crashes>>

(***************************************************************************)
(* The loop of a runner                                                    *)
(***************************************************************************)
IsResearch == runs[Last].kind = "RESEARCH"
Enough == Cardinality(loop.good) >= MinSources

(* _finalize: never without the evidence, whatever the provider wrote.     *)
Finalize ==
  Returns(IF Enough THEN "SUCCEEDED" ELSE "FAILED", loop.good)

Fails == Returns("FAILED", {})

(* For the analysis any object is a result, and a limit is a failure.      *)
AnalysisResult == Returns("SUCCEEDED", {}) \/ Fails
AnalysisLimit == Fails

(* The provider's answer proposes no call: the end of the work.            *)
FinalAnswer ==
  /\ at = "loop" /\ loop.steps < MaxSteps
  /\ \/ IsResearch /\ Finalize
     \/ ~IsResearch /\ AnalysisResult
  /\ UNCHANGED <<store, cancelling, world, faults, crashes>>

StepLimit ==
  /\ at = "loop" /\ loop.steps = MaxSteps
  /\ IF IsResearch THEN Finalize ELSE AnalysisLimit
  /\ UNCHANGED <<store, cancelling, world, faults, crashes>>

(* There is one more proposal, of this answer or of the next one.          *)
Proposes == at = "loop" /\ (loop.open \/ loop.steps < MaxSteps)

(* The local state when a proposal has been counted.                       *)
Count(l) ==
  \/ loop.open /\ l = [loop EXCEPT !.calls = @ + 1]
  \/ loop.steps < MaxSteps /\ l = [loop EXCEPT !.steps = @ + 1, !.calls = @ + 1, !.open = TRUE]

Counted == {[loop EXCEPT !.steps = s, !.calls = c, !.open = TRUE] :
              s \in loop.steps..MaxSteps, c \in 1..MaxToolCalls}

CallLimit ==
  /\ Proposes /\ loop.calls >= MaxToolCalls
  /\ IF IsResearch THEN Finalize ELSE AnalysisLimit
  /\ UNCHANGED <<store, cancelling, world, faults, crashes>>

(* A malformed proposal, or a Tool outside the subset of the run.          *)
RefusedProposal ==
  /\ Proposes /\ loop.calls < MaxToolCalls
  /\ Fails
  /\ UNCHANGED <<store, cancelling, world, faults, crashes>>

AtSourceBound(u) ==
  IsResearch /\ Cardinality(loop.good) >= MaxSources /\ u \notin loop.good

(* A proposal inside the subset is refused at the bound of sources, ...    *)
RefuseSource(u) ==
  /\ Proposes /\ loop.calls < MaxToolCalls /\ AtSourceBound(u)
  /\ \E l \in Counted : Count(l) /\ loop' = l
  /\ UNCHANGED <<store, at, outcome, cancelling, world, faults, crashes>>

(* ... is a call that takes effect, ...                                    *)
CallTool(u) ==
  /\ Proposes /\ loop.calls < MaxToolCalls /\ ~AtSourceBound(u)
  /\ \E l \in Counted : Count(l) /\ loop' = [l EXCEPT !.now = u]
  /\ acts' = [acts EXCEPT ![Last] = @ + 1] /\ at' = "tool"
  /\ UNCHANGED <<store, outcome, cancelling, parked, read, faults, crashes>>

(* ... or is parked, which the runner takes for a failure.                 *)
ParkTool(u) ==
  /\ Proposes /\ loop.calls < MaxToolCalls /\ ~AtSourceBound(u)
  /\ \E l \in Counted :
       Count(l) /\ loop' = l /\ parked' = [parked EXCEPT ![Last] = @ + 1]
  /\ UNCHANGED <<store, at, outcome, cancelling, acts, read, faults, crashes>>

ObserveAny(ok) ==                                               (* mutant *)
  loop' = [loop EXCEPT !.now = None, !.good = IF IsResearch THEN @ \cup {loop.now} ELSE @]

(* _observe: only what a Tool returned is a source.                        *)
Observe(ok) ==
  loop' = [loop EXCEPT !.now = None,
             !.good = IF IsResearch /\ ok THEN @ \cup {loop.now} ELSE @]

ToolReturns(ok) ==
  /\ at = "tool"
  /\ Observe(ok) /\ at' = "loop"
  /\ read' = IF ok /\ IsResearch THEN read \cup {loop.now} ELSE read
  /\ UNCHANGED <<store, outcome, cancelling, parked, acts, faults, crashes>>

TimeLimitBetweenCalls ==                                        (* mutant *)
  /\ at = "loop" /\ Fails
  /\ UNCHANGED <<store, cancelling, world, faults, crashes>>

(* wait_for ends the loop wherever it waits, for the provider or a Tool.   *)
TimeLimit ==
  /\ at \in Inside /\ Fails
  /\ UNCHANGED <<store, cancelling, world, faults, crashes>>

(***************************************************************************)
(* Errors, cancellation of the driver, crash and recovery                  *)
(***************************************************************************)
(* The provider, or a write of the loop, raises: the loop fails safely.    *)
LoopRaises ==
  /\ at \in Inside /\ Fails
  /\ UNCHANGED <<store, cancelling, world, faults, crashes>>

CancelInside ==
  /\ at \in Inside
  /\ Returns("CANCELLED", {})
  /\ UNCHANGED <<store, cancelling, world, faults, crashes>>

(* A write or its audit raises, or the cancellation comes, outside the     *)
(* try: run raises and leaves the row as it is.                            *)
CommitRaises ==
  /\ at \in Committing /\ faults < MaxFaults
  /\ at' = "idle" /\ outcome' = Nothing /\ faults' = faults + 1
  /\ UNCHANGED <<store, loop, cancelling, world, crashes>>

(* A client approves a call, whether its run goes on or not; or denies it. *)
Decide(r) ==
  /\ Alive /\ parked[r] > 0
  /\ parked' = [parked EXCEPT ![r] = @ - 1]
  /\ \/ acts' = [acts EXCEPT ![r] = @ + 1]
     \/ acts' = acts
  /\ UNCHANGED <<store, driver, cancelling, read, faults, crashes>>

Crash ==
  /\ at # "down" /\ task # "NONE" /\ crashes < MaxCrashes
  /\ at' = "down" /\ loop' = Fresh /\ outcome' = Nothing /\ cancelling' = FALSE
  /\ crashes' = crashes + 1
  /\ UNCHANGED <<store, world, faults>>

StaleIfTaskRuns == task = "RUNNING" /\ Running(Last)             (* mutant *)

(* A durably RUNNING last run of a QUEUED Task: the only stale evidence.   *)
Stale == task = "QUEUED" /\ Running(Last)

(* _reconcile_agent_task, first commit: the run; second: the Task.         *)
InterruptRun ==
  /\ at = "down" /\ Stale
  /\ Stored("INTERRUPTED", {}) /\ at' = "pausing"
  /\ UNCHANGED <<task, loop, outcome, cancelling, world, faults, crashes>>

PauseTask ==
  /\ at = "pausing"
  /\ task' = "PAUSED" /\ at' = "idle"
  /\ UNCHANGED <<runs, loop, outcome, cancelling, world, faults, crashes>>

(* Every other Task: its cancellation is completed, or it is left alone.   *)
ResumeTask ==
  /\ at = "down" /\ ~Stale
  /\ task' = (IF task = "CANCELLING" THEN "CANCELLED" ELSE task) /\ at' = "idle"
  /\ UNCHANGED <<runs, loop, outcome, cancelling, world, faults, crashes>>

Recover == InterruptRun \/ PauseTask \/ ResumeTask
Commit == StartRun \/ EnterRunner \/ SaveOutcome \/ AuditOutcome

Next ==
  \/ CreateTask \/ CompleteTask \/ RequestCancel \/ FinishCancel
  \/ CreateRun \/ RunnerUnavailable \/ Commit
  \/ FinalAnswer \/ StepLimit \/ CallLimit \/ RefusedProposal
  \/ \E u \in Url : RefuseSource(u) \/ CallTool(u) \/ ParkTool(u)
  \/ \E ok \in BOOLEAN : ToolReturns(ok)
  \/ TimeLimit \/ LoopRaises \/ CancelInside \/ CommitRaises
  \/ \E r \in DOMAIN runs : Decide(r)
  \/ Crash \/ Recover

(* The event loop runs what is ready, the timer of wait_for fires, and a   *)
(* Core that went down is started again.  Nothing is asked of the          *)
(* provider, of a Tool or of the client.                                   *)
Spec == Init /\ [][Next]_vars /\ WF_vars(Commit) /\ WF_vars(TimeLimit) /\ WF_vars(Recover)

(***************************************************************************)
(* Properties                                                              *)
(***************************************************************************)
TypeOK ==
  /\ task \in TaskStatus
  /\ runs \in Seq([kind : Kind, status : RunStatus, sources : SUBSET Url])
  /\ at \in {"idle", "down", "pausing", "returned"} \cup Inside \cup Committing
  /\ loop.calls \in 0..MaxToolCalls /\ loop.steps \in 0..MaxSteps
  /\ (at = "tool") = (loop.now \in Url)

(* A research run that succeeded has read enough distinct sources itself,  *)
(* and no more than it may, and no run ever names a source that no Tool    *)
(* has returned to it, whatever the provider proposes and writes, however  *)
(* the loop ends.                                                          *)
AttributedSources ==
  \A r \in DOMAIN runs :
    /\ r = Last => runs[r].sources \subseteq read
    /\ (runs[r].kind = "RESEARCH" /\ runs[r].status = "SUCCEEDED") =>
         Cardinality(runs[r].sources) \in MinSources..MaxSources

(* What a run does, and what can still be done in its name by approving a  *)
(* call it left behind, stays within its budget of Tool calls.             *)
WithinBudget ==
  \A r \in DOMAIN runs : acts[r] + parked[r] <= MaxToolCalls

(* Recovery looks only at the last run of a QUEUED Task: not at those of a *)
(* cancelled one, nor at a new run on a Task the recovery had paused, which *)
(* yet another run may complete since.                                     *)
Overlooked ==
  \/ task \in {"CANCELLING", "CANCELLED"}
  \/ task # "QUEUED" /\ crashes > 1

(* While the Core is up, a run that says RUNNING is being executed, and a  *)
(* Task whose run was interrupted does not look untouched: the user is     *)
(* asked.  But: a failed or cancelled commit, a run that recovery          *)
(* overlooks, a second crash between the two commits of the recovery.      *)
InterruptionIsAsked ==
  Alive => \A r \in DOMAIN runs :
    /\ Running(r) => (r = Last /\ at \in Inside \cup Committing) \/ faults > 0 \/ Overlooked
    /\ runs[r].status = "INTERRUPTED" => task # "QUEUED" \/ crashes > 1

(* A run that entered its runner gets a verdict although the provider      *)
(* never answers or a Tool never returns, and across a crash.              *)
RunEnds ==
  (at \in Inside) ~> (~Running(Last) \/ faults > 0 \/ Overlooked)

(* Runs are in order at every step: within their budget, and attributing    *)
(* what they say to what they read.                                         *)
RunsInOrder == TypeOK /\ AttributedSources /\ WithinBudget
================================================================================
