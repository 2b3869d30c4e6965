# Sofia's assistant in TLA+

A verification project for `sofias_assistant` (Python, asyncio, SQLite, Qt;
`src/core/src/sofias_assistant`). The modules model the parts of the program that
keep state and run concurrently, TLC checks them on small instances, and TLAPS
proves, for every instance, every safety property that TLC checks: of tool
execution, Tasks, scheduled Tasks, Agent runs, the event outbox, conversations,
realtime voice sessions, memory writes, the AI configuration, the lifecycle of the
Core, and the desktop's voice and Conversation page.
Paths below are relative to `src/core/src/sofias_assistant`.

## 1. The system

One process, the *Core*, owns one SQLite database. Everything in it is a
coroutine of one event loop: two steps interleave only at an `await`, a
transaction is atomic (writers use `BEGIN IMMEDIATE` or one conditional
`UPDATE`), and a crash or a cancellation may strike at any `await`. Clients talk
to it over a local HTTP/WebSocket boundary; the desktop application hosts a Core
in a thread of its own, beside the threads of the window and of its worker.

| Component | State it keeps | Operations | Interacts with |
|---|---|---|---|
| Tool execution and authority (`execution/runtime.py`, `policy.py`, `store.py`) | rows of tool calls, grants, confirmations; one lock | `invoke`, `create_grant`, `approve_confirmation`, `deny_confirmation`, `revoke_grant` | called by HTTP handlers, desktop services, Task and Agent runners; calls the dispatcher (tools, subprocesses) and audit |
| Task runtime (`execution/task_runtime.py`) | Task and attempt rows; `_tasks`, `_cancel_events`, one lock | `create_task`, runner `_run`, `cancel_task`, `approve_confirmation`, `retry_task`, `stop`, `recover_stale_work` | Tool execution; scheduler; started and stopped by the Core |
| Scheduler (`proactivity/scheduler.py`, `models.py`) | schedule rows | `create_reminder`, `wait_task`, `tick`, `cancel` | turns due schedules into outbox events; puts Tasks to sleep |
| Event outbox (`proactivity/events.py`) | event rows with owner, lease, attempts, completed handlers | `publish`, `dispatch_pending`, `stop` | handlers: notifications, Task wake-up |
| Notifications (`proactivity/notifications.py`, `client_boundary/proactivity_http.py`) | notification rows; listener queues | `on_event`, `collect_operational_events`, `acknowledge`, `listen`, the client stream | driven by the outbox; streams to clients |
| Agent runs and workflows (`execution/agents.py`, `research.py`, `development_analysis.py`) | run rows, AGENT Tasks | `create_agent_run`, `run`, `call_tool`, the two runners | Tool execution, Task runtime, AI |
| Conversation (`conversation/`) | Turn rows; activity of each Conversation; voice sessions | text requests, streams, history, voice sessions | AI providers, memory, client boundary |
| Memory orchestration (`memory/`) | candidates and operations; a remote memory | remember, supersede, forget, recovery | external service with idempotency keys |
| AI routing and configuration (`ai/`, `ai_config/`) | provider, model, profile, binding rows; the published snapshot | configuration API, `bootstrap`, `resolve` | secrets store, providers |
| Core lifecycle and host (`core/`, `runtime/`, `host/`, `client_attach/`) | instance mutex, session rows, attach record | start, stop, failed start, publish, attach | everything |
| Desktop (`client_app/`, `application/`) | the window, the worker with its queue, the pump of voice events | clicks; calls into the runtime thread | Conversation, voice, Tasks, settings |
| Audit, context, health, capabilities, configuration, persistence, secrets | see `PROJECT.json` | | |

What is hard in this code: duplicated submissions and approvals racing one
another; a chain of commits (grant, confirmation, call, Task, attempt, event)
that a crash, a storage error or a cancellation can break anywhere; whole rows
written back from a copy read before an `await`; leases, retries and timeouts of
the outbox; events of a provider, or of a thread, that come late, after what they
speak of was replaced; bounded queues that block whoever fills them; requests to a
remote service whose answer is lost; and recovery, which must tell from the rows
alone what may be repeated. `PROJECT.json` lists these hazards, line by line, with
the properties that cover them.

What makes each part correct: authority is never exceeded or left behind, and no
effect is repeated (execution); a Task's status tells the truth, ends, and
survives restarts (Task runtime); nobody sleeps without an alarm or acts before
its time (scheduler); every event is handled, an unrepeatable handler once at
most, and a listener misses nothing (outbox, notifications); an Agent keeps its
budget, names only sources it read, and ends (Agents); text and voice exclude each
other and a Turn ends once (conversation); a remote write converges after a crash
(memory); what is configured is in force and what is forbidden is not routed to
(AI); one process uses the store, and its records are true (lifecycle); the page
and the microphone show and hear the one thing in use (desktop).

## 2. Modules

| Module | Models | Checked by |
|---|---|---|
| `AuthorizedExecution` | the promise of the execution layer: asks, live grants, permits, effects | refined by `ToolExecution` |
| `ToolExecution` | `ExecutionRuntime`, step by step | `tool_execution`, proofs |
| `ToolExecutionProofs` | its inductive invariant and theorems; that it implements the promise | TLAPS |
| `TaskLifecycle` | `TaskRuntime`, one direct-tool Task | `task_lifecycle`, proofs |
| `TaskLifecycleProofs` | its inductive invariant and theorems | TLAPS |
| `ScheduledTask` | a Task that waits for its time, with the scheduler | `scheduled_task`, proofs |
| `EventOutbox` | `EventBus`, `NotificationService`, the client stream | `event_outbox`, proofs |
| `ProactivityProofs` | the inductive invariants and theorems of these two | TLAPS |
| `AgentRuns` | `AgentRuntime`, its two runners, AGENT Tasks | `agent_runs`, proofs |
| `AgentRunsProofs` | its inductive invariant and theorems | TLAPS |
| `ConversationTurns` | text requests, the activity coordinator and the voice session of one Conversation | `conversation_turns`, proofs |
| `RealtimeSession` | `RealtimeConversationRuntime` and the WebSocket connections | `realtime_session`, proofs |
| `ConversationProofs` | the inductive invariants and theorems of these two | TLAPS |
| `ConvergingWrites` | the promise of an idempotency key | refined by `MemoryWrites` |
| `MemoryWrites` | `MemoryOrchestrator` against the remote service | `memory_writes`, proofs |
| `MemoryWritesProofs` | its inductive invariant, its theorems and the refinement | TLAPS |
| `AIConfiguration` | `AIConfigurationService`, `RoutingPolicy`, hard eligibility of `CapabilityRouter` | `ai_configuration`, proofs |
| `CoreLifecycle` | Cores and desktops of one data directory | `core_lifecycle`, proofs |
| `CoreProofs` | the inductive invariants and theorems of these two | TLAPS |
| `DesktopVoice` | the voice interactions of the desktop, three threads | `desktop_voice`, proofs |
| `TextStream` | what makes a stream of text whole | used by `DesktopConversation` |
| `DesktopConversation` | the Conversation page, its worker, the pages of the history | `desktop_conversation`, proofs |
| `DesktopProofs` | the inductive invariants and theorems of the two desktop modules | TLAPS |
| `MC...` | the instances for TLC | |

The modules meet at calls. `TaskLifecycle`, `ScheduledTask` and `AgentRuns` see
`invoke` as coarsely as a caller can and `ToolExecution` shows what is inside;
`ScheduledTask` assumes of its event what `EventOutbox` shows of any;
`DesktopVoice` takes a call of the runtime as one step and `RealtimeSession` shows
what is inside; `RealtimeSession` and `ConversationTurns` overlap in the voice
lease, seen from the sessions in the one and from the text requests in the other.

**ToolExecution.** `lock` is `ExecutionRuntime._lock`; `row`, `grant`, `conf` are
the tables; `op[p]` is a coroutine inside one of the methods, with its locals.
One action per stretch of code between two commits, named for what the commit
does: `Enter`, `Evaluate`, `AskConfirmation`, `Park`, `Consume`, `Start`,
`Dispatch`, `Finish` for `invoke` (with `AuditFails`, where SUCCEEDED is stored and
overwritten by FAILED); `IssueGrant`, `Resolve`, `ResolveLost`,
`WithdrawGrant`, `Reload` for `approve_confirmation`. `Abort` (a cancellation or
a failing commit) and `Crash` strike at every step. Subject, session, capability
and resource are one *scope*, as grants are compared on all of them; the
dispatcher either acts once or fails before acting. `effects` is a history of
what was done under which grant. **AuthorizedExecution** is the promise without
rows, locks or requests: a permit ties a call to a live grant of its scope, a
one-shot grant is spent by taking it, a call acts once under its permit. The
refinement mapping at the end of `ToolExecution` reads permits off the callers
that have passed `consume`.

**TaskLifecycle.** One Task, since Tasks share nothing but the lock of
`cancel_task`. Runners and approvers are workers with their snapshot of the Task
row (`snap`), because `update_task` writes the whole row back; `canceller` is
`cancel_task`, `recovery` the commits of `recover_stale_work`, `registered` the
entry of `_tasks`. `Trip` is an exception inside the `try` of `_run`, `Break` one
elsewhere. Assumptions: `retry_task`, which nothing calls, is called when the Task
is quiet; an approver names a confirmation of the Task; `_finish_cancelled` reads
and writes in one step.

**ScheduledTask.** The Task, its call, its schedule and its event, each one row;
`runner`, `canceller` and `registered` as in `TaskLifecycle`; `phase` takes the
two recoveries of a start one after the other. A runner that has put its Task to
sleep has still to report it (`asleep`); an error there (`WaitUnreported`) fails the
Task, which may have been woken by then. Delivery of the event is what `EventOutbox`
leaves of it: perhaps several times, perhaps given up. A stop leaves the same rows as
a crash here.

**EventOutbox.** `rec` are the event rows, `disp` the locals of
`dispatch_pending`, `stream` a client's stream with its queue, `note` the
notification rows, `fact` whether what an event tells of is so: a Task ended or
paused, a confirmation pending. An event of a fact is stored by
`collect_operational_events` after the fact (`Collect`), the others with what they
tell of. Time is two facts of a row, its retry is due and its lease has lapsed,
that may come true at any time, so the 300 s and the back-off are not numbers.
`Save` is conditional on the owner, as the `UPDATE` is. The first read of a stream
(`Sync`) is one page of `SyncLimit` pending notifications, 100 in the code, the oldest
first; `older` is their order. `missed` is history: what was pending then and had no
place on a full page of older ones.

**AgentRuns.** The AGENT Task, the rows of its runs, and the one driver that
creates a run, executes its runner and projects the result; `at` is where the
driver is, `Committing` what is outside the `try` of `run`. The loop of a runner
is `loop`: steps, calls, the sources read. The provider proposes anything, one
call at a time; a Tool acts, fails, or is parked for a confirmation that may be
approved at any later time, also when the run is over. No code under `src/` drives
a run: the driver does what the tests of the project do.

**ConversationTurns.** `pc` is where a request is between its awaits, `turn` the
status of its Turn, `pending`, `voiceActive` and `revision` the coordinator's
fields; `text_active` is `Active # {}`, who holds `text_lock` is who is in
`Inside`. The gate is never contended, as nothing awaits under it, so what is done
under it is one step. `Raise` is an error or a cancellation that leaves the Turn as
it is, `Cancel` one that a stream answers with `Interrupted`, `CancelInCommit` one
that comes after the final commit and before `mark_context_changed`. `session`
walks through `open_session` and `start_interaction`; `known` are the Turns in the
provider's seed. The order of the queue and the content of Turns are left out.

**RealtimeSession.** The sessions of one Conversation (`ses`), the connection that
opened each (`con`), the Turn of every interaction (`voiceTurn`), the entry of
`_conversation_sessions`, the gate that guards it, and the lease (`lease`). What
runs under `voice_transition` is a *program*, the steps its holder has left
(`op.todo`), so that each operation is written once as a list of steps and the
interleaving is that of the steps: announce, create or end a Turn, put an event
into a queue that may be full, close the provider, unlist, undo. A provider's
event is of the interaction in use, of a retired one or of one unknown; a breach
of the protocol, an error of the provider and one of the storage are faults.

**MemoryWrites.** A Job is one intent: remember, supersede or forget. `cand` and
`oper` are its rows, `pc` where its request (or recovery) is, `wire` the requests
on their way, which arrive late or never, `ledger` the keys the service has seen,
`mem` the lifecycle of its memories, `Unfit` the intents whose content it refuses.
`phase` and `todo` are the recovery pass. Its two lists are pages of `ListLimit` open
rows, 200 in the code, the oldest first by the clock read when the intent began
(`older`); `missed` is history, the open rows that a full list of older ones left out.
**ConvergingWrites**: wanted durably, then effected, then confirmed.

**AIConfiguration.** `store` are the rows, `snapshot` the published
`RoutingSnapshot`, and an Edit a request of the API with what it has read (`seen`)
and built (`built`). `Resolve` is `RoutingPolicy.resolve` over one snapshot and
`Registered` what the registry admits; both are pure operators that the properties
quantify over all profiles and requests.

**CoreLifecycle.** Processes (`at`), the mutex (`owner`), who has the store open,
`runtime_sessions` (`rows`), the attach record, and the desktops that read, verify,
delete, launch and poll. A stopping server still takes connections until it sees that
it should exit (`drain`), takes none then (`refuse`), and ends when its responses have
ended. `loose` are the Cores in which something that was not stopped may use the store
as long as the process lives: after a failed start (neither Task nor Agent runtime is
stopped then), after a runtime whose stop raised, after a store whose closing raised.
Such a process does not end with `CloseAndRelease`: it is `leaving`, may open the store
again (`Stray`), and is gone at `Exit`.

**DesktopVoice.** `slot` is the slot of the worker that runs, split at every call
into the runtime's thread; `inbox` its Qt queue of clicks and of the events that
`pump` puts there, each with the connection and the session it is of; `ses` and
`queue` the sessions of the runtime and what they have not delivered. A microphone that
does not start leaves the pump running for a voice that is closed at once.

**DesktopConversation.** `requests` and `told` are the two queues between window and
worker, `job` the request the worker is serving, `current` the Conversation the
window names and `service` the one the worker sends to. `shown` is the list on the
page. `Page` is `list_turns`. Two variables are history: `showing` counts the
openings the window has handled, and every request for an older page carries the
count of its time; `crossed` says that such a page was put into the list of a later
opening. `TextStream` holds the flags of
`_stream_text_locked` (`Hear`, `TurnStatus`) and the contract of the whole stream
(`Whole`) that they are to amount to.

## 3. Runs

A property of a run is a conjunction where several statements concern one
question; the parts are definitions of their own, with their own comments.

| Run | Checked properties and their parts |
|---|---|
| `tool_execution` | `EffectMatchesRecord`; `AuthorityInOrder` = `TypeOK`, `LockHeld`, `OneShotSpentOnce`, `NoOrphanAuthority`, `ParkedCallIsConfirmable`; `ApprovalCompletes`; `ImplementsAuthorizedExecution` |
| `task_lifecycle` | `VerdictsAreTrue` = `TypeOK`, `SuccessHasEvidence`; `UncertainNeverRepeated`; `StatusIsKept` = `OnlyErrorsStrand`, `CancelledIsFinal`; `CancelCompletes` |
| `scheduled_task` | `SleepIsSafe` = `ScheduleTypeOK`, `ActsOnce`, `SleeperHasAlarm`; `ActsWhenDue`; `SleeperWakes` |
| `event_outbox` | `DeliveryIsTrue` = `TypeOK`, `DeliveredToAll`; `UnsafeHandlerAtMostOnce`; `StreamCannotLose`; `EventsSettleOnce` = `SettledForGood`, `EveryEventSettles` |
| `agent_runs` | `RunsInOrder` = `TypeOK`, `AttributedSources`, `WithinBudget`; `InterruptionIsAsked`; `RunEnds` |
| `conversation_turns` | `TextAndVoiceApart` = `TypeOK`, `VoiceExcludesText`; `OrderIsKept` = `OnlyARaiseLosesCount`, `ContextStaysPut`, `TurnIsFinal`, `VoiceLagsOnlyInOverlap`; `AcceptedTextEnds` |
| `realtime_session` | `SessionsInOrder` = `RealtimeTypeOK`, `TurnAttended`, `ClosedIsOver`; `TransitionMoves`; `LeaseLostOnlyInUndo`; `SessionsKeepApart` = `TurnEndsOnce`, `EntryForgotten` |
| `memory_writes` | `IntentsInOrder` = `TypeOK`, `ScrubbedIsStored`, `RefusedHasNoEffect`; `RecoveryConverges` = `RecoverySettles`, `SupersedeRememberedOnlyInRecovery`; `ImplementsConvergingWrites` |
| `ai_configuration` | `SettingsInOrder` = `TypeOK`, `SnapshotIsCurrent`, `DisabledIsUnused`, `CanonicalRoutable`; `RoutesAreEligible`; `EditsAreKept` = `PatchKeepsTheRest`, `EditEnds` |
| `core_lifecycle` | `StoreHasOneUser`; `RecordsAreTrue` = `CoreTypeOK`, `RowsTellWhoRuns`, `ListedWhileWell`; `NobodyWaitsForEver` = `StopEndsWithoutStreams`, `AttachEnds` |
| `desktop_voice` | `VoiceInOrder` = `TypeOK`, `MicrophoneHasInput`, `SessionsAreOwned`; `LateEventsEndNothing`; `UserIsAnswered` = `ResultIsShown`, `QuitCompletes` |
| `desktop_conversation` | `PageIsTrue` = `TranscriptIsOfOneConversation` (with `PageTypeOK`), `TextGoesWhereShown`; `AnswerIsWhole`; `SendIsAnswered` |

The question of each run, its bounds, and why they are enough:

- `tool_execution`: can duplicates, approvals, denials, revocations and one fault
  exceed, repeat or strand authority? Two callers (each race of the code is
  between two conditional updates, or a lock and one outsider); a direct call and
  a Task's call of one scope, one one-shot and one reusable, so that each may try
  the other's grant; one grant, two confirmations, one fault, which reaches every
  half-done chain of commits. The proofs lift all these bounds.
- `task_lifecycle`: does the Task's row tell the truth through cancellation,
  approval, retry, errors, stop, crash and recovery? Two runners, one approver, a
  mutating, a read-only and an idempotent call, two attempts, one fault.
- `scheduled_task`: the whole Task, four faults, so that a recovery can itself be
  interrupted, twice.
- `event_outbox`: two events, one published and one collected; the notifier behind
  a handler that is not safe to repeat; one stream whose queue of one overflows
  with the second notification and whose first read has room for one; one fault.
- `agent_runs`: two runs of either kind of Agent, three URLs of which two are to be
  read, two steps, three calls, one failing commit, two crashes, so that recovery
  can be interrupted between its commits. A third run can complete a Task of which
  recovery has overlooked the second: that case is the proof's, which knows no bound.
- `conversation_turns`: three requests, one streamed (one inside, one waiting,
  one that raises), two voice interactions, two faults.
- `realtime_session`: two sessions, two interactions over them (a barge-in, or one
  of each session), a queue of one event, one retired interaction, one fault, of
  the provider or the storage; a provider that has failed may fail when it is
  closed too. Symmetry of the sessions.
- `memory_writes`: two intents (one may be about the memory of the other), of which
  the service refuses the content of one; lists of one row, so that an older row keeps
  the newer off; two crashes and two lost or garbled answers or storage errors. The
  proofs lift these bounds.
- `ai_configuration`: three models of a cloud and a local provider, two profiles,
  two capabilities, two concurrent edits of any kind, a restart that may name
  another canonical model, one fault.
- `core_lifecycle`: two Cores, two desktops that attach twice, one fault: enough for a
  process on its way out with the store open beside the next Core.
- `desktop_voice`: two starts, two other clicks, one fault: a voice that replaces
  its session, and a voice that follows another one. This run takes
  over three minutes on two workers, `core_lifecycle` two, the others less.
- `desktop_conversation`: four Conversations (one of two Turns, the saved one; one of
  one Turn; two to be created), pages of one Turn, one text, three clicks, two stream
  events, one fault. Three clicks are what it takes for a page of older Turns to cross
  the reopening of its own Conversation. The proofs lift these bounds.

Deadlock is checked in `tool_execution`, `event_outbox` and `ai_configuration`; in
the others the system may stop, its bounds being used up.

**Fairness.** The event loop runs every ready coroutine, Qt every queued slot:
weak fairness of each worker's steps. `asyncio.Lock` serves its waiters in order:
strong fairness of taking the lock of `invoke` (the requests for
the lock of the AI configuration are finitely many: weak fairness is enough there).
Dispatch, tools and Agent runs are under timeouts, so they end. `ProactivityRuntime`
ticks every half second as long as it runs, time passes, and the assistant is
started again: weak fairness of dispatch, tick, resume, back-off, lease and
restart. An accepted text request goes on, its provider having a timeout. Nothing
is assumed of clients, approvals, cancellations or who talks. `realtime_session`
and `memory_writes` have no liveness property and state no fairness; that a
transition is never stuck is the invariant `TransitionMoves`.

## 4. What the models show about the code

Where a property carries an exception ("unless ..."), TLC has refuted it
without. These are the behaviours behind the exceptions, and others met
while reading the code for the models.

Tool execution and Tasks
- An approval that fails or is cancelled between its commits leaves an ACTIVE
  grant whose confirmation may then be denied (`NoOrphanAuthority` holds without
  faults). A directly submitted call can be approved before its row says that it
  waits, and then waits for good (`ApprovalCompletes` is about Tasks).
- `cancel_task` cuts its runner inside `invoke` and settles the Task but not the
  call: a read-only call stays RUNNING for good (`task_runtime.py:287`), which the
  comment at `:897` rules out.
- What a scheduled Task is to wait for is stored only when its runner has put it to
  sleep (`:949`): after a crash in between, recovery runs it at once, although the
  comment on `create_task` (`:132`) calls the whole intent reconstructible.
- A retry of an interrupted call meets its ONE_SHOT grant consumed and is always
  denied. `approve_confirmation` of a Task takes any confirmation id. A scheduled
  Task that was CANCELLING at a crash is skipped by both recoveries.

Events
- A FAILED Task that is retried before the next collection pass is never announced.
- The comment on the stream (`client_boundary/proactivity_http.py:138`) says that the
  race of connecting "can replay IDs but cannot lose them". That is so of the race.
  But the first read is one page of 100, the oldest first
  (`proactivity/notifications.py:131`), and there is no second one: with more than 100
  pending, the newer are neither sent nor is the client told to start over. `missed`
  is this exception in `StreamCannotLose`.

Agents
- `complete_agent_task` asks neither Task nor run for its status: a cancelled Task
  can become SUCCEEDED, and a cancellation can overwrite SUCCEEDED. `cancel_task` on
  an AGENT Task stops neither its run nor its tools. A failing commit outside the
  `try` of `run` leaves the run RUNNING. Recovery looks only at the last run of a
  QUEUED Task, and a second crash between its two commits hides the interruption
  (the exceptions of `InterruptionIsAsked`): a run on a Task that recovery paused, cut
  by another crash, stays RUNNING even when a later run completes the Task. A parked
  call may be approved after its run ended: `WithinBudget` counts it.

Conversations and voice
- The `except` clause of `text_activity` (`coordination.py:72`) takes one off
  `pending_text` although the request that raises was taken off when it got the
  lock. If another waits, it is the other's share that goes: voice finds nobody
  waiting and starts, the other enters beside it and leaves the count at -1, which
  refuses voice until the next restart. `OnlyARaiseLosesCount` says that this is the
  only way, `VoiceExcludesText` that the exclusion holds otherwise.
- A start that fails, and whose provider cannot be closed either, never gives back
  the lease (`LeaseLostOnlyInUndo` names this as the only loss). A session whose
  closing raises stays live while its entry is gone (`EntryForgotten`); `close_all`
  stops at the first that does. An `open_session` that fails in its audit leaves an
  IDLE session. An interaction that completed or failed is not retired: a late
  event of it is unknown and fails the session. PROCESSING Turns are not recovered
  at startup.

Memory
- Recovery remembers the replacement of an unfinished Supersede as a memory of its
  own (`orchestrator.py:780`, key at `:772`), beside the one the Supersede makes.
- Recovery looks at 200 candidates and 200 operations, the oldest first
  (`memory/store.py:77`, `:104`; called without a limit at `orchestrator.py:780` and
  `:808`). FAILED rows that it only keeps as evidence stay on those lists for good, so
  that 200 of them hide whatever is newer: it stays PENDING and is never asked for.
  `missed` is this exception in `RecoverySettles`.
- Superseding a forgotten memory raises `ValueError` instead of being rejected; a
  candidate whose audit fails while it is undecided keeps its content.

AI configuration
- Discovery without a credential is a 500, not a 422. A model that a refresh listed
  before it was configured stays disabled for good, and nothing in the API enables a
  model (`CanonicalRoutable`). A rebuild that fails leaves the old snapshot in force
  after the change is stored (`missed`).

Lifecycle
- A stopping Core waits for its notification streams, and these for the end of their
  sessions, which comes after (`StopEndsWithoutStreams`). A desktop that waits too
  long for an answer deletes the record of a Core that is well (`ListedWhileWell`).
- `stop` and the failed start pass over a `resources.close()` that raises and release
  the ownership all the same (`core/core.py:373`, `:407`); the failed start stops
  neither Task nor Agent runtime (`:392`), so that runners which recovery has put back
  to work go on with a disposed engine, which connects anew. Until such a process has
  ended, the next Core may share the store with it: the exception of `StoreHasOneUser`.

Desktop
- A voice bound while the pump of another session lives is deaf to its own events
  (`qt_app.py:400`). The late failure of a session that was replaced closes the voice
  that replaced it (against the comment at `:387`). A late "interrupted" shows READY
  while the microphone runs.
- Text typed while another Conversation is being opened, or after that failed, is
  sent to that one (`TextGoesWhereShown`). A page of older Turns is dropped when it is
  of another Conversation (`_on_older_turns_ready`, `qt_app.py:2071`), but not when its
  own was opened again in the meantime: it is put before the new list, which may hold
  those Turns already, and `_oldest_loaded_sequence` (`:2128`) becomes its first Turn
  whatever the list begins with. The next pages are asked from there: Turns may be
  shown twice, or out of order. `crossed` excuses this in
  `TranscriptIsOfOneConversation`; the exception was found by the proof, since it
  takes more clicks than TLC was first given. Recovery of a text that
  was never stored shows the answer to the Turn before (`qt_app.py:240`, `:2154`).

## 5. Proofs

All theorems hold for every value of the constants that satisfies the modules'
own assumptions (well-typed constants, `None` no id); nothing else is assumed.

**`ToolExecutionProofs`**: `TypeCorrectness`, `MutualExclusion` (`LockHeld`),
`EffectsMatchRecords`, `OneShotGrantsSpentOnce`, `AuthorityIsAccountedFor`
(`NoOrphanAuthority`), `ParkedCallsConfirmable` and `AuthorityStaysInOrder`, their
conjunction. None of these is inductive. `IInv` adds what a caller knows by where
it is: `LocalsOK` (its locals are ids of stored rows and agree with them), `RowsOK`
(rows refer to stored rows), `ProgressOK` (the call it is about to act on has no
effect yet and its row says so), `ScopeOK` and `SpentOK` (its grant is of the
call's scope; a one-shot grant it has consumed stands behind no effect yet), and
`UnissuedUnused`. At-most-once is `LockHeld` with `ProgressOK`: only the caller
inside `invoke` moves a row to RUNNING, and it entered when the row was not
answered; approvals, denials and revocations do not touch rows. One-shot grants are
safe because `Consume` is a conditional update: whoever gets past it leaves the
grant CONSUMED, so no second caller can be at `start` or `dispatch` with it.
`StepPreservesIInv` has one step per action and, under it, one per conjunct the
action can disturb.

The same module proves `RuntimeKeepsPromise`, that `Spec` implements
`AuthorizedExecution`. Every step is an `Ask`, `Issue`, `Withdraw`, `Permit`, `Act`,
`Lose` or a stutter. `LockHeld` gives that there is one permit at most
(`OnePermit`); `NamedRows`, that grants once stored keep the call they were issued
for, so that `asked`, `issued` and `live` move only where the promise says
(`AuthorityFrame`, `PermitsFrame`); `ProgressOK` and `ScopeOK` are the guards of
`Permit`.

**`TaskLifecycleProofs`**, for any workers, calls, attempts, crashes and errors:
`TaskInvariance`, `VerdictsStayTrue` (`VerdictsAreTrue`), `NeverRepeated`
(`UncertainNeverRepeated`) and `StatusStaysKept` (`StatusIsKept`), all its safety.
None of them is inductive, since a worker writes the Task's row back from a copy that
others may have overtaken; `IInv` says what each worker knows by where it is.
`RunnersFit`: a runner works on the latest attempt, and is the one in `_tasks` unless
it is yet to be spawned. `StatusesFit`: what the status tells of the runner and the
canceller; the runner of a CANCELLED Task has not claimed it, and one that a
cancellation has cut off finds the Task no longer QUEUED or RUNNING. `ApproversFit`:
the call an approver acts for was asked about, and waits no longer once the approval
is stored. `CallsFit`: a call about to act is RUNNING and, if unsafe, has done nothing
yet. `Alone`: one runner, and one worker inside a call. `RowsOK`: which rows go
together, and that an unsafe call that has not been started has done nothing.
`AttemptsOK`: nothing came of a Task before its first attempt began. `CancelOK` and
`RecoveryOK`: what the later commits of `cancel_task` and of recovery find when the
earlier ones have been made, such as that what recovery is about to requeue is safe
to repeat. At most once is then `Alone` with `CallsFit`: the commit before the effect
moves the call to RUNNING, and only recovery moves one back.

**`AgentRunsProofs`**, for any sources, limits and number of runs, faults and crashes:
`AgentInvariance`, `RunsStayInOrder` (`RunsInOrder`) and `InterruptionStaysAsked`
(`InterruptionIsAsked`), all its safety. The loop counts every call before it is made
and nothing else makes one in the name of the run, so what a run has done and left to
be approved is within what its loop counted (`CountOK`), and a decision only moves one
from the second to the first. The sources of the loop are read, finite and within the
bound, and a Tool is called for a new one only below it (`LoopOK`, `OutcomeOK`).
`RunningOK` extends `InterruptionIsAsked` to a Core that is down: a row that says
RUNNING is being executed, or is one that recovery will find, or was left in one of
the ways the property names. To prove it took a correction of the property: it held of
two runs, and with three TLC shows the run that recovery overlooked under a Task
completed since.

**`ConversationProofs`**. Of `ConversationTurns`, for every finite set of requests:
`TurnsTyped`, `VoiceExcluded`, `CountLost`, `ContextStays`, `FinalTurnStays`, `VoiceLags`, and the
two checked conjunctions `TextAndVoiceStayApart` and `OrderStays`: all its safety.
Voice is admitted at a count of zero with nobody inside, and while it holds the
lease nobody new is counted; a request that gets in beside it therefore drives the
count below zero, which no queue has (`CountSpent`). With `OneInside` and
`NewHasNoTurn` the Turn of a request is written by that request alone and no other
works meanwhile; with `SyncedInPast` a completed Turn moves the revision away from
the one any session knows.

Of `RealtimeSession`, for any sessions, interactions and errors, and queues and
memories of any length: `RealtimeInvariance`, `SessionsAreInOrder` (`SessionsInOrder`),
`SessionsStayApart` (`SessionsKeepApart`) and `LeaseIsLostOnlyInUndo`
(`LeaseLostOnlyInUndo`). The invariant is about the program of the transition that
runs, whose length is not bounded by any one operation, since ending a Turn is a part
of several: `Rank` orders the kinds of steps, a program is sorted by it (`OpOK`), and
that is why a step that is due later has not been overtaken by one that it relies on.
`ProgramOK` says which steps come with which and who runs them; `TurnDue`, `StartDue`
and `EndDue` what the steps that are due may rely on in their session: a Turn that is
to be completed is PROCESSING and was answered, a start finds no interaction left or
one that it retires first, a session that is to be dropped from the entry has failed.
`SessionsOK` ties a session to its connection and its interaction, `FreshOK` says that
interactions to come have no Turn. `LeaseOK` is that at most one session *holds* the
lease (it is being opened, it has an interaction, or its start has yet to be announced
or undone) and that the lease is then taken; that, conversely, a taken lease has a
holder is kept by every step but `undo` (`LeaseKept`), and it is what the program of a
start that failed does when closing the provider raises that loses it. Each step of a
program is proved once for all the programs it occurs in (`Rest of a sorted program`
lemmas), each action that begins one by the program it begins.

**`MemoryWritesProofs`**: `WritesInvariance`, `IntentsStayInOrder`,
`RecoveryAlwaysConverges` and `WritesConverge` (the refinement of
`ConvergingWrites`): all that its run checks, for any set of intents and any number
of crashes and faults. `IInv` is `TypeOK` with `StageOK` (what an intent's rows are
by where its request is), `RowOK` (which rows go together), `RequestOK` (a request
under way is wanted and open), `AnswerOK` (an `ok` is an answer of a service that
has the key, a refusal one of a service that will never take it), `WireOK` (what is
on the wire is wanted, and once refused is refused for good), `ListOK` (recovery works
alone through its list), `FewOK` (what is open is finite), `ListedOK` (what is PENDING is
on the list, has been asked for, or was missed, and missed is only what a full list left
out) and `ScrubbedIsStored`. The central fact is that an answer is read only from the
request its row wanted, so whatever is confirmed has been effected, and that the
lifecycle of a memory moves one way, so that a refused request stays refused when
a late copy arrives.

**`ProactivityProofs`**. Of `ScheduledTask`, for any number of faults: `ScheduleInvariance`,
`SleepStaysSafe` (`SleepIsSafe`) and `ActsNeverEarly` (`ActsWhenDue`). A Task has one
runner at a time (`RunnerOK`): the one that is to put it to sleep, whose call is
QUEUED and who has no schedule yet and then only has to report it, or the one that acts,
for which the schedule is absent or COMPLETED. A schedule becomes COMPLETED only when due and together with
its event (`AlarmOK`), so whoever sleeps has one or the other and whoever acts after
sleeping is not early. A call that acts is RUNNING and has had no effect (`CallOK`);
no later runner repeats it, as `invoke` answers a call that is not QUEUED. A
cancellation request stands, and a CANCELLED Task has no runner that could still act
(`TaskOK`, `CancelOK`).

Of `EventOutbox`, for any events, handlers, streams and queue size:
`OutboxInvariance`, `UnsafeHandlersRunOnce`, `DeliveryStaysTrue`,
`StreamsLoseNothing` and `SettledStays`. A row that has an owner is DISPATCHING
(`LeaseOK`), and the dispatcher owns the row it works on (`DispOK`), so that its
writes take effect and those after it has let go do not: what is settled stays so.
Whatever has begun and must not be repeated is marked as begun or completed, also
after a crash (`BegunOK`). A pass that has not failed has completed the handlers
behind it (`PassOK`), and the notifier is completed only after its notification is
stored (`NotedOK`). A stream has been told of what the notifier is through with *or
is about to be marked through with* (`Told`): without that last part the invariant
is not inductive; and a stream nobody pushes to any more holds the order to start
over (`StreamOK`). What its first page had no place for it is never told: `missed`
grows by nothing else, and only when the page was full of older notifications.

**`CoreProofs`**. Of `CoreLifecycle`, for any Cores and desktops: `LifecycleInvariance`,
`StoreKeepsOneUser` (`StoreHasOneUser`) and `RecordsStayTrue` (`RecordsAreTrue`).
Where a Core is says whether it has the mutex (`OwnerOK`) and a RUNNING row, of which
there is one (`RowOK`). Whoever has the store open is where it has the mutex, or is
`leaving` with something loose (`StoreOK`): `CloseAndRelease` gives up both in one step,
and only where that step failed, or something was loose before it, are they apart. As long as nothing failed, the
attach record names the Core that answers under it, and a desktop that found a Core
gone found one that never answers again, so it deletes no other's record
(`RecordOK`).

Of `AIConfiguration`, for any providers, models, profiles, routes and edits:
`ConfigurationInvariance`, `SettingsStayInOrder` (`SettingsInOrder`),
`RoutesStayEligible` (`RoutesAreEligible`) and `PatchesKeepTheRest`
(`PatchKeepsTheRest`): all its safety. The lock of the service has one holder (`LockOK`),
so what an edit has read is still what is stored when it writes (`AskOK`), and the
snapshot it has built is the one of the rows when it publishes it (`BuiltOK`). Hence
`CurrentOK`: with no rebuild missed and no edit between its commit and its publication,
the snapshot in force is the one that the rows give, on which `SettingsInOrder` and
`RoutesAreEligible` are facts about the pure operators `Build`, `Needs` and `Resolve`.
A route is the least usable position of the candidates: that there is a least is
well-foundedness of the natural numbers. `CanonicalOK` is that the model named at the
start has its row, which is all that `bootstrap` promises of it.

**`DesktopProofs`**. Of `DesktopVoice`, for any number of clicks and faults:
`VoiceInvariance`, `VoiceStaysInOrder` (`VoiceInOrder`) and `LateEventsStayHarmless`
(`LateEventsEndNothing`). Each slot of the worker either has a voice or closes one
(`SlotOK`), and by its place in the sequence of slots its connection has a session, an
interaction, or has discarded one (`ConnOK`). The events in the inbox are of
connections that exist, and the pump reads iff it has a session (`PumpOK`). What a
session has not delivered agrees with its state (`RuntimeOK`), so the voice in use is
told of no session closed by the worker (`ClosedOK`), and, unless it has replaced its
session, of that one only (`LateOK`): that is `LateEventsEndNothing`. Without faults a
live session is the one in use or the one that is being closed (`OwnedOK`), and
between two slots there is none of the second kind. That the ids never run out
(`CountOK`) is what lets a click on start make its connection.

Of `DesktopConversation`, for any Conversations, pages, texts, clicks, events and
faults: `PageInvariance`, `PageStaysTrue` (`PageIsTrue`) and `AnswersAreWhole`
(`AnswerIsWhole`). `QueuesOK` is what every request, job and signal still fits when its
turn comes, which is kept because Turns and Conversations only grow and because a page
of this showing is of the Conversation on the page. `WindowOK` is the list on the page.
It needs `OrderOK`: the older pages asked for in one showing arrive in the order asked,
and each starts at or before the oldest Turn shown by then and no earlier than the page
before it would start, however often the button was pressed before the first came.
`ServiceOK` relates the two current Conversations: the worker's is that of the last
opening that it has told and the window has not handled, else the window's. With
`TextOK` (nothing that opens a Conversation waits before a text sent by a settled
window) a text goes where it was seen to go. `StreamOK` says what the three flags of
`_stream_text_locked` tell of all that was heard; `HearFits` is its step and `EndFits`
its end, where the flags decide exactly `Whole`.

Only model-checked: all liveness, as the prover treats neither fairness nor `ENABLED`
(of which `TransitionMoves` speaks). These are `ApprovalCompletes`, `CancelCompletes`,
`SleeperWakes`, `EveryEventSettles`, `RunEnds`, `AcceptedTextEnds`, `TransitionMoves`,
`EditEnds`, `StopEndsWithoutStreams`, `AttachEnds`, `ResultIsShown`, `QuitCompletes` and
`SendIsAnswered`. No module has RECURSIVE operators.

## 6. Plan

Modelled so far: every component that keeps state and has races of its own; proved,
all the safety of each model. Models to come:
reminders with their recurrence over a small calendar; WORKFLOW rows.

## 7. Not modelled

- Audit journal, context builder, health, capabilities (tools), configuration: pure
  functions, append-only rows or I/O; a failing audit is a fault of the step that
  calls it.
- Recurrence and time zones of reminders (`proactivity/models.py`): a calculation
  over the calendar of the standard library.
- HTTP schemas and routes that only validate and call; vendor adapters beyond the
  events they deliver; secret stores; migrations and record mapping; Qt widgets and
  the pages of Tasks, memory and settings: parsing, wiring and presentation without
  a protocol of their own.
