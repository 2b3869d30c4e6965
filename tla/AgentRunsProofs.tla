---------------------------- MODULE AgentRunsProofs ----------------------------
(***************************************************************************)
(* Runs attribute what they say and keep their budget, and an interrupted  *)
(* run is put before the user, for any sources, limits, and number of      *)
(* runs, faults and crashes.                                               *)
(***************************************************************************)
EXTENDS AgentRuns, FiniteSetTheorems, TLAPS

Row == [kind : Kind, status : RunStatus, sources : SUBSET Url]
Verdict == {"SUCCEEDED", "FAILED", "CANCELLED"}
LoopState ==
  [steps : Nat, calls : Nat, open : BOOLEAN, now : Url \cup {None}, good : SUBSET Url]

(* What TypeOK leaves open.                                                *)
Typed ==
  /\ runs \in Seq(Row) /\ Last <= MaxRuns
  /\ loop \in LoopState
  /\ outcome \in [status : Verdict, sources : SUBSET Url]
  /\ cancelling \in BOOLEAN
  /\ parked \in [1..MaxRuns -> Nat] /\ acts \in [1..MaxRuns -> Nat]
  /\ read \in SUBSET Url
  /\ faults \in Nat /\ crashes \in Nat

(* Where a run is being driven, the last row is its own, and the Task is   *)
(* one that was QUEUED or PAUSED when the run was created.                 *)
Driven == Inside \cup Committing \cup {"returned"}

DriverOK ==
  /\ at \in Driven \cup {"pausing"} =>
       Last > 0 /\ task \in {"QUEUED", "PAUSED", "CANCELLING", "CANCELLED"}
  /\ task = "NONE" => runs = << >> /\ at = "idle"
  /\ at = "created" => runs[Last].status = "QUEUED"
  /\ at \in {"audit", "returned"} => runs[Last].status \in Verdict
  /\ at = "returned" => outcome.status \in {"SUCCEEDED", "FAILED"}
  /\ at = "pausing" => task = "QUEUED" /\ runs[Last].status = "INTERRUPTED"
  /\ ~Alive => crashes > 0 /\ ~cancelling
  /\ cancelling => task \notin {"NONE", "QUEUED", "PAUSED"}
  /\ task = "PAUSED" => crashes > 0

(* Only the loop counts: what a run has called, parked calls included, its *)
(* loop has counted, and a run yet to be created has called nothing.       *)
CountOK ==
  /\ at \notin Inside => loop = Fresh
  /\ at \in Inside \cup {"created", "starting"} => acts[Last] + parked[Last] <= loop.calls
  /\ \A r \in 1..MaxRuns : r > Last => acts[r] = 0 /\ parked[r] = 0

(* The sources of the loop were read and are no more than it may read, and *)
(* a Tool reads one more only below the bound.                             *)
LoopOK ==
  /\ loop.good \subseteq read /\ IsFiniteSet(loop.good)
  /\ Cardinality(loop.good) <= MaxSources
  /\ at = "tool" => ~AtSourceBound(loop.now)

(* What is about to be stored may be stored.                               *)
OutcomeOK ==
  at = "saving" =>
    /\ outcome.sources \subseteq read
    /\ IsResearch /\ outcome.status = "SUCCEEDED" =>
         Cardinality(outcome.sources) \in MinSources..MaxSources

(* A RUNNING row is being executed, or will be found stale, or was left    *)
(* behind in one of the ways InterruptionIsAsked names.                    *)
RunningOK ==
  \A r \in DOMAIN runs :
    /\ Running(r) =>
         \/ faults > 0
         \/ task # "QUEUED" /\ crashes > 1
         \/ /\ r = Last
            /\ \/ at \in Inside \cup {"starting", "saving"}
               \/ at = "down" /\ task = "QUEUED"
               \/ task \in {"CANCELLING", "CANCELLED"}
    /\ runs[r].status = "INTERRUPTED" => task # "QUEUED" \/ crashes > 1 \/ at = "pausing"

IInv ==
  /\ TypeOK /\ Typed /\ DriverOK /\ CountOK /\ LoopOK /\ OutcomeOK /\ RunningOK
  /\ AttributedSources /\ WithinBudget

------------------------------------------------------------------------------
(* What the operators of the model do.                                     *)

LEMMA FreshEmpty == Fresh.good = {} /\ Fresh.now = None /\ Fresh.calls = 0
BY DEF Fresh

(* Storing the last row touches nothing else.                              *)
LEMMA RowsStored ==
  ASSUME IInv, Last > 0, NEW st \in RunStatus, NEW so \in SUBSET Url, Stored(st, so)
  PROVE  /\ runs' \in Seq(Row) /\ Last' = Last /\ DOMAIN runs' = DOMAIN runs
         /\ \A r \in DOMAIN runs : runs'[r].kind = runs[r].kind
         /\ \A r \in DOMAIN runs : r # Last => runs'[r] = runs[r]
         /\ runs'[Last].status = st /\ runs'[Last].sources = so
         /\ IsResearch' = IsResearch
<1>1. runs \in Seq(Row) /\ Last \in DOMAIN runs /\ runs[Last] \in Row
  BY DEF IInv, Typed, Last
<1>2. [runs[Last] EXCEPT !.status = st, !.sources = so] \in Row
  BY <1>1 DEF Row
<1>3. runs' = [runs EXCEPT ![Last] = [runs[Last] EXCEPT !.status = st, !.sources = so]]
  BY <1>1 DEF Stored, Row
<1>4. runs' \in Seq(Row) /\ Last' = Last /\ DOMAIN runs' = DOMAIN runs
  BY <1>1, <1>2, <1>3 DEF Last
<1>5. /\ \A r \in DOMAIN runs : r # Last => runs'[r] = runs[r]
      /\ runs'[Last] = [runs[Last] EXCEPT !.status = st, !.sources = so]
  BY <1>1, <1>3 DEF Last
<1>6. /\ runs'[Last].status = st /\ runs'[Last].sources = so
      /\ runs'[Last].kind = runs[Last].kind
  BY <1>1, <1>5 DEF Row
<1> QED
  BY <1>4, <1>5, <1>6 DEF IsResearch

(* The part of the invariant that tells of the rows holds after a store    *)
(* that names no more sources than it may and leaves no RUNNING row.       *)
LEMMA StoredKept ==
  ASSUME IInv, Last > 0, NEW st \in RunStatus, NEW so \in SUBSET Url, Stored(st, so),
         so \subseteq read, UNCHANGED <<task, world, faults, crashes>>,
         IsResearch /\ st = "SUCCEEDED" => Cardinality(so) \in MinSources..MaxSources,
         st = "INTERRUPTED" => at' = "pausing",
         st = "RUNNING" => at' = "starting",
         at # "pausing"
  PROVE  AttributedSources' /\ RunningOK' /\ WithinBudget'
<1>1. /\ runs' \in Seq(Row) /\ Last' = Last /\ DOMAIN runs' = DOMAIN runs
      /\ \A r \in DOMAIN runs : runs'[r].kind = runs[r].kind
      /\ \A r \in DOMAIN runs : r # Last => runs'[r] = runs[r]
      /\ runs'[Last].status = st /\ runs'[Last].sources = so
  BY RowsStored
<1>2. Last \in DOMAIN runs /\ AttributedSources /\ RunningOK /\ WithinBudget
  BY DEF IInv, Typed, Last
<1>3. AttributedSources'
  BY <1>1, <1>2 DEF AttributedSources, IsResearch, world
<1>4. RunningOK'
  <2> SUFFICES ASSUME NEW r \in DOMAIN runs'
               PROVE  /\ Running(r)' =>
                         \/ faults' > 0
                         \/ task' # "QUEUED" /\ crashes' > 1
                         \/ /\ r = Last'
                            /\ \/ at' \in Inside \cup {"starting", "saving"}
                               \/ at' = "down" /\ task' = "QUEUED"
                               \/ task' \in {"CANCELLING", "CANCELLED"}
                      /\ runs'[r].status = "INTERRUPTED" =>
                           task' # "QUEUED" \/ crashes' > 1 \/ at' = "pausing"
    BY DEF RunningOK
  <2>1. CASE r = Last
    BY <1>1, <2>1 DEF Running
  <2>2. CASE r # Last
    BY <1>1, <1>2, <2>2 DEF RunningOK, Running
  <2> QED
    BY <2>1, <2>2
<1>5. WithinBudget'
  BY <1>1, <1>2 DEF WithinBudget, world
<1> QED
  BY <1>3, <1>4, <1>5

------------------------------------------------------------------------------
(* The driver and the client.                                              *)

LEMMA InitInv == Init => IInv
<1> SUFFICES ASSUME Init PROVE IInv
  OBVIOUS
<1> USE AgentRunsAssumption DEF AgentRunsAssumption
<1>1. runs = << >> /\ Last = 0 /\ DOMAIN runs = {} /\ at = "idle" /\ task = "NONE"
  BY DEF Init, Last
<1>2. TypeOK
  BY <1>1 DEF Init, TypeOK, TaskStatus, Fresh
<1>3. Typed
  <2>1. runs \in Seq(Row) /\ Last <= MaxRuns
    BY <1>1
  <2>2. loop \in LoopState
    BY DEF Init, Fresh, LoopState
  <2>3. outcome \in [status : Verdict, sources : SUBSET Url]
    BY DEF Init, Nothing, Verdict
  <2>4. parked \in [1..MaxRuns -> Nat] /\ acts \in [1..MaxRuns -> Nat]
    BY DEF Init
  <2> QED
    BY <2>1, <2>2, <2>3, <2>4 DEF Init, Typed
<1>4. DriverOK /\ OutcomeOK /\ RunningOK /\ AttributedSources /\ WithinBudget
  BY <1>1 DEF Init, DriverOK, OutcomeOK, RunningOK, AttributedSources, WithinBudget,
              Driven, Inside, Committing, Alive
<1>5. CountOK
  BY <1>1 DEF Init, CountOK, Inside, Fresh
<1>6. LoopOK
  BY <1>1, FS_EmptySet DEF Init, LoopOK, Fresh
<1> QED
  BY <1>2, <1>3, <1>4, <1>5, <1>6 DEF IInv

(* What only changes the Task, the driver and the outcome.                 *)
LEMMA RowsStay ==
  ASSUME IInv, UNCHANGED <<runs, world>>
  PROVE  /\ AttributedSources' /\ WithinBudget' /\ Last' = Last /\ IsResearch' = IsResearch
         /\ \A r : Running(r)' = Running(r)
BY DEF IInv, AttributedSources, WithinBudget, Last, IsResearch, Running, world

LEMMA TaskInv ==
  ASSUME IInv, CreateTask \/ CompleteTask \/ RequestCancel \/ FinishCancel
  PROVE  IInv'
<1>1. /\ UNCHANGED <<runs, loop, world, faults, crashes>>
      /\ task' \in TaskStatus \ {"NONE", "PAUSED"} /\ outcome' \in {outcome, Nothing}
      /\ cancelling' \in BOOLEAN
      /\ at' = at \/ (at = "returned" /\ at' = "idle")
  <2>1. cancelling \in BOOLEAN /\ (at = "returned" => outcome.status \in {"SUCCEEDED", "FAILED"})
    BY DEF IInv, Typed, DriverOK
  <2>2. CASE CompleteTask
    BY <2>1, <2>2 DEF CompleteTask, TaskStatus
  <2>3. CASE CreateTask \/ RequestCancel \/ FinishCancel
    BY <2>1, <2>3 DEF CreateTask, RequestCancel, FinishCancel, driver, TaskStatus
  <2> QED
    BY <2>2, <2>3
<1>2. AttributedSources' /\ WithinBudget' /\ Last' = Last /\ IsResearch' = IsResearch
  BY <1>1, RowsStay
<1>3. TypeOK' /\ Typed'
  BY <1>1, <1>2 DEF IInv, TypeOK, Typed, world, Nothing, Verdict, Inside
<1>4. DriverOK'
  BY <1>1, <1>2 DEF IInv, Typed, DriverOK, CreateTask, CompleteTask, RequestCancel, FinishCancel,
                    driver, Driven, Inside, Committing, Alive
<1>5. CountOK' /\ LoopOK'
  BY <1>1, <1>2 DEF IInv, CountOK, LoopOK, AtSourceBound, world, Inside
<1>6. OutcomeOK'
  BY <1>1, <1>2 DEF IInv, OutcomeOK, CreateTask, CompleteTask, RequestCancel, FinishCancel,
                    driver, world
<1>7. RunningOK'
  <2>1. CASE CreateTask
    BY <2>1, <1>1 DEF CreateTask, IInv, DriverOK, RunningOK
  <2>2. CASE CompleteTask
    BY <2>2, <1>1, <1>2 DEF CompleteTask, IInv, DriverOK, RunningOK, Running, Verdict
  <2>3. CASE RequestCancel \/ FinishCancel
    BY <2>3, <1>1, <1>2 DEF RequestCancel, FinishCancel, IInv, DriverOK, RunningOK, Running,
                            driver, Alive
  <2> QED
    BY <2>1, <2>2, <2>3
<1> QED
  BY <1>2, <1>3, <1>4, <1>5, <1>6, <1>7 DEF IInv

LEMMA CreateRunInv ==
  ASSUME IInv, CreateRun
  PROVE  IInv'
<1> USE AgentRunsAssumption DEF AgentRunsAssumption
<1>1. PICK k \in Kind : runs' = Append(runs, [kind |-> k, status |-> "QUEUED", sources |-> {}])
  BY DEF CreateRun
<1> DEFINE new == [kind |-> k, status |-> "QUEUED", sources |-> {}]
<1>2. /\ at = "idle" /\ at' = "created" /\ task \in {"QUEUED", "PAUSED"} /\ Last < MaxRuns
      /\ read' = {} /\ loop = Fresh
      /\ UNCHANGED <<task, loop, outcome, cancelling, parked, acts, faults, crashes>>
  BY DEF CreateRun, IInv, CountOK, Inside
<1>3. runs \in Seq(Row) /\ new \in Row
  BY DEF IInv, Typed, Row, RunStatus
<1> HIDE DEF new
<1>4. /\ runs' \in Seq(Row) /\ Last \in Nat /\ Last' = Last + 1
      /\ DOMAIN runs = 1..Last /\ DOMAIN runs' = 1..(Last + 1)
      /\ \A r \in 1..Last : runs'[r] = runs[r]
      /\ runs'[Last + 1] = new
  BY <1>1, <1>3 DEF Last, new
<1>5. new.status = "QUEUED" /\ new.sources = {}
  BY DEF new
<1>6. TypeOK' /\ Typed'
  BY <1>2, <1>4, FreshEmpty DEF IInv, TypeOK, Typed, Inside, Committing, Row
<1>7. DriverOK'
  BY <1>2, <1>4, <1>5 DEF IInv, DriverOK, Driven, Inside, Committing, Alive
<1>8. CountOK'
  <2>1. Last + 1 \in 1..MaxRuns /\ acts[Last + 1] = 0 /\ parked[Last + 1] = 0
    BY <1>2, <1>4 DEF IInv, CountOK
  <2> QED
    BY <2>1, <1>2, <1>4, FreshEmpty DEF IInv, CountOK, Inside
<1>9. LoopOK' /\ OutcomeOK'
  BY <1>2, FreshEmpty, FS_EmptySet DEF LoopOK, OutcomeOK
<1>10. AttributedSources'
  BY <1>2, <1>4, <1>5 DEF IInv, AttributedSources
<1>11. WithinBudget'
  <2>1. Last + 1 \in 1..MaxRuns /\ acts[Last + 1] = 0 /\ parked[Last + 1] = 0
    BY <1>2, <1>4 DEF IInv, CountOK
  <2> QED
    BY <2>1, <1>2, <1>4 DEF IInv, WithinBudget
<1>12. RunningOK'
  <2> SUFFICES ASSUME NEW r \in 1..(Last + 1)
               PROVE  /\ Running(r)' => faults > 0 \/ (task # "QUEUED" /\ crashes > 1)
                      /\ runs'[r].status = "INTERRUPTED" => task # "QUEUED" \/ crashes > 1
    BY <1>2, <1>4 DEF RunningOK
  <2>1. CASE r = Last + 1
    BY <2>1, <1>4, <1>5 DEF Running
  <2>2. CASE r \in 1..Last
    BY <2>2, <1>2, <1>4 DEF IInv, RunningOK, Running, Inside
  <2> QED
    BY <2>1, <2>2, <1>4
<1> QED
  BY <1>6, <1>7, <1>8, <1>9, <1>10, <1>11, <1>12 DEF IInv

LEMMA StoreInv ==
  ASSUME IInv, RunnerUnavailable \/ StartRun \/ SaveOutcome
  PROVE  IInv'
<1>1. /\ at \in {"created", "saving"} /\ at' \in {"starting", "audit"}
      /\ UNCHANGED <<task, loop, cancelling, world, faults, crashes>>
      /\ outcome' \in {outcome, Nothing} /\ loop = Fresh /\ Last > 0
  BY DEF RunnerUnavailable, StartRun, SaveOutcome, IInv, DriverOK, CountOK, Driven, Inside,
         Committing
<1>2. outcome \in [status : Verdict, sources : SUBSET Url] /\ Last \in Nat
  BY DEF IInv, Typed, Last
<1>3. PICK st \in RunStatus, so \in SUBSET Url :
        /\ Stored(st, so) /\ so \subseteq read
        /\ IsResearch /\ st = "SUCCEEDED" => Cardinality(so) \in MinSources..MaxSources
        /\ \/ at' = "starting" /\ at = "created" /\ st = "RUNNING" 
           \/ at' = "audit" /\ st \in Verdict
  <2>1. CASE RunnerUnavailable
    BY <2>1 DEF RunnerUnavailable, RunStatus, Verdict
  <2>2. CASE StartRun
    BY <2>2 DEF StartRun, RunStatus
  <2>3. CASE SaveOutcome
    BY <2>3, <1>2 DEF SaveOutcome, RunStatus, Verdict, IInv, OutcomeOK
  <2> QED
    BY <2>1, <2>2, <2>3
<1>4. /\ runs' \in Seq(Row) /\ Last' = Last /\ DOMAIN runs' = DOMAIN runs
      /\ runs'[Last].status = st /\ IsResearch' = IsResearch
  BY <1>1, <1>3, RowsStored
<1>5. AttributedSources' /\ RunningOK' /\ WithinBudget'
  BY <1>1, <1>3, StoredKept DEF Verdict
<1>6. TypeOK' /\ Typed'
  BY <1>1, <1>2, <1>4 DEF IInv, TypeOK, Typed, Inside, Committing, Row, Nothing, Verdict, world
<1>7. DriverOK'
  BY <1>1, <1>3, <1>4 DEF IInv, DriverOK, Driven, Inside, Committing, Alive
<1>8. CountOK' /\ LoopOK' /\ OutcomeOK'
  BY <1>1, <1>3, <1>4 DEF IInv, CountOK, LoopOK, OutcomeOK, Inside, world
<1> QED
  BY <1>5, <1>6, <1>7, <1>8 DEF IInv

(* The driver goes on, or raises, and leaves the rows.                     *)
LEMMA DriverInv ==
  ASSUME IInv, EnterRunner \/ AuditOutcome \/ CommitRaises
  PROVE  IInv'
<1>1. /\ UNCHANGED <<store, loop, cancelling, world, crashes>>
      /\ at \in Committing /\ at' \in {"loop", "idle", "returned"}
      /\ outcome' \in {outcome, Nothing} /\ faults' \in {faults, faults + 1}
      /\ faults \in Nat /\ outcome \in [status : Verdict, sources : SUBSET Url]
  BY DEF EnterRunner, AuditOutcome, CommitRaises, Committing, store, world, IInv, Typed
<1>2. AttributedSources' /\ WithinBudget' /\ Last' = Last /\ \A r : Running(r)' = Running(r)
  BY <1>1, RowsStay DEF store
<1>3. TypeOK' /\ Typed'
  BY <1>1, <1>2 DEF IInv, TypeOK, Typed, Inside, Committing, Nothing, Verdict, world, store
<1>4. DriverOK'
  BY <1>1, <1>2 DEF IInv, DriverOK, EnterRunner, AuditOutcome, CommitRaises, Driven, Inside,
                    Committing, Alive, store, Verdict
<1>5. CountOK' /\ LoopOK' /\ OutcomeOK'
  BY <1>1, <1>2 DEF IInv, CountOK, LoopOK, OutcomeOK, EnterRunner, AuditOutcome, CommitRaises,
                    Inside, Committing, world
<1>6. RunningOK'
  BY <1>1, <1>2 DEF IInv, RunningOK, DriverOK, EnterRunner, AuditOutcome, CommitRaises, Running,
                    Inside, Committing, Verdict, store
<1> QED
  BY <1>2, <1>3, <1>4, <1>5, <1>6 DEF IInv

------------------------------------------------------------------------------
(* The loop of a runner.                                                   *)

(* A verdict that names no more sources than it may ends the loop well.    *)
LEMMA ReturnsInv ==
  ASSUME IInv, at \in Inside, NEW st \in Verdict, NEW so \in SUBSET Url, Returns(st, so),
         so \subseteq read, UNCHANGED <<store, cancelling, world, faults, crashes>>,
         IsResearch /\ st = "SUCCEEDED" => Cardinality(so) \in MinSources..MaxSources
  PROVE  IInv'
<1> USE AgentRunsAssumption DEF AgentRunsAssumption
<1>1. /\ at' = "saving" /\ loop' = Fresh /\ outcome' = [status |-> st, sources |-> so]
      /\ UNCHANGED <<task, runs>>
  BY DEF Returns, store
<1>2. /\ AttributedSources' /\ WithinBudget' /\ Last' = Last /\ IsResearch' = IsResearch
      /\ \A r : Running(r)' = Running(r)
  BY <1>1, RowsStay
<1>3. TypeOK'
  BY <1>1, <1>2, FreshEmpty DEF IInv, TypeOK, Committing, Fresh
<1>4. Typed'
  BY <1>1, <1>2 DEF IInv, Typed, Fresh, LoopState, world
<1>5. DriverOK'
  BY <1>1, <1>2 DEF IInv, DriverOK, Driven, Inside, Committing, Alive
<1>6. CountOK' /\ LoopOK' /\ OutcomeOK'
  BY <1>1, <1>2, FreshEmpty, FS_EmptySet DEF IInv, CountOK, LoopOK, OutcomeOK, Inside, world
<1>7. RunningOK'
  BY <1>1, <1>2 DEF IInv, RunningOK, Inside
<1> QED
  BY <1>2, <1>3, <1>4, <1>5, <1>6, <1>7 DEF IInv

LEMMA FinalizeInv ==
  ASSUME IInv, at \in Inside, Finalize, UNCHANGED <<store, cancelling, world, faults, crashes>>
  PROVE  IInv'
<1> USE AgentRunsAssumption DEF AgentRunsAssumption
<1> DEFINE st == IF Enough THEN "SUCCEEDED" ELSE "FAILED"
<1>1. loop.good \in SUBSET Url /\ loop.good \subseteq read /\ Cardinality(loop.good) \in 0..MaxSources
  BY FS_CardinalityType DEF IInv, Typed, LoopOK
<1>2. st \in Verdict /\ (st = "SUCCEEDED" => Cardinality(loop.good) \in MinSources..MaxSources)
  BY <1>1 DEF Verdict, Enough
<1>3. Returns(st, loop.good)
  BY DEF Finalize
<1> HIDE DEF st
<1> QED
  BY <1>1, <1>2, <1>3, ReturnsInv

LEMMA FailsInv ==
  ASSUME IInv, at \in Inside, NEW st \in {"FAILED", "CANCELLED"}, Returns(st, {}),
         UNCHANGED <<store, cancelling, world, faults, crashes>>
  PROVE  IInv'
BY ReturnsInv DEF Verdict

LEMMA EndInv ==
  ASSUME IInv,
         \/ FinalAnswer \/ StepLimit \/ CallLimit \/ RefusedProposal
         \/ TimeLimit \/ LoopRaises \/ CancelInside
  PROVE  IInv'
<1>1. at \in Inside /\ UNCHANGED <<store, cancelling, world, faults, crashes>>
  BY DEF FinalAnswer, StepLimit, CallLimit, RefusedProposal, TimeLimit, LoopRaises,
         CancelInside, Proposes, Inside
<1>2. \/ Finalize \/ Fails \/ Returns("CANCELLED", {})
      \/ ~IsResearch /\ Returns("SUCCEEDED", {})
  BY DEF FinalAnswer, StepLimit, CallLimit, RefusedProposal, TimeLimit, LoopRaises,
         CancelInside, AnalysisResult, AnalysisLimit
<1>3. CASE Finalize
  BY <1>1, <1>3, FinalizeInv
<1>4. CASE Fails \/ Returns("CANCELLED", {})
  BY <1>1, <1>4, FailsInv DEF Fails
<1>5. CASE ~IsResearch /\ Returns("SUCCEEDED", {})
  BY <1>1, <1>5, ReturnsInv DEF Verdict
<1> QED
  BY <1>2, <1>3, <1>4, <1>5

(* What a proposal that was counted, at "loop" or "tool", must leave.      *)
LEMMA ProposalInv ==
  ASSUME IInv, NEW u \in Url, RefuseSource(u) \/ CallTool(u) \/ ParkTool(u)
  PROVE  IInv'
<1> USE AgentRunsAssumption DEF AgentRunsAssumption
<1>1. /\ at = "loop" /\ loop.calls < MaxToolCalls
      /\ UNCHANGED <<store, outcome, cancelling, read, faults, crashes>>
  BY DEF RefuseSource, CallTool, ParkTool, Proposes, world
<1>2. /\ loop \in LoopState
      /\ loop.steps \in 0..MaxSteps /\ loop.now = None /\ Last \in 1..MaxRuns
      /\ acts \in [1..MaxRuns -> Nat] /\ parked \in [1..MaxRuns -> Nat]
      /\ acts[Last] + parked[Last] <= loop.calls
      /\ \A r \in 1..MaxRuns : r > Last => acts[r] = 0 /\ parked[r] = 0
      /\ runs \in Seq(Row) /\ DOMAIN runs = 1..Last
  BY <1>1 DEF IInv, TypeOK, Typed, DriverOK, CountOK, Driven, Inside, Last, LoopState
<1>3. PICK l \in Counted :
        /\ Count(l)
        /\ \/ RefuseSource(u) /\ loop' = l
           \/ CallTool(u) /\ loop' = [l EXCEPT !.now = u]
           \/ ParkTool(u) /\ loop' = l /\ parked' = [parked EXCEPT ![Last] = @ + 1]
  BY DEF RefuseSource, CallTool, ParkTool
<1>4. /\ l \in LoopState
      /\ l.calls = loop.calls + 1 /\ l.steps \in 0..MaxSteps
      /\ l.now = None /\ l.good = loop.good
  <2>0. loop.steps \in Nat /\ loop.calls \in Nat /\ loop.calls + 1 \in Nat /\ MaxSteps \in Nat
    BY <1>2 DEF LoopState
  <2>1. CASE loop.open /\ l = [loop EXCEPT !.calls = @ + 1]
    BY <2>0, <2>1, <1>2 DEF LoopState
  <2>2. CASE /\ loop.steps < MaxSteps
             /\ l = [loop EXCEPT !.steps = @ + 1, !.calls = @ + 1, !.open = TRUE]
    <3>1. loop.steps + 1 \in Nat /\ loop.steps + 1 \in 0..MaxSteps
      BY <2>0, <2>2
    <3>2. l \in LoopState
      BY <3>1, <2>0, <2>2, <1>2 DEF LoopState
    <3>3. /\ l.steps = loop.steps + 1 /\ l.calls = loop.calls + 1
          /\ l.now = loop.now /\ l.good = loop.good
      BY <2>2, <1>2 DEF LoopState
    <3> QED
      BY <3>1, <3>2, <3>3, <1>2
  <2> QED
    BY <2>1, <2>2, <1>3 DEF Count
<1>5. /\ loop' \in LoopState
      /\ loop'.calls = loop.calls + 1 /\ loop'.steps \in 0..MaxSteps
      /\ loop'.good = loop.good /\ at' \in {"loop", "tool"}
      /\ (at' = "tool" /\ loop'.now = u /\ ~AtSourceBound(u)) \/ (at' = "loop" /\ loop'.now = None)
  BY <1>1, <1>3, <1>4 DEF RefuseSource, CallTool, ParkTool, LoopState
<1>6. /\ acts' \in [1..MaxRuns -> Nat] /\ parked' \in [1..MaxRuns -> Nat]
      /\ acts'[Last] + parked'[Last] <= acts[Last] + parked[Last] + 1
      /\ \A r \in 1..MaxRuns : r # Last => acts'[r] = acts[r] /\ parked'[r] = parked[r]
  <2>1. acts[Last] \in Nat /\ parked[Last] \in Nat
    BY <1>2
  <2>2. CASE RefuseSource(u)
    BY <2>1, <2>2, <1>2 DEF RefuseSource, world
  <2>3. CASE CallTool(u)
    BY <2>1, <2>3, <1>2 DEF CallTool
  <2>4. CASE ParkTool(u) /\ parked' = [parked EXCEPT ![Last] = @ + 1]
    BY <2>1, <2>4, <1>2 DEF ParkTool
  <2> QED
    BY <2>2, <2>3, <2>4, <1>3
<1>7. /\ UNCHANGED <<task, runs, read>> /\ Last' = Last /\ IsResearch' = IsResearch
      /\ \A r : Running(r)' = Running(r)
  BY <1>1 DEF store, Last, IsResearch, Running
<1>8. acts[Last] \in Nat /\ parked[Last] \in Nat /\ acts'[Last] \in Nat /\ parked'[Last] \in Nat
  BY <1>2, <1>6
<1>9. TypeOK'
  BY <1>1, <1>2, <1>5, <1>7 DEF IInv, TypeOK, Inside
<1>10. Typed'
  BY <1>1, <1>5, <1>6, <1>7 DEF IInv, Typed
<1>11. DriverOK' /\ OutcomeOK'
  BY <1>1, <1>5, <1>7 DEF IInv, DriverOK, OutcomeOK, Driven, Inside, Committing, Alive
<1>12. CountOK'
  <2>1. loop.calls \in Nat
    BY <1>2 DEF LoopState
  <2>2. acts'[Last] + parked'[Last] <= loop'.calls
    BY <2>1, <1>2, <1>5, <1>6, <1>8
  <2>3. ASSUME NEW r \in 1..MaxRuns, r > Last PROVE acts'[r] = 0 /\ parked'[r] = 0
    <3>1. r # Last /\ acts[r] = 0 /\ parked[r] = 0
      BY <2>3, <1>2
    <3> QED
      BY <3>1, <1>6
  <2> QED
    BY <2>2, <2>3, <1>5, <1>7 DEF CountOK, Inside
<1>13. LoopOK'
  BY <1>5, <1>7 DEF IInv, LoopOK, AtSourceBound
<1>14. AttributedSources' /\ RunningOK'
  BY <1>1, <1>5, <1>7 DEF IInv, AttributedSources, RunningOK, Inside
<1>15. WithinBudget'
  <2>1. MaxToolCalls \in Nat /\ loop.calls \in Nat /\ WithinBudget
    BY <1>2 DEF IInv, LoopState
  <2>2. acts'[Last] + parked'[Last] <= MaxToolCalls
    BY <2>1, <1>1, <1>2, <1>6, <1>8
  <2>3. ASSUME NEW r \in 1..Last, r # Last PROVE acts'[r] + parked'[r] <= MaxToolCalls
    <3>1. r \in 1..MaxRuns /\ acts[r] + parked[r] <= MaxToolCalls
      BY <2>1, <1>2 DEF WithinBudget
    <3> QED
      BY <3>1, <2>3, <1>6
  <2> QED
    BY <2>2, <2>3, <1>2, <1>7 DEF WithinBudget
<1> QED
  BY <1>9, <1>10, <1>11, <1>12, <1>13, <1>14, <1>15 DEF IInv

LEMMA ToolReturnsInv ==
  ASSUME IInv, NEW ok \in BOOLEAN, ToolReturns(ok)
  PROVE  IInv'
<1> USE AgentRunsAssumption DEF AgentRunsAssumption
<1>1. /\ at = "tool" /\ at' = "loop"
      /\ UNCHANGED <<task, runs, outcome, cancelling, parked, acts, faults, crashes>>
  BY DEF ToolReturns, store
<1>2. /\ loop \in LoopState
      /\ loop.now \in Url /\ loop.good \subseteq read /\ read \in SUBSET Url
      /\ IsFiniteSet(loop.good) /\ Cardinality(loop.good) \in 0..MaxSources
      /\ ~AtSourceBound(loop.now)
  BY <1>1, FS_CardinalityType DEF IInv, TypeOK, Typed, LoopOK
<1>3. /\ Last' = Last /\ IsResearch' = IsResearch /\ \A r : Running(r)' = Running(r)
  BY <1>1 DEF Last, IsResearch, Running
<1>4. /\ loop'.now = None /\ loop'.calls = loop.calls /\ loop'.steps = loop.steps
      /\ loop' \in LoopState
      /\ \/ loop'.good = loop.good /\ read' = read
         \/ IsResearch /\ loop'.good = loop.good \cup {loop.now} /\ read' = read \cup {loop.now}
  BY <1>2 DEF ToolReturns, Observe, LoopState
<1>5. /\ IsFiniteSet(loop.good \cup {loop.now})
      /\ IsResearch => Cardinality(loop.good \cup {loop.now}) <= MaxSources
  <2>1. /\ IsFiniteSet(loop.good \cup {loop.now})
        /\ Cardinality(loop.good \cup {loop.now}) =
             IF loop.now \in loop.good THEN Cardinality(loop.good) ELSE Cardinality(loop.good) + 1
    BY <1>2, FS_AddElement
  <2>2. MaxSources \in Nat /\ Cardinality(loop.good) \in 0..MaxSources
    BY <1>2
  <2>3. IsResearch => Cardinality(loop.good) < MaxSources \/ loop.now \in loop.good
    BY <2>2, <1>2 DEF AtSourceBound
  <2> QED
    BY <2>1, <2>2, <2>3
<1>6. LoopOK'
  BY <1>1, <1>2, <1>4, <1>5 DEF LoopOK
<1>7. TypeOK' /\ Typed'
  BY <1>1, <1>2, <1>3, <1>4 DEF IInv, TypeOK, Typed, Inside
<1>8. DriverOK' /\ CountOK' /\ OutcomeOK'
  BY <1>1, <1>3, <1>4 DEF IInv, DriverOK, CountOK, OutcomeOK, Driven, Inside, Committing, Alive
<1>9. AttributedSources' /\ RunningOK' /\ WithinBudget'
  BY <1>1, <1>3, <1>4 DEF IInv, AttributedSources, RunningOK, WithinBudget, Inside
<1> QED
  BY <1>6, <1>7, <1>8, <1>9 DEF IInv

------------------------------------------------------------------------------
(* Decisions that come late, crashes and recovery.                         *)

LEMMA DecideInv ==
  ASSUME IInv, NEW i \in DOMAIN runs, Decide(i)
  PROVE  IInv'
<1>1. /\ UNCHANGED <<task, runs, at, loop, outcome, cancelling, read, faults, crashes>>
  BY DEF Decide, store, driver
<1>2. /\ acts \in [1..MaxRuns -> Nat] /\ parked \in [1..MaxRuns -> Nat]
      /\ i \in 1..MaxRuns /\ DOMAIN runs = 1..Last /\ Last \in 0..MaxRuns
      /\ acts[i] \in Nat /\ parked[i] \in Nat /\ parked[i] > 0
  BY AgentRunsAssumption DEF IInv, Typed, Decide, Last, AgentRunsAssumption
<1>3. /\ acts' \in [1..MaxRuns -> Nat] /\ parked' \in [1..MaxRuns -> Nat]
      /\ acts'[i] + parked'[i] <= acts[i] + parked[i]
      /\ \A r \in 1..MaxRuns : r # i => acts'[r] = acts[r] /\ parked'[r] = parked[r]
  <2>1. parked' = [parked EXCEPT ![i] = @ - 1]
    BY DEF Decide
  <2>2. CASE acts' = [acts EXCEPT ![i] = @ + 1]
    BY <2>1, <2>2, <1>2
  <2>3. CASE acts' = acts
    BY <2>1, <2>3, <1>2
  <2> QED
    BY <2>2, <2>3 DEF Decide
<1>4. acts'[i] \in Nat /\ parked'[i] \in Nat
  BY <1>2, <1>3
<1>5. /\ Last' = Last /\ IsResearch' = IsResearch /\ \A r : Running(r)' = Running(r)
  BY <1>1 DEF Last, IsResearch, Running
<1>6. TypeOK' /\ Typed'
  BY <1>1, <1>3, <1>5 DEF IInv, TypeOK, Typed
<1>7. DriverOK' /\ LoopOK' /\ OutcomeOK'
  BY <1>1, <1>5 DEF IInv, DriverOK, LoopOK, OutcomeOK, AtSourceBound, Alive
<1>8. CountOK'
  <2>1. at \in Inside \cup {"created", "starting"} => Last \in 1..MaxRuns
    BY <1>2 DEF IInv, DriverOK, Driven, Inside, Committing
  <2>2. ASSUME at \in Inside \cup {"created", "starting"}
        PROVE  acts'[Last] + parked'[Last] <= loop.calls
    <3>1. Last \in 1..MaxRuns /\ acts[Last] + parked[Last] <= loop.calls /\ loop.calls \in Nat
      BY <2>1, <2>2 DEF IInv, CountOK, Typed, LoopState
    <3>2. acts[Last] \in Nat /\ parked[Last] \in Nat /\ acts'[Last] \in Nat /\ parked'[Last] \in Nat
      BY <3>1, <1>2, <1>3
    <3>3. CASE i = Last
      BY <3>1, <3>2, <3>3, <1>3
    <3>4. CASE i # Last
      BY <3>1, <3>4, <1>3
    <3> QED
      BY <3>3, <3>4
  <2> QED
    BY <2>2, <1>1, <1>2, <1>3, <1>5 DEF IInv, CountOK
<1>9. WithinBudget'
  <2> SUFFICES ASSUME NEW r \in 1..Last PROVE acts'[r] + parked'[r] <= MaxToolCalls
    BY <1>1, <1>2 DEF WithinBudget
  <2>1. acts[r] + parked[r] <= MaxToolCalls
    BY <1>2 DEF IInv, WithinBudget
  <2>2. r \in 1..MaxRuns /\ MaxToolCalls \in Nat
    BY <1>2, AgentRunsAssumption DEF AgentRunsAssumption
  <2>3. acts[r] \in Nat /\ parked[r] \in Nat
    BY <2>2, <1>2
  <2> QED
    BY <2>1, <2>2, <2>3, <1>2, <1>3, <1>4
<1>10. AttributedSources' /\ RunningOK'
  BY <1>1, <1>5 DEF IInv, AttributedSources, RunningOK
<1> QED
  BY <1>6, <1>7, <1>8, <1>9, <1>10 DEF IInv

LEMMA CrashInv ==
  ASSUME IInv, Crash
  PROVE  IInv'
<1>1. /\ UNCHANGED <<task, runs, world, faults>> /\ task # "NONE"
      /\ at # "down" /\ at' = "down" /\ loop' = Fresh /\ outcome' = Nothing /\ cancelling' = FALSE
      /\ crashes \in Nat /\ crashes' = crashes + 1
  BY DEF Crash, store, IInv, Typed
<1>2. /\ AttributedSources' /\ WithinBudget' /\ Last' = Last /\ IsResearch' = IsResearch
      /\ \A r : Running(r)' = Running(r)
  BY <1>1, RowsStay
<1>3. TypeOK' /\ Typed'
  <2>1. Fresh \in LoopState
    BY DEF Fresh, LoopState
  <2>2. Nothing \in [status : Verdict, sources : SUBSET Url]
    BY DEF Nothing, Verdict
  <2>3. TypeOK'
    BY <1>1, AgentRunsAssumption DEF IInv, TypeOK, Fresh, AgentRunsAssumption
  <2>4. crashes' \in Nat
    BY <1>1
  <2>5. UNCHANGED <<parked, acts, read, faults, runs>> /\ Last' = Last /\ cancelling' \in BOOLEAN
    BY <1>1, <1>2 DEF world
  <2> QED
    BY <2>1, <2>2, <2>3, <2>4, <2>5, <1>1 DEF IInv, Typed
<1>4. DriverOK' /\ OutcomeOK'
  BY <1>1, <1>2 DEF IInv, DriverOK, OutcomeOK, Driven, Inside, Committing, Alive
<1>5. CountOK' /\ LoopOK'
  BY <1>1, <1>2, FreshEmpty, FS_EmptySet, AgentRunsAssumption
     DEF IInv, CountOK, LoopOK, Inside, world, AgentRunsAssumption
<1>6. RunningOK'
  <2>1. at \in Driven \cup {"pausing"} => task \in {"QUEUED", "PAUSED", "CANCELLING", "CANCELLED"}
    BY DEF IInv, DriverOK
  <2>2. task = "PAUSED" \/ at = "pausing" => crashes > 0
    BY DEF IInv, DriverOK, Alive
  <2>3. RunningOK /\ (at = "pausing" => task = "QUEUED" /\ runs[Last].status = "INTERRUPTED")
    BY DEF IInv, DriverOK
  <2> SUFFICES ASSUME NEW r \in DOMAIN runs
               PROVE  /\ Running(r) =>
                         \/ faults > 0
                         \/ task # "QUEUED" /\ crashes' > 1
                         \/ r = Last /\ (task = "QUEUED" \/ task \in {"CANCELLING", "CANCELLED"})
                      /\ runs[r].status = "INTERRUPTED" => task # "QUEUED" \/ crashes' > 1
    BY <1>1, <1>2 DEF RunningOK
  <2>4. ASSUME Running(r)
        PROVE  \/ faults > 0
               \/ task # "QUEUED" /\ crashes' > 1
               \/ r = Last /\ (task = "QUEUED" \/ task \in {"CANCELLING", "CANCELLED"})
    BY <2>1, <2>2, <2>3, <2>4, <1>1 DEF RunningOK, Driven, Committing
  <2>5. ASSUME runs[r].status = "INTERRUPTED" PROVE task # "QUEUED" \/ crashes' > 1
    BY <2>2, <2>3, <2>5, <1>1 DEF RunningOK
  <2> QED
    BY <2>4, <2>5
<1> QED
  BY <1>2, <1>3, <1>4, <1>5, <1>6 DEF IInv

LEMMA InterruptInv ==
  ASSUME IInv, InterruptRun
  PROVE  IInv'
<1>1. /\ at = "down" /\ task = "QUEUED" /\ Running(Last) /\ Stored("INTERRUPTED", {})
      /\ at' = "pausing" /\ UNCHANGED <<task, loop, outcome, cancelling, world, faults, crashes>>
  BY DEF InterruptRun, Stale
<1>2. Last > 0
  BY <1>1 DEF IInv, Typed, Last, Running
<1>3. /\ runs' \in Seq(Row) /\ Last' = Last /\ DOMAIN runs' = DOMAIN runs
      /\ runs'[Last].status = "INTERRUPTED" /\ IsResearch' = IsResearch
  BY <1>1, <1>2, RowsStored DEF RunStatus
<1>4. AttributedSources' /\ RunningOK' /\ WithinBudget'
  BY <1>1, <1>2, StoredKept DEF RunStatus
<1>5. TypeOK' /\ Typed'
  BY <1>1, <1>3 DEF IInv, TypeOK, Typed, Row, world
<1>6. DriverOK' /\ OutcomeOK'
  BY <1>1, <1>2, <1>3 DEF IInv, DriverOK, OutcomeOK, Driven, Inside, Committing, Alive
<1>7. CountOK' /\ LoopOK'
  BY <1>1, <1>3 DEF IInv, CountOK, LoopOK, Inside, world
<1> QED
  BY <1>4, <1>5, <1>6, <1>7 DEF IInv

LEMMA RecoveredInv ==
  ASSUME IInv, PauseTask \/ ResumeTask
  PROVE  IInv'
<1>1. /\ at \in {"down", "pausing"} /\ at' = "idle"
      /\ UNCHANGED <<runs, loop, outcome, cancelling, world, faults, crashes>>
      /\ task' \in TaskStatus /\ task \in TaskStatus
  BY DEF PauseTask, ResumeTask, IInv, TypeOK, TaskStatus
<1>2. /\ AttributedSources' /\ WithinBudget' /\ Last' = Last /\ IsResearch' = IsResearch
      /\ \A r : Running(r)' = Running(r)
  BY <1>1, RowsStay
<1>3. TypeOK' /\ Typed'
  BY <1>1, <1>2 DEF IInv, TypeOK, Typed, world
<1>4. DriverOK' /\ OutcomeOK'
  BY <1>1, <1>2 DEF IInv, DriverOK, OutcomeOK, PauseTask, ResumeTask, Driven, Inside,
                    Committing, Alive
<1>5. CountOK' /\ LoopOK'
  BY <1>1, <1>2 DEF IInv, CountOK, LoopOK, Inside, world
<1>6. RunningOK'
  <2>1. CASE PauseTask
    BY <2>1, <1>1, <1>2 DEF PauseTask, IInv, DriverOK, RunningOK, Running, Inside
  <2>2. CASE ResumeTask
    BY <2>2, <1>1, <1>2 DEF ResumeTask, Stale, IInv, RunningOK, Inside
  <2> QED
    BY <2>1, <2>2
<1> QED
  BY <1>2, <1>3, <1>4, <1>5, <1>6 DEF IInv

LEMMA StutterInv == IInv /\ UNCHANGED vars => IInv'
BY DEF vars, store, driver, world, IInv, TypeOK, Typed, DriverOK, CountOK, LoopOK, OutcomeOK,
       RunningOK, AttributedSources, WithinBudget, Last, Running, IsResearch, AtSourceBound, Alive

LEMMA StepInv == IInv /\ [Next]_vars => IInv'
<1> SUFFICES ASSUME IInv, [Next]_vars PROVE IInv'
  OBVIOUS
<1>1. CASE CreateTask \/ CompleteTask \/ RequestCancel \/ FinishCancel
  BY <1>1, TaskInv
<1>2. CASE CreateRun
  BY <1>2, CreateRunInv
<1>3. CASE RunnerUnavailable \/ Commit \/ CommitRaises
  BY <1>3, StoreInv, DriverInv DEF Commit
<1>4. CASE \/ FinalAnswer \/ StepLimit \/ CallLimit \/ RefusedProposal
           \/ TimeLimit \/ LoopRaises \/ CancelInside
  BY <1>4, EndInv
<1>5. ASSUME NEW u \in Url, RefuseSource(u) \/ CallTool(u) \/ ParkTool(u) PROVE IInv'
  BY <1>5, ProposalInv
<1>6. ASSUME NEW ok \in BOOLEAN, ToolReturns(ok) PROVE IInv'
  BY <1>6, ToolReturnsInv
<1>7. ASSUME NEW r \in DOMAIN runs, Decide(r) PROVE IInv'
  BY <1>7, DecideInv
<1>8. CASE Crash \/ Recover
  BY <1>8, CrashInv, InterruptInv, RecoveredInv DEF Recover
<1>9. CASE UNCHANGED vars
  BY <1>9, StutterInv
<1> QED
  BY <1>1, <1>2, <1>3, <1>4, <1>5, <1>6, <1>7, <1>8, <1>9 DEF Next

------------------------------------------------------------------------------
(* The theorems.                                                           *)

(* At every step of every behaviour of AgentRuns, where the driver is      *)
(* tells what the rows, the loop and the outcome may be.                   *)
THEOREM AgentInvariance == Spec => []IInv
BY InitInv, StepInv, PTL DEF Spec

(* Runs name only what a Tool returned to them, research that succeeded    *)
(* read enough and no more than it may, and no run exceeds its budget, the *)
(* calls it left to be approved included.                                  *)
THEOREM RunsStayInOrder == Spec => []RunsInOrder
<1>1. IInv => RunsInOrder
  BY DEF IInv, RunsInOrder
<1> QED
  BY <1>1, AgentInvariance, PTL

(* While the Core is up, a RUNNING row is being executed and an            *)
(* interrupted run is put before the user, but for the ways it names.      *)
THEOREM InterruptionStaysAsked == Spec => []InterruptionIsAsked
<1>1. IInv => InterruptionIsAsked
  <2> SUFFICES ASSUME IInv, Alive, NEW r \in DOMAIN runs
               PROVE  /\ Running(r) =>
                           (r = Last /\ at \in Inside \cup Committing) \/ faults > 0 \/ Overlooked
                      /\ runs[r].status = "INTERRUPTED" => task # "QUEUED" \/ crashes > 1
    BY DEF InterruptionIsAsked
  <2> QED
    BY DEF IInv, RunningOK, Alive, Overlooked, Committing
<1> QED
  BY <1>1, AgentInvariance, PTL
================================================================================
