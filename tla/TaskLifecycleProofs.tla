-------------------------- MODULE TaskLifecycleProofs --------------------------
(***************************************************************************)
(* A Task's verdicts are true, an uncertain call is not repeated, and      *)
(* nothing but an error strands a Task, for any number of runners,         *)
(* approvers, calls, attempts, crashes and errors.                         *)
(***************************************************************************)
EXTENDS TaskLifecycle, TLAPS

(* Some attempt was started: from then on one always is.                   *)
Started == att # << >> /\ Latest.status # "QUEUED"

(* Call c waits for its confirmation: nobody works on it.                  *)
Parked(c) == call[c] = "RECOVERY_REQUIRED"

(* What the runner r knows, j being where it is and its locals: it works   *)
(* on the latest attempt, which nobody else changes, and it is the one in  *)
(* _tasks unless it is yet to be spawned.                                  *)
RunnerFits(r, j) ==
  /\ j.pc \in Running \cup {"created", "retry", "new"}
  /\ j.call \in Call /\ j.grant \in {"none", "reusable", "one-shot"}
  /\ phase \in {"up", "stopping"} /\ att # << >>
  /\ registered = r <=> j.pc \notin {"created", "retry"}
  /\ j.pc \in InTry => Started
  /\ j.pc \in InTry \/ j.grant # "none" \/ ~Started =>
       Latest.call = j.call /\ Latest.grant = j.grant

(* What the status of the Task tells of its runner, and the canceller.     *)
StatusFits(r, j) ==
  /\ j.pc = "retry" => Started /\ task.status \in {"SUCCEEDED", "FAILED"} /\ canceller.pc = "idle"
  /\ j.pc = "attempt" => j.result # "CONFIRMATION_REQUIRED" /\ task.status # "RUNNING"
  /\ task.status = "CANCELLED" => j.pc \in {"created", "new"}
  /\ j.cut /\ phase = "up" => task.status \notin {"QUEUED", "RUNNING"}
  /\ j.cut => j.pc \notin {"created", "retry"}
  /\ canceller.pc = "wait" => canceller.runner = r
  /\ canceller.pc = "finish" => j.pc \in {"created", "new"}
  /\ \A c \in Call : ~Parked(c)

(* What an approver knows: the call it approves was asked about, and no    *)
(* longer waits to start once the approval is stored.                      *)
ApproverFits(j) ==
  /\ j.pc \in {"approve", "invoke", "acting", "acted", "result", "attempt"}
  /\ j.call \in Call /\ j.grant = "approved" /\ ~j.cut
  /\ phase \in {"up", "stopping"}
  /\ conf[j.call] # "NONE"
  /\ j.pc # "approve" =>
       conf[j.call] # "PENDING" /\ call[j.call] \notin {"ABSENT", "QUEUED", "RECOVERY_REQUIRED"}
  /\ j.forTask => j.snap.status = "WAITING_CONFIRMATION" /\ \A c \in Call : ~Parked(c)

(* What a worker inside invoke, or past it, knows of its call.             *)
CallFits(j) ==
  /\ j.pc \in {"acting", "acted"} => call[j.call] = "RUNNING"
  /\ j.pc = "acting" /\ j.call \notin RetrySafe => effects[j.call] = 0
  /\ j.pc = "acted" => effects[j.call] > 0
  /\ j.pc \in {"result", "decide", "attempt"} /\ j.result = "SUCCEEDED" =>
       call[j.call] = "SUCCEEDED"

RunnersFit   == \A r \in Runner : Free(r) \/ RunnerFits(r, job[r])
StatusesFit  == \A r \in Runner : Free(r) \/ StatusFits(r, job[r])
ApproversFit == \A a \in Approver : Free(a) \/ ApproverFits(job[a])
CallsFit     == \A w \in Worker : Free(w) \/ CallFits(job[w])

(* One runner at a time, and one call at a time.                           *)
Alone ==
  /\ \A q, r \in Runner : Free(q) \/ Free(r) \/ q = r
  /\ \A v, w \in Worker :
       job[v].pc \in {"acting", "acted"} /\ job[w].pc \in {"acting", "acted"} => v = w

(* The stored rows agree with each other, in every state.                  *)
RowsOK ==
  /\ task.status = "NONE" <=> att = << >>
  /\ \A c \in Call :
       /\ call[c] = "SUCCEEDED" => effects[c] > 0
       /\ conf[c] = "PENDING" => call[c] = "WAITING_CONFIRMATION"
       /\ conf[c] # "NONE" => \E i \in DOMAIN att : att[i].call = c
       /\ c \notin RetrySafe => effects[c] <= 1
       /\ c \notin RetrySafe /\ call[c] \in {"ABSENT", "QUEUED", "WAITING_CONFIRMATION"} =>
            effects[c] = 0
       /\ Parked(c) => task.status \in {"PAUSED", "CANCELLING", "CANCELLED"}
       /\ att = << >> => call[c] = "ABSENT"

(* Before an attempt was started nothing has come of the Task, and a grant *)
(* keeps its call from being asked about.                                  *)
AttemptsOK ==
  /\ \A i \in DOMAIN att : att[i].grant # "approved"
  /\ att # << >> /\ Latest.grant # "none" => conf[Latest.call] # "PENDING"
  /\ ~Started =>
       /\ task.status \notin {"SUCCEEDED", "FAILED", "WAITING_CONFIRMATION"}
       /\ \A c \in Call : call[c] \in {"ABSENT", "QUEUED"} /\ conf[c] = "NONE"

(* What the commits of a cancellation and of recovery find.                *)
CancelOK ==
  /\ phase \in {"down", "recovering"} => canceller.pc = "idle"
  /\ canceller.pc # "idle" => task.status # "NONE"
  /\ canceller.pc = "write" => canceller.snap.status \notin Ended \cup {"NONE"}
  /\ canceller.pc \in {"signal", "wait", "finish"} => task.status \notin {"QUEUED", "RUNNING"}

RecoveryOK ==
  /\ recovery # "idle" <=> phase = "recovering"
  /\ recovery \notin {"idle", "reconcile"} => att # << >>
  /\ recovery = "finalize-attempt" => task.status \in {"SUCCEEDED", "FAILED"}
  /\ recovery \in {"requeue-call", "requeue-task"} => task.status = "RUNNING"
  /\ recovery = "requeue-call" => Latest.call \in RetrySafe
  /\ recovery = "park-call" => task.status = "PAUSED"
  /\ recovery = "fail-call" => task.status = "CANCELLED"
  /\ recovery \in {"requeue-call", "park-call", "fail-call"} => call[Latest.call] = "RUNNING"

IInv ==
  /\ TypeOK /\ RunnersFit /\ StatusesFit /\ ApproversFit /\ CallsFit /\ Alone
  /\ RowsOK /\ AttemptsOK /\ CancelOK /\ RecoveryOK /\ SuccessHasEvidence

------------------------------------------------------------------------------
(* Worker w took a step, and is the only one who did.                      *)
Place == Running \cup {"gone", "created", "retry", "new", "approve", "write"}

Stepped(w) == job' \in [Worker -> Job] /\ \A v \in Worker \ {w} : job'[v] = job[v]

SameLocals(w) ==
  /\ job'[w].call = job[w].call /\ job'[w].grant = job[w].grant /\ job'[w].cut = job[w].cut
  /\ job'[w].forTask = job[w].forTask

(* What a step writes into a worker's record is one, and who else works    *)
(* keeps theirs.                                                           *)
LEMMA JobWritten ==
  ASSUME TypeOK, NEW w \in Worker, NEW j \in Job, job' = [job EXCEPT ![w] = j]
  PROVE  Stepped(w) /\ job'[w] = j
BY DEF TypeOK, Stepped

LEMMA Moved ==
  ASSUME TypeOK, NEW w \in Worker, NEW l \in Place, Move(w, l)
  PROVE  /\ Stepped(w) /\ SameLocals(w) /\ job'[w].pc = l
         /\ job'[w].snap = job[w].snap /\ job'[w].result = job[w].result
<1> DEFINE j == [job[w] EXCEPT !.pc = l]
<1>1. job[w] \in Job
  BY DEF TypeOK
<1>2. j \in Job
  BY <1>1 DEF Job, Place
<1>3. /\ j.pc = l /\ j.call = job[w].call /\ j.grant = job[w].grant /\ j.cut = job[w].cut
      /\ j.forTask = job[w].forTask /\ j.snap = job[w].snap /\ j.result = job[w].result
  BY <1>1 DEF Job
<1>4. job' = [job EXCEPT ![w] = j]
  BY DEF Move, TypeOK
<1> HIDE DEF j
<1> QED
  BY <1>2, <1>3, <1>4, JobWritten DEF SameLocals

LEMMA ReturnedWith ==
  ASSUME TypeOK, NEW w \in Worker, NEW s \in Result, Returned(w, s)
  PROVE  Stepped(w) /\ SameLocals(w) /\ job'[w].pc = "result" /\ job'[w].result = s
         /\ job'[w].snap = job[w].snap
<1> DEFINE j == [job[w] EXCEPT !.pc = "result", !.result = s]
<1>1. job[w] \in Job
  BY DEF TypeOK
<1>2. j \in Job
  BY <1>1 DEF Job, Running, InTry
<1>3. /\ j.pc = "result" /\ j.call = job[w].call /\ j.grant = job[w].grant /\ j.cut = job[w].cut
      /\ j.forTask = job[w].forTask /\ j.snap = job[w].snap /\ j.result = s
  BY <1>1 DEF Job
<1>4. job' = [job EXCEPT ![w] = j]
  BY DEF Returned, TypeOK
<1> HIDE DEF j
<1> QED
  BY <1>2, <1>3, <1>4, JobWritten DEF SameLocals

LEMMA GoneTyped == Gone \in Job /\ NoTask \in Task
<1>1. NoTask \in Task
  BY DEF NoTask, Task, TaskStatus
<1> QED
  BY <1>1 DEF Gone, Job, Authority, Result

LEMMA Left ==
  ASSUME TypeOK, NEW w \in Worker, End(w)
  PROVE  Stepped(w) /\ Free(w)'
BY GoneTyped, JobWritten DEF End, Free

LEMMA Spawned ==
  ASSUME TypeOK, NEW r \in Runner, NEW c \in Call, NEW g \in Authority, Spawn(r, c, g)
  PROVE  /\ Stepped(r) /\ registered' = r /\ cancelEvent' = FALSE
         /\ job'[r].pc = "new" /\ job'[r].call = c /\ job'[r].grant = g /\ ~job'[r].cut
<1> DEFINE j == [Gone EXCEPT !.pc = "new", !.call = c, !.grant = g]
<1>1. j \in Job
  BY GoneTyped DEF Job
<1>2. j.pc = "new" /\ j.call = c /\ j.grant = g /\ ~j.cut
  BY DEF Gone
<1>3. r \in Worker
  BY DEF Worker
<1> HIDE DEF j
<1>4. job' = [job EXCEPT ![r] = j]
  BY DEF Spawn, j
<1> QED
  BY <1>1, <1>2, <1>3, <1>4, JobWritten DEF Spawn

------------------------------------------------------------------------------
(* Steps of workers that leave calls, confirmations and effects alone.     *)

(* The attempts a step may leave: each keeps its call, one may be added,   *)
(* and the grant of the latest still keeps its call from being asked for.  *)
AttKept ==
  /\ att # << >> /\ att' # << >> /\ att' \in Seq(Attempt)
  /\ \A i \in DOMAIN att : i \in DOMAIN att' /\ att'[i].call = att[i].call
  /\ \A i \in DOMAIN att' : att'[i].grant # "approved"
  /\ Started => Started'
  /\ (Latest.grant)' # "none" => conf[(Latest.call)'] # "PENDING"

(* The status it may leave.                                                *)
StatusMay ==
  /\ task' \in Task /\ task'.status # "NONE"
  /\ task'.status \in {"SUCCEEDED", "FAILED", "WAITING_CONFIRMATION"} => Started'
  /\ task'.status \in {"QUEUED", "RUNNING"} => canceller.pc \notin {"signal", "wait", "finish"}
  /\ (\E c \in Call : Parked(c)) => task'.status \in {"PAUSED", "CANCELLING", "CANCELLED"}
  /\ SuccessHasEvidence'

(* What it leaves alone, and the types of the rest.                        *)
Calm ==
  /\ UNCHANGED <<phase, call, conf, effects, canceller, recovery>>
  /\ spent' \in BOOLEAN /\ registered' \in Runner \cup {None} /\ cancelEvent' \in BOOLEAN
  /\ faults' \in 0 .. MaxFaults

(* Who works does so in a process that serves, on a Task that exists.      *)
LEMMA AtWork ==
  ASSUME IInv, NEW w \in Worker, ~Free(w)
  PROVE  /\ phase \in {"up", "stopping"} /\ recovery = "idle" /\ att # << >> /\ task.status # "NONE"
         /\ job[w].call \in Call /\ CallFits(job[w]) /\ job[w].pc # "gone"
         /\ w \in Runner => RunnerFits(w, job[w]) /\ StatusFits(w, job[w])
         /\ w \in Approver => ApproverFits(job[w]) /\ Started
<1>1. CASE w \in Runner
  <2>1. RunnerFits(w, job[w]) /\ StatusFits(w, job[w]) /\ CallFits(job[w]) /\ w \notin Approver
    BY <1>1, TaskAssumption DEF IInv, RunnersFit, StatusesFit, CallsFit, TaskAssumption
  <2>2. job[w].pc # "gone"
    BY <2>1 DEF RunnerFits, Running, InTry
  <2> QED
    BY <1>1, <2>1, <2>2 DEF IInv, RunnerFits, RecoveryOK, RowsOK
<1>2. CASE w \in Approver
  <2>1. ApproverFits(job[w]) /\ CallFits(job[w]) /\ w \notin Runner
    BY <1>2, TaskAssumption DEF IInv, ApproversFit, CallsFit, TaskAssumption
  <2>2. Started
    BY <2>1 DEF IInv, AttemptsOK, ApproverFits
  <2> QED
    BY <1>2, <2>1, <2>2 DEF IInv, ApproverFits, RecoveryOK, RowsOK, Started
<1> QED
  BY <1>1, <1>2 DEF Worker

(* A step of one worker keeps the invariant when it fits what it has       *)
(* become, and the runners fit what it has made of the Task.               *)
LEMMA WorkerStep ==
  ASSUME IInv, NEW w \in Worker, Stepped(w), AttKept, StatusMay, Calm,
         phase \in {"up", "stopping"}, Alone',
         \A r \in Runner : (Free(r) \/ (RunnerFits(r, job[r]) /\ StatusFits(r, job[r])))',
         w \in Approver => (Free(w) \/ ApproverFits(job[w]))',
         (Free(w) \/ CallFits(job[w]))'
  PROVE  IInv'
<1>1. TypeOK'
  BY DEF IInv, TypeOK, Stepped, AttKept, StatusMay, Calm
<1>2. RunnersFit' /\ StatusesFit'
  BY DEF RunnersFit, StatusesFit
<1>3. ApproversFit'
  <2>1. ASSUME NEW a \in Approver, a # w PROVE (Free(a) \/ ApproverFits(job[a]))'
    <3>1. job'[a] = job[a]
      BY <2>1 DEF Stepped, Worker
    <3>2. Free(a) \/ ApproverFits(job[a])
      BY DEF IInv, ApproversFit
    <3> QED
      BY <3>1, <3>2 DEF Free, ApproverFits, Parked, Calm
  <2> QED
    BY <2>1 DEF ApproversFit
<1>4. CallsFit'
  <2>1. ASSUME NEW v \in Worker, v # w PROVE (Free(v) \/ CallFits(job[v]))'
    <3>1. job'[v] = job[v]
      BY <2>1 DEF Stepped
    <3>2. Free(v) \/ CallFits(job[v])
      BY DEF IInv, CallsFit
    <3> QED
      BY <3>1, <3>2 DEF Free, CallFits, Calm
  <2> QED
    BY <2>1 DEF CallsFit
<1>5. RowsOK'
  BY DEF IInv, RowsOK, Parked, AttKept, StatusMay, Calm
<1>6. AttemptsOK'
  BY DEF IInv, AttemptsOK, AttKept, StatusMay, Calm
<1>7. CancelOK'
  BY DEF IInv, CancelOK, StatusMay, Calm
<1>8. RecoveryOK'
  BY DEF IInv, RecoveryOK, Calm
<1> QED
  BY <1>1, <1>2, <1>3, <1>4, <1>5, <1>6, <1>7, <1>8 DEF IInv, StatusMay

(* Nobody else starts to act.                                              *)
LEMMA AloneKept ==
  ASSUME IInv, NEW w \in Worker, Stepped(w),
         \/ Free(w)' \/ w \notin Runner \/ ~Free(w) \/ \A r \in Runner : Free(r),
         \/ Free(w)' \/ job'[w].pc \notin {"acting", "acted"}
         \/ job[w].pc \in {"acting", "acted"} \/ Unlocked
  PROVE  Alone'
<1>1. Runner \subseteq Worker
  BY DEF Worker
<1>2. ASSUME NEW q \in Runner, NEW r \in Runner, q # r, ~Free(q)', ~Free(r)' PROVE FALSE
  BY <1>1, <1>2 DEF IInv, Alone, Stepped, Free
<1>3. ASSUME NEW u \in Worker, NEW v \in Worker, u # v,
             job'[u].pc \in {"acting", "acted"}, job'[v].pc \in {"acting", "acted"}
      PROVE  FALSE
  <2>1. ~Free(u)' /\ ~Free(v)'
    BY <1>3 DEF Free, Gone
  <2> QED
    BY <1>3, <2>1 DEF IInv, Alone, Stepped, Unlocked
<1> QED
  BY <1>2, <1>3 DEF Alone

(* The runner's own step: it is the only one.                              *)
LEMMA RunnerStep ==
  ASSUME IInv, NEW r \in Runner, ~Free(r), Stepped(r), AttKept, StatusMay, Calm,
         (Free(r) \/ (RunnerFits(r, job[r]) /\ StatusFits(r, job[r]) /\ CallFits(job[r])))',
         \/ Free(r)' \/ job'[r].pc \notin {"acting", "acted"}
         \/ job[r].pc \in {"acting", "acted"} \/ Unlocked
  PROVE  IInv'
<1>1. r \in Worker /\ r \notin Approver
  BY TaskAssumption DEF Worker, TaskAssumption
<1>2. \A q \in Runner : q # r => Free(q)'
  BY <1>1 DEF IInv, Alone, Stepped, Free, Worker
<1>3. Alone'
  BY <1>1, AloneKept
<1>4. phase \in {"up", "stopping"}
  BY <1>1, AtWork
<1>5. \A q \in Runner : (Free(q) \/ (RunnerFits(q, job[q]) /\ StatusFits(q, job[q])))'
  BY <1>2
<1>6. (Free(r) \/ CallFits(job[r]))'
  OBVIOUS
<1> QED
  BY <1>1, <1>3, <1>4, <1>5, <1>6, WorkerStep

LEMMA AttemptTyped ==
  ASSUME NEW s \in Seq(Attempt), NEW i \in DOMAIN s
  PROVE  s[i].call \in Call /\ s[i].grant \in Authority
<1>1. s[i] \in Attempt
  OBVIOUS
<1> QED
  BY <1>1 DEF Attempt

(* The attempts stay as they are, or one of them changes its status.       *)
LEMMA AttSame ==
  ASSUME IInv, att # << >>, UNCHANGED <<att, conf>>
  PROVE  AttKept
<1>1. Started' = Started /\ (Latest.grant)' = Latest.grant /\ (Latest.call)' = Latest.call
  BY DEF Started, Latest
<1> QED
  BY <1>1 DEF IInv, TypeOK, AttemptsOK, AttKept

LEMMA AttSaved ==
  ASSUME IInv, att # << >>, UNCHANGED conf, NEW i \in Nat, NEW s \in {"RUNNING", "SUCCEEDED", "FAILED"},
         SaveAttempt(i, s)
  PROVE  /\ AttKept /\ (Latest.call)' = Latest.call /\ (Latest.grant)' = Latest.grant
         /\ Len(att') = Len(att) /\ (i = Len(att) => Started')
<1>1. /\ att \in Seq(Attempt) /\ Len(att) \in DOMAIN att /\ Len(att) \in Nat
      /\ DOMAIN att = 1 .. Len(att) /\ \A n \in DOMAIN att : att[n] \in Attempt
  BY DEF IInv, TypeOK
<1>2. \A n \in DOMAIN att : [att[n] EXCEPT !.status = s] \in Attempt
  BY <1>1 DEF Attempt
<1>3. /\ att' \in Seq(Attempt) /\ Len(att') = Len(att) /\ DOMAIN att' = DOMAIN att
      /\ \A n \in DOMAIN att : att'[n] = IF n = i THEN [att[n] EXCEPT !.status = s] ELSE att[n]
  <2>1. att' = [n \in 1 .. Len(att) |-> IF n = i THEN [att[n] EXCEPT !.status = s] ELSE att[n]]
    BY <1>1 DEF SaveAttempt
  <2> QED
    BY <1>1, <1>2, <2>1
<1>4. \A n \in DOMAIN att :
        /\ att'[n].call = att[n].call /\ att'[n].grant = att[n].grant
        /\ n = i => att'[n].status = s
        /\ n # i => att'[n] = att[n]
  BY <1>1, <1>3 DEF Attempt
<1>5. /\ (Latest.call)' = Latest.call /\ (Latest.grant)' = Latest.grant
      /\ i = Len(att) => (Latest.status)' = s
      /\ i # Len(att) => Latest' = Latest
  BY <1>1, <1>3, <1>4 DEF Latest
<1>6. att' # << >>
  BY <1>1, <1>3
<1>7. (Started => Started') /\ (i = Len(att) => Started')
  BY <1>5, <1>6 DEF Started
<1>8. /\ \A n \in DOMAIN att' : att'[n].grant # "approved"
      /\ (Latest.grant)' # "none" => conf[(Latest.call)'] # "PENDING"
  BY <1>3, <1>4, <1>5 DEF IInv, AttemptsOK
<1> QED
  BY <1>3, <1>4, <1>5, <1>6, <1>7, <1>8 DEF AttKept

(* SUCCEEDED has its evidence when the call of an attempt succeeded.       *)
LEMMA Evident ==
  ASSUME IInv, AttKept, UNCHANGED <<call, effects>>,
         \/ task'.status # "SUCCEEDED" \/ task.status = "SUCCEEDED"
         \/ \E i \in DOMAIN att : call[att[i].call] = "SUCCEEDED"
  PROVE  SuccessHasEvidence'
<1>1. \A i \in DOMAIN att : att[i].call \in Call
  BY AttemptTyped DEF IInv, TypeOK
<1>2. \A c \in Call : call[c] = "SUCCEEDED" => effects[c] > 0
  BY DEF IInv, RowsOK
<1>3. CASE task'.status # "SUCCEEDED"
  BY <1>3 DEF SuccessHasEvidence
<1>4. CASE \E i \in DOMAIN att : call[att[i].call] = "SUCCEEDED"
  <2>1. PICK i \in DOMAIN att : call[att[i].call] = "SUCCEEDED"
    BY <1>4
  <2>2. i \in DOMAIN att' /\ att'[i].call = att[i].call
    BY DEF AttKept
  <2>3. call'[att'[i].call] = "SUCCEEDED" /\ effects'[att'[i].call] > 0
    BY <1>1, <1>2, <2>1, <2>2
  <2> QED
    BY <2>2, <2>3 DEF SuccessHasEvidence
<1>5. CASE task.status = "SUCCEEDED"
  BY <1>4, <1>5 DEF IInv, SuccessHasEvidence
<1> QED
  BY <1>3, <1>4, <1>5

LEMMA TaskSame ==
  ASSUME IInv, AttKept, UNCHANGED <<task, call, effects>>
  PROVE  StatusMay
<1>1. SuccessHasEvidence'
  BY Evident
<1> QED
  BY <1>1 DEF IInv, TypeOK, RowsOK, AttemptsOK, CancelOK, AttKept, StatusMay

(* The runner goes on with the attempt it works on.                        *)
LEMMA RunnerMoves ==
  ASSUME IInv, NEW r \in Runner, Stepped(r), Calm, UNCHANGED <<task, att, registered>>,
         job[r].pc \in InTry \cup {"finish"},
         job'[r].pc \in {"invoke", "result", "decide", "finish"},
         job[r].pc = "finish" => job'[r].pc = "finish",
         job'[r].call = job[r].call, job'[r].grant = job[r].grant, job'[r].cut => job[r].cut,
         CallFits(job[r])'
  PROVE  IInv'
<1>1. /\ r \in Worker /\ ~Free(r) /\ RunnerFits(r, job[r]) /\ StatusFits(r, job[r]) /\ att # << >>
  <2>1. ~Free(r) /\ r \in Worker
    BY DEF Free, Gone, InTry, Worker
  <2> QED
    BY <2>1, AtWork
<1>2. AttKept /\ StatusMay
  BY <1>1, AttSame, TaskSame DEF Calm
<1>3. RunnerFits(r, job[r])'
  <2>1. Started' = Started /\ (Latest.call)' = Latest.call /\ (Latest.grant)' = Latest.grant
    BY DEF Started, Latest
  <2> QED
    BY <1>1, <2>1 DEF RunnerFits, Running, InTry, Calm
<1>4. StatusFits(r, job[r])'
  BY <1>1 DEF StatusFits, InTry, Parked, Calm
<1> QED
  BY <1>1, <1>2, <1>3, <1>4, RunnerStep

(* The runner, or an approver, leaves.                                     *)
LEMMA RunnerLeaves ==
  ASSUME IInv, NEW r \in Runner, ~Free(r), End(r), AttKept, StatusMay, Calm
  PROVE  IInv'
<1>1. r \in Worker /\ Stepped(r) /\ Free(r)'
  BY Left DEF IInv, Worker
<1> QED
  BY <1>1, RunnerStep

------------------------------------------------------------------------------
(* The runner.                                                             *)

(* What an action of the runner leaves alone has its type.                 *)
LEMMA CalmKept ==
  ASSUME IInv, UNCHANGED <<phase, call, conf, spent, effects, canceller, recovery>>,
         registered' \in Runner \cup {None}, cancelEvent' \in BOOLEAN, faults' \in 0 .. MaxFaults
  PROVE  Calm
BY DEF IInv, TypeOK, Calm

LEMMA RunnerIs ==
  ASSUME IInv, NEW r \in Runner, job[r].pc # "gone"
  PROVE  /\ ~Free(r) /\ r \in Worker /\ RunnerFits(r, job[r]) /\ StatusFits(r, job[r])
         /\ CallFits(job[r]) /\ att # << >> /\ phase \in {"up", "stopping"} /\ task.status # "NONE"
         /\ registered \in Runner \cup {None} /\ cancelEvent \in BOOLEAN /\ faults \in 0 .. MaxFaults
         /\ job[r] \in Job /\ task \in Task
<1>1. ~Free(r) /\ r \in Worker
  BY DEF Free, Gone, Worker
<1> QED
  BY <1>1, AtWork DEF IInv, TypeOK

LEMMA CreatedInv ==
  ASSUME IInv, NEW r \in Runner, Created(r) PROVE IInv'
<1>1. /\ job[r].pc = "created" /\ Spawn(r, job[r].call, job[r].grant)
      /\ UNCHANGED <<phase, task, att, call, conf, spent, effects, canceller, recovery, faults>>
  BY DEF Created, durable
<1>2. /\ ~Free(r) /\ r \in Worker /\ RunnerFits(r, job[r]) /\ StatusFits(r, job[r]) /\ att # << >>
      /\ faults \in 0 .. MaxFaults
  BY <1>1, RunnerIs
<1>3. /\ Stepped(r) /\ registered' = r /\ cancelEvent' = FALSE /\ job'[r].pc = "new"
      /\ job'[r].call = job[r].call /\ job'[r].grant = job[r].grant /\ ~job'[r].cut
  BY <1>1, <1>2, Spawned DEF RunnerFits, Authority, IInv
<1>4. AttKept /\ StatusMay /\ Calm
  BY <1>1, <1>2, <1>3, AttSame, TaskSame, CalmKept
<1>5. RunnerFits(r, job[r])'
  <2>1. Started' = Started /\ (Latest.call)' = Latest.call /\ (Latest.grant)' = Latest.grant
    BY <1>1 DEF Started, Latest
  <2> QED
    BY <1>1, <1>2, <1>3, <2>1 DEF RunnerFits, Running, InTry
<1>6. StatusFits(r, job[r])' /\ CallFits(job[r])'
  BY <1>1, <1>2, <1>3 DEF StatusFits, CallFits, Parked
<1> QED
  BY <1>2, <1>3, <1>4, <1>5, <1>6, RunnerStep

LEMMA RetryQueuedInv ==
  ASSUME IInv, NEW r \in Runner, RetryQueued(r) PROVE IInv'
<1>1. /\ job[r].pc = "retry" /\ Spawn(r, job[r].call, "none")
      /\ task' = [NoTask EXCEPT !.status = "QUEUED"]
      /\ UNCHANGED <<phase, att, call, conf, spent, effects, canceller, recovery, faults>>
  BY DEF RetryQueued
<1>2. /\ ~Free(r) /\ r \in Worker /\ RunnerFits(r, job[r]) /\ StatusFits(r, job[r]) /\ att # << >>
      /\ faults \in 0 .. MaxFaults
  BY <1>1, RunnerIs
<1>3. /\ Stepped(r) /\ registered' = r /\ cancelEvent' = FALSE /\ job'[r].pc = "new"
      /\ job'[r].call = job[r].call /\ job'[r].grant = "none" /\ ~job'[r].cut
  BY <1>1, <1>2, Spawned DEF RunnerFits, Authority, IInv
<1>4. AttKept /\ Calm
  BY <1>1, <1>2, <1>3, AttSame, CalmKept
<1>5. task' \in Task /\ task'.status = "QUEUED"
  BY <1>1 DEF NoTask, Task, TaskStatus
<1>6. Started /\ canceller.pc = "idle" /\ \A c \in Call : ~Parked(c)
  BY <1>1, <1>2 DEF StatusFits
<1>7. StatusMay
  BY <1>4, <1>5, <1>6, <1>1, Evident DEF StatusMay
<1>8. RunnerFits(r, job[r])'
  <2>1. Started' = Started
    BY <1>1 DEF Started, Latest
  <2> QED
    BY <1>1, <1>2, <1>3, <1>6, <2>1 DEF RunnerFits, Running, InTry
<1>9. StatusFits(r, job[r])' /\ CallFits(job[r])'
  BY <1>1, <1>3, <1>5, <1>6 DEF StatusFits, CallFits, Parked
<1> QED
  BY <1>2, <1>3, <1>4, <1>7, <1>8, <1>9, RunnerStep

LEMMA ClaimInv ==
  ASSUME IInv, NEW r \in Runner, Claim(r) PROVE IInv'
<1>1. /\ job[r].pc = "new" /\ ~job[r].cut /\ task.status = "QUEUED" /\ Move(r, "claimed")
      /\ task' = [task EXCEPT !.status = "RUNNING", !.claimed = TRUE]
      /\ UNCHANGED <<phase, att, call, conf, spent, effects, registered, cancelEvent, canceller,
                     recovery, faults>>
  BY DEF Claim
<1>2. /\ ~Free(r) /\ r \in Worker /\ RunnerFits(r, job[r]) /\ StatusFits(r, job[r]) /\ att # << >>
      /\ registered \in Runner \cup {None} /\ cancelEvent \in BOOLEAN /\ faults \in 0 .. MaxFaults
      /\ task \in Task
  BY <1>1, RunnerIs
<1>3. Stepped(r) /\ SameLocals(r) /\ job'[r].pc = "claimed"
  BY <1>1, <1>2, Moved DEF Place, Running, IInv
<1>4. AttKept /\ Calm
  BY <1>1, <1>2, AttSame, CalmKept
<1>5. task' \in Task /\ task'.status = "RUNNING"
  BY <1>1, <1>2 DEF Task, TaskStatus
<1>6. canceller.pc \notin {"signal", "wait", "finish"}
  BY <1>1 DEF IInv, CancelOK
<1>7. StatusMay
  <2>1. SuccessHasEvidence'
    BY <1>1, <1>4, <1>5, Evident
  <2> QED
    BY <1>2, <1>5, <1>6, <2>1 DEF StatusMay, StatusFits
<1>8. RunnerFits(r, job[r])'
  <2>1. Started' = Started /\ (Latest.call)' = Latest.call /\ (Latest.grant)' = Latest.grant
    BY <1>1 DEF Started, Latest
  <2> QED
    BY <1>1, <1>2, <1>3, <2>1 DEF RunnerFits, SameLocals, Running, InTry
<1>9. StatusFits(r, job[r])' /\ CallFits(job[r])'
  BY <1>1, <1>2, <1>3, <1>5, <1>6 DEF StatusFits, CallFits, Parked, SameLocals
<1> QED
  BY <1>2, <1>3, <1>4, <1>7, <1>8, <1>9, RunnerStep

LEMMA ClaimLostInv ==
  ASSUME IInv, NEW r \in Runner, ClaimLost(r) PROVE IInv'
<1>1. /\ job[r].pc = "new" /\ End(r)
      /\ UNCHANGED <<phase, task, att, call, conf, spent, effects, registered, cancelEvent,
                     canceller, recovery, faults>>
  BY DEF ClaimLost, durable
<1>2. /\ ~Free(r) /\ att # << >> /\ registered \in Runner \cup {None} /\ cancelEvent \in BOOLEAN
      /\ faults \in 0 .. MaxFaults
  BY <1>1, RunnerIs
<1>3. AttKept /\ StatusMay /\ Calm
  BY <1>1, <1>2, AttSame, TaskSame, CalmKept
<1> QED
  BY <1>1, <1>2, <1>3, RunnerLeaves

(* Its first attempt is the one stored with the Task; any other is new.    *)
LEMMA AttemptBegins ==
  ASSUME IInv, NEW r \in Runner, StartAttempt(r)
  PROVE  /\ AttKept /\ Started'
         /\ (Latest.call)' = job[r].call /\ (Latest.grant)' = job[r].grant
<1>1. /\ job[r].pc = "claimed" /\ UNCHANGED conf
      /\ \/ /\ Latest.call = job[r].call /\ Latest.status = "QUEUED"
            /\ SaveAttempt(Len(att), "RUNNING")
         \/ /\ Latest.call # job[r].call \/ Latest.status # "QUEUED"
            /\ att' = Append(att, [call |-> job[r].call, status |-> "RUNNING",
                                   grant |-> job[r].grant])
  BY DEF StartAttempt
<1>2. RunnerFits(r, job[r]) /\ att # << >>
  BY <1>1, RunnerIs
<1>3. att \in Seq(Attempt) /\ Len(att) \in Nat
  BY DEF IInv, TypeOK
<1>4. CASE /\ Latest.call = job[r].call /\ Latest.status = "QUEUED"
           /\ SaveAttempt(Len(att), "RUNNING")
  <2>1. Latest.grant = job[r].grant
    BY <1>2, <1>4 DEF RunnerFits, Started
  <2> QED
    BY <1>1, <1>2, <1>3, <1>4, <2>1, AttSaved
<1>5. CASE /\ Latest.call # job[r].call \/ Latest.status # "QUEUED"
           /\ att' = Append(att, [call |-> job[r].call, status |-> "RUNNING", grant |-> job[r].grant])
  <2> DEFINE new == [call |-> job[r].call, status |-> "RUNNING", grant |-> job[r].grant]
  <2>1. Started
    BY <1>2, <1>5 DEF RunnerFits, Started
  <2>2. new \in Attempt /\ new.call = job[r].call /\ new.grant = job[r].grant /\ new.status = "RUNNING"
    BY <1>2 DEF RunnerFits, Attempt, Authority
  <2> HIDE DEF new
  <2>3. att' = Append(att, new)
    BY <1>5 DEF new
  <2>4. /\ att' \in Seq(Attempt) /\ Len(att') = Len(att) + 1 /\ att' # << >>
        /\ DOMAIN att' = 1 .. Len(att) + 1 /\ DOMAIN att = 1 .. Len(att)
        /\ att'[Len(att) + 1] = new /\ \A i \in DOMAIN att : att'[i] = att[i]
    BY <1>3, <2>2, <2>3
  <2>5. Latest' = new
    BY <2>4 DEF Latest
  <2>6. Started'
    BY <2>2, <2>4, <2>5 DEF Started
  <2>7. \A i \in DOMAIN att' : att'[i].grant # "approved"
    <3>1. job[r].grant # "approved"
      BY <1>2 DEF RunnerFits
    <3> QED
      BY <1>3, <2>2, <2>4, <3>1 DEF IInv, AttemptsOK
  <2>8. job[r].grant # "none" => conf[job[r].call] # "PENDING"
    BY <1>2 DEF RunnerFits, IInv, AttemptsOK
  <2>9. \A i \in DOMAIN att : i \in DOMAIN att' /\ att'[i].call = att[i].call
    BY <1>3, <2>4
  <2> QED
    BY <1>2, <2>2, <2>4, <2>5, <2>6, <2>7, <2>8, <2>9 DEF AttKept
<1> QED
  BY <1>1, <1>4, <1>5

LEMMA StartAttemptInv ==
  ASSUME IInv, NEW r \in Runner, StartAttempt(r) PROVE IInv'
<1> DEFINE j == [job[r] EXCEPT !.pc = "started", !.attempt = Len(att')]
<1>1. /\ job[r].pc = "claimed" /\ ~job[r].cut
      /\ UNCHANGED <<phase, task, call, conf, spent, effects, registered, cancelEvent, canceller,
                     recovery, faults>>
  BY DEF StartAttempt
<1>2. /\ ~Free(r) /\ r \in Worker /\ RunnerFits(r, job[r]) /\ StatusFits(r, job[r])
      /\ registered \in Runner \cup {None} /\ cancelEvent \in BOOLEAN /\ faults \in 0 .. MaxFaults
      /\ job[r] \in Job
  BY <1>1, RunnerIs
<1>3. /\ AttKept /\ Started' /\ (Latest.call)' = job[r].call /\ (Latest.grant)' = job[r].grant
      /\ Len(att') \in Nat
  BY AttemptBegins DEF AttKept
<1>4. j \in Job
  BY <1>2, <1>3 DEF Job, Running, InTry
<1>5. j.pc = "started" /\ j.call = job[r].call /\ j.grant = job[r].grant /\ j.cut = job[r].cut
  BY <1>2 DEF Job
<1>6. job' = [job EXCEPT ![r] = j]
  BY <1>2 DEF StartAttempt, IInv, TypeOK
<1> HIDE DEF j
<1>7. Stepped(r) /\ job'[r] = j
  BY <1>2, <1>4, <1>6, JobWritten DEF IInv
<1>8. StatusMay /\ Calm
  BY <1>1, <1>2, <1>3, TaskSame, CalmKept
<1>9. RunnerFits(r, job[r])'
  BY <1>1, <1>2, <1>3, <1>5, <1>7 DEF RunnerFits, AttKept, Running, InTry
<1>10. StatusFits(r, job[r])' /\ CallFits(job[r])'
  BY <1>1, <1>2, <1>5, <1>7 DEF StatusFits, CallFits, Parked
<1> QED
  BY <1>2, <1>3, <1>5, <1>7, <1>8, <1>9, <1>10, RunnerStep

LEMMA CheckCancelledInv ==
  ASSUME IInv, NEW r \in Runner, CheckCancelled(r) PROVE IInv'
<1>1. /\ job[r].pc = "started" /\ Move(r, IF cancelEvent THEN "finish" ELSE "invoke")
      /\ UNCHANGED <<phase, task, att, call, conf, spent, effects, registered, cancelEvent,
                     canceller, recovery, faults>>
  BY DEF CheckCancelled, durable
<1>2. /\ r \in Worker /\ registered \in Runner \cup {None} /\ cancelEvent \in BOOLEAN
      /\ faults \in 0 .. MaxFaults
  BY <1>1, RunnerIs
<1>3. Stepped(r) /\ SameLocals(r) /\ job'[r].pc \in {"finish", "invoke"}
  BY <1>1, <1>2, Moved DEF Place, Running, InTry, IInv
<1>4. Calm
  BY <1>1, <1>2, CalmKept
<1>5. CallFits(job[r])'
  BY <1>3 DEF CallFits
<1> QED
  BY <1>1, <1>3, <1>4, <1>5, RunnerMoves DEF SameLocals, InTry

LEMMA RereadInv ==
  ASSUME IInv, NEW r \in Runner, Reread(r) PROVE IInv'
<1> DEFINE j == [job[r] EXCEPT !.pc = "decide", !.snap = task]
<1>1. /\ job[r].pc = "result"
      /\ UNCHANGED <<phase, task, att, call, conf, spent, effects, registered, cancelEvent,
                     canceller, recovery, faults>>
  BY DEF Reread, durable
<1>2. /\ r \in Worker /\ registered \in Runner \cup {None} /\ cancelEvent \in BOOLEAN
      /\ faults \in 0 .. MaxFaults /\ job[r] \in Job /\ task \in Task /\ CallFits(job[r])
  BY <1>1, RunnerIs
<1>3. j \in Job
  BY <1>2 DEF Job, Running, InTry
<1>4. /\ j.pc = "decide" /\ j.call = job[r].call /\ j.grant = job[r].grant /\ j.cut = job[r].cut
      /\ j.result = job[r].result
  BY <1>2 DEF Job
<1>5. job' = [job EXCEPT ![r] = j]
  BY <1>2 DEF Reread, IInv, TypeOK
<1> HIDE DEF j
<1>6. Stepped(r) /\ job'[r] = j
  BY <1>2, <1>3, <1>5, JobWritten DEF IInv
<1>7. Calm
  BY <1>1, <1>2, CalmKept
<1>8. CallFits(job[r])'
  BY <1>1, <1>2, <1>4, <1>6 DEF CallFits
<1> QED
  BY <1>1, <1>4, <1>6, <1>7, <1>8, RunnerMoves DEF InTry

LEMMA NoticeCancelledInv ==
  ASSUME IInv, NEW r \in Runner, NoticeCancelled(r) PROVE IInv'
<1>1. /\ job[r].pc = "decide" /\ Move(r, "finish")
      /\ UNCHANGED <<phase, task, att, call, conf, spent, effects, registered, cancelEvent,
                     canceller, recovery, faults>>
  BY DEF NoticeCancelled, durable
<1>2. /\ r \in Worker /\ registered \in Runner \cup {None} /\ cancelEvent \in BOOLEAN
      /\ faults \in 0 .. MaxFaults
  BY <1>1, RunnerIs
<1>3. Stepped(r) /\ SameLocals(r) /\ job'[r].pc = "finish"
  BY <1>1, <1>2, Moved DEF Place, Running, InTry, IInv
<1>4. Calm
  BY <1>1, <1>2, CalmKept
<1>5. CallFits(job[r])'
  BY <1>3 DEF CallFits
<1> QED
  BY <1>1, <1>3, <1>4, <1>5, RunnerMoves DEF SameLocals, InTry

(* SaveTask writes the snapshot back, with its new status.                 *)
LEMMA TaskSaved ==
  ASSUME NEW snap \in Task, NEW s \in TaskStatus, SaveTask(snap, s)
  PROVE  task' \in Task /\ task'.status = s
BY DEF SaveTask, Task

LEMMA FinishSaved ==
  ASSUME task \in Task, FinishCancelled
  PROVE  task' \in Task /\ task'.status = "CANCELLED"
BY DEF FinishCancelled, Task, TaskStatus, Ended

LEMMA AwaitConfirmationInv ==
  ASSUME IInv, NEW r \in Runner, AwaitConfirmation(r) PROVE IInv'
<1>1. /\ job[r].pc = "decide" /\ SaveTask(job[r].snap, "WAITING_CONFIRMATION")
      /\ End(r) /\ registered' = None
      /\ UNCHANGED <<phase, att, call, conf, spent, effects, cancelEvent, canceller, recovery,
                     faults>>
  BY DEF AwaitConfirmation, Leave
<1>2. /\ ~Free(r) /\ RunnerFits(r, job[r]) /\ StatusFits(r, job[r]) /\ att # << >>
      /\ cancelEvent \in BOOLEAN /\ faults \in 0 .. MaxFaults /\ job[r] \in Job
  BY <1>1, RunnerIs
<1>3. AttKept /\ Calm
  BY <1>1, <1>2, AttSame, CalmKept
<1>4. task' \in Task /\ task'.status = "WAITING_CONFIRMATION"
  <2>1. job[r].snap \in Task
    BY <1>2 DEF Job
  <2> QED
    BY <1>1, <2>1, TaskSaved DEF TaskStatus
<1>5. Started'
  BY <1>1, <1>2, <1>3 DEF RunnerFits, InTry, AttKept
<1>6. SuccessHasEvidence'
  BY <1>1, <1>3, <1>4, Evident
<1>7. StatusMay
  BY <1>2, <1>4, <1>5, <1>6 DEF StatusMay, StatusFits
<1> QED
  BY <1>1, <1>2, <1>3, <1>7, RunnerLeaves

(* The verdict is that of the call, which an attempt names.                *)
LEMMA ConcludeInv ==
  ASSUME IInv, NEW r \in Runner, Conclude(r) PROVE IInv'
<1>1. /\ job[r].pc = "decide" /\ ~job[r].cut /\ job[r].result # "CONFIRMATION_REQUIRED"
      /\ SaveTask(job[r].snap, job[r].result) /\ Move(r, "attempt")
      /\ UNCHANGED <<phase, att, call, conf, spent, effects, registered, cancelEvent, canceller,
                     recovery, faults>>
  BY DEF Conclude
<1>2. /\ ~Free(r) /\ r \in Worker /\ RunnerFits(r, job[r]) /\ StatusFits(r, job[r]) /\ att # << >>
      /\ registered \in Runner \cup {None} /\ cancelEvent \in BOOLEAN /\ faults \in 0 .. MaxFaults
      /\ job[r] \in Job /\ CallFits(job[r])
  BY <1>1, RunnerIs
<1>3. /\ Stepped(r) /\ SameLocals(r) /\ job'[r].pc = "attempt" /\ job'[r].result = job[r].result
  BY <1>1, <1>2, Moved DEF Place, Running, InTry, IInv
<1>4. AttKept /\ Calm
  BY <1>1, <1>2, AttSame, CalmKept
<1>5. task' \in Task /\ task'.status = job[r].result /\ job[r].result \in {"SUCCEEDED", "FAILED"}
  <2>1. job[r].snap \in Task /\ job[r].result \in {"SUCCEEDED", "FAILED"}
    BY <1>1, <1>2 DEF Job, Result
  <2> QED
    BY <1>1, <2>1, TaskSaved DEF TaskStatus, Ended
<1>6. Started /\ Started' /\ Latest.call = job[r].call
  BY <1>1, <1>2, <1>4 DEF RunnerFits, InTry, AttKept
<1>7. SuccessHasEvidence'
  <2>1. Len(att) \in DOMAIN att /\ att[Len(att)].call = job[r].call
    BY <1>2, <1>6 DEF Latest, IInv, TypeOK
  <2>2. job[r].result = "SUCCEEDED" => call[job[r].call] = "SUCCEEDED"
    BY <1>1, <1>2 DEF CallFits
  <2> QED
    BY <1>1, <1>4, <1>5, <2>1, <2>2, Evident
<1>8. StatusMay
  BY <1>2, <1>5, <1>6, <1>7 DEF StatusMay, StatusFits
<1>9. RunnerFits(r, job[r])'
  <2>1. (Latest.call)' = Latest.call /\ (Latest.grant)' = Latest.grant
    BY <1>1 DEF Latest
  <2> QED
    BY <1>1, <1>2, <1>3, <1>6, <2>1 DEF RunnerFits, SameLocals, Running, InTry
<1>10. StatusFits(r, job[r])' /\ CallFits(job[r])'
  BY <1>1, <1>2, <1>3, <1>5 DEF StatusFits, CallFits, Parked, SameLocals
<1> QED
  BY <1>2, <1>3, <1>4, <1>8, <1>9, <1>10, RunnerStep

LEMMA CloseAttemptInv ==
  ASSUME IInv, NEW r \in Runner, CloseAttempt(r) PROVE IInv'
<1>1. /\ job[r].pc = "attempt" /\ SaveAttempt(job[r].attempt, job[r].result)
      /\ End(r) /\ registered' = None
      /\ UNCHANGED <<phase, task, call, conf, spent, effects, cancelEvent, canceller, recovery,
                     faults>>
  BY DEF CloseAttempt, Leave
<1>2. /\ ~Free(r) /\ StatusFits(r, job[r]) /\ att # << >> /\ cancelEvent \in BOOLEAN
      /\ faults \in 0 .. MaxFaults /\ job[r] \in Job
  BY <1>1, RunnerIs
<1>3. job[r].attempt \in Nat /\ job[r].result \in {"SUCCEEDED", "FAILED"}
  BY <1>1, <1>2 DEF StatusFits, Job, Result
<1>4. AttKept /\ StatusMay /\ Calm
  BY <1>1, <1>2, <1>3, AttSaved, TaskSame, CalmKept
<1> QED
  BY <1>1, <1>2, <1>4, RunnerLeaves

LEMMA RunnerFinishesInv ==
  ASSUME IInv, NEW r \in Runner, RunnerFinishes(r) PROVE IInv'
<1>1. /\ job[r].pc = "finish" /\ FinishCancelled /\ End(r) /\ registered' = None
      /\ UNCHANGED <<phase, att, call, conf, spent, effects, cancelEvent, canceller, recovery,
                     faults>>
  BY DEF RunnerFinishes, Leave
<1>2. /\ ~Free(r) /\ att # << >> /\ cancelEvent \in BOOLEAN /\ faults \in 0 .. MaxFaults
      /\ task \in Task
  BY <1>1, RunnerIs
<1>3. AttKept /\ Calm
  BY <1>1, <1>2, AttSame, CalmKept
<1>4. StatusMay
  BY <1>1, <1>2, <1>3, FinishSaved, Evident DEF StatusMay
<1> QED
  BY <1>1, <1>2, <1>3, <1>4, RunnerLeaves

LEMMA InterruptedInv ==
  ASSUME IInv, NEW r \in Runner, Interrupted(r) PROVE IInv'
<1>1. /\ job[r].cut /\ job[r].pc # "gone"
      /\ UNCHANGED <<phase, task, att, call, conf, spent, effects, cancelEvent, canceller,
                     recovery, faults>>
  BY DEF Interrupted, durable, InTry
<1>2. /\ ~Free(r) /\ r \in Worker /\ RunnerFits(r, job[r]) /\ att # << >>
      /\ registered \in Runner \cup {None} /\ cancelEvent \in BOOLEAN /\ faults \in 0 .. MaxFaults
      /\ job[r] \in Job
  BY <1>1, RunnerIs
<1>3. CASE End(r) /\ registered' \in {registered, None}
  <2>1. AttKept /\ StatusMay /\ Calm
    BY <1>1, <1>2, <1>3, AttSame, TaskSame, CalmKept
  <2> QED
    BY <1>2, <1>3, <2>1, RunnerLeaves
<1>4. CASE /\ job[r].pc \in InTry \cup {"finish"} /\ UNCHANGED registered
           /\ job' = [job EXCEPT ![r] = [@ EXCEPT !.pc = "finish", !.cut = FALSE]]
  <2> DEFINE j == [job[r] EXCEPT !.pc = "finish", !.cut = FALSE]
  <2>1. j \in Job
    BY <1>2 DEF Job, Running
  <2>2. j.pc = "finish" /\ j.call = job[r].call /\ j.grant = job[r].grant /\ ~j.cut
    BY <1>2 DEF Job
  <2>3. job' = [job EXCEPT ![r] = j]
    BY <1>2, <1>4 DEF IInv, TypeOK
  <2> HIDE DEF j
  <2>4. Stepped(r) /\ job'[r] = j
    BY <1>2, <2>1, <2>3, JobWritten DEF IInv
  <2>5. Calm
    BY <1>1, <1>2, <1>4, CalmKept
  <2>6. CallFits(job[r])'
    BY <2>2, <2>4 DEF CallFits
  <2> QED
    BY <1>1, <1>4, <2>2, <2>4, <2>5, <2>6, RunnerMoves
<1> QED
  BY <1>3, <1>4 DEF Interrupted, Leave

LEMMA TripInv ==
  ASSUME IInv, NEW r \in Runner, Trip(r) PROVE IInv'
<1>1. /\ job[r].pc \in InTry /\ faults < MaxFaults /\ faults' = faults + 1
      /\ task' = IF task.status \in {"CANCELLED", "SUCCEEDED"} THEN task
                 ELSE [task EXCEPT !.status = "FAILED"]
      /\ End(r) /\ registered' = None
      /\ UNCHANGED <<phase, att, call, conf, spent, effects, cancelEvent, canceller, recovery>>
  BY DEF Trip, Leave
<1>2. /\ ~Free(r) /\ RunnerFits(r, job[r]) /\ StatusFits(r, job[r]) /\ att # << >>
      /\ cancelEvent \in BOOLEAN /\ faults \in 0 .. MaxFaults /\ task \in Task
  BY <1>1, RunnerIs DEF InTry
<1>3. faults' \in 0 .. MaxFaults
  BY <1>1, <1>2, TaskAssumption DEF TaskAssumption
<1>4. AttKept /\ Calm
  BY <1>1, <1>2, <1>3, AttSame, CalmKept
<1>5. Started'
  BY <1>1, <1>2, <1>4 DEF RunnerFits, AttKept
<1>6. CASE task' = task
  BY <1>1, <1>2, <1>4, <1>6, TaskSame, RunnerLeaves
<1>7. CASE task' = [task EXCEPT !.status = "FAILED"]
  <2>1. task' \in Task /\ task'.status = "FAILED"
    BY <1>2, <1>7 DEF Task, TaskStatus, Ended
  <2>2. StatusMay
    BY <1>1, <1>2, <1>4, <1>5, <2>1, Evident DEF StatusMay, StatusFits
  <2> QED
    BY <1>1, <1>2, <1>4, <2>2, RunnerLeaves
<1> QED
  BY <1>1, <1>6, <1>7

LEMMA RetryInv ==
  ASSUME IInv, NEW r \in Runner, NEW c \in Call, Retry(r, c) PROVE IInv'
<1> DEFINE j == [Gone EXCEPT !.pc = "retry", !.call = c, !.snap = task]
<1>1. /\ phase = "up" /\ task.status = "FAILED" /\ registered # r /\ canceller.pc = "idle"
      /\ \A q \in Runner : Free(q)
      /\ UNCHANGED <<phase, task, att, call, conf, spent, effects, registered, cancelEvent,
                     canceller, recovery, faults>>
  BY DEF Retry, Fresh, Idle, durable
<1>2. /\ r \in Worker /\ registered \in Runner \cup {None} /\ cancelEvent \in BOOLEAN
      /\ faults \in 0 .. MaxFaults /\ task \in Task /\ r \notin Approver
  BY TaskAssumption DEF IInv, TypeOK, Worker, TaskAssumption
<1>3. att # << >> /\ Started /\ \A d \in Call : ~Parked(d)
  BY <1>1 DEF IInv, RowsOK, AttemptsOK
<1>4. j \in Job
  BY <1>2, GoneTyped DEF Job
<1>5. j.pc = "retry" /\ j.call = c /\ j.grant = "none" /\ ~j.cut
  BY DEF Gone
<1>6. job' = [job EXCEPT ![r] = j]
  BY DEF Retry
<1> HIDE DEF j
<1>7. Stepped(r) /\ job'[r] = j
  BY <1>2, <1>4, <1>6, JobWritten DEF IInv
<1>8. AttKept /\ StatusMay /\ Calm
  BY <1>1, <1>2, <1>3, AttSame, TaskSame, CalmKept
<1>9. Alone'
  BY <1>1, <1>2, <1>5, <1>7, AloneKept
<1>10. RunnerFits(r, job[r])'
  <2>1. Started'
    BY <1>3, <1>8 DEF AttKept
  <2> QED
    BY <1>1, <1>3, <1>5, <1>7, <2>1 DEF RunnerFits, Running, InTry
<1>11. StatusFits(r, job[r])' /\ CallFits(job[r])'
  <2>1. Started'
    BY <1>3, <1>8 DEF AttKept
  <2> QED
    BY <1>1, <1>3, <1>5, <1>7, <2>1 DEF StatusFits, CallFits, Parked
<1>12. ASSUME NEW q \in Runner
       PROVE  (Free(q) \/ (RunnerFits(q, job[q]) /\ StatusFits(q, job[q])))'
  <2>1. CASE q = r
    BY <1>10, <1>11, <2>1
  <2>2. CASE q # r
    BY <1>1, <1>7, <1>12, <2>2 DEF Stepped, Free, Worker
  <2> QED
    BY <2>1, <2>2
<1> QED
  BY <1>1, <1>2, <1>7, <1>8, <1>9, <1>11, <1>12, WorkerStep

(* The runners fit what a step of somebody else leaves them.               *)
LEMMA RunnersStay ==
  ASSUME IInv, UNCHANGED <<phase, registered, call, canceller>>,
         \A r \in Runner : job'[r] = job[r],
         att # << >> => att' # << >> /\ (Latest.call)' = Latest.call /\ (Latest.grant)' = Latest.grant,
         Started' <=> Started,
         task'.status \in {task.status, "SUCCEEDED", "FAILED"}
  PROVE  \A r \in Runner : (Free(r) \/ (RunnerFits(r, job[r]) /\ StatusFits(r, job[r])))'
<1> SUFFICES ASSUME NEW r \in Runner
             PROVE  (Free(r) \/ (RunnerFits(r, job[r]) /\ StatusFits(r, job[r])))'
  OBVIOUS
<1>1. CASE Free(r)
  BY <1>1 DEF Free
<1>2. CASE ~Free(r)
  <2>1. RunnerFits(r, job[r]) /\ StatusFits(r, job[r]) /\ att # << >>
    BY <1>2 DEF IInv, RunnersFit, StatusesFit, RunnerFits
  <2>2. RunnerFits(r, job[r])'
    BY <2>1 DEF RunnerFits
  <2>3. StatusFits(r, job[r])'
    BY <2>1 DEF StatusFits, Parked
  <2> QED
    BY <2>2, <2>3
<1> QED
  BY <1>1, <1>2

------------------------------------------------------------------------------
(* The approvers.                                                          *)

LEMMA ApproverStep ==
  ASSUME IInv, NEW a \in Approver, Stepped(a), AttKept, StatusMay, Calm, UNCHANGED registered,
         phase \in {"up", "stopping"}, Started,
         (Latest.call)' = Latest.call, (Latest.grant)' = Latest.grant,
         task'.status \in {task.status, "SUCCEEDED", "FAILED"},
         (Free(a) \/ (ApproverFits(job[a]) /\ CallFits(job[a])))',
         Free(a)' \/ job'[a].pc \notin {"acting", "acted"}
  PROVE  IInv'
<1>1. a \in Worker /\ a \notin Runner
  BY TaskAssumption DEF Worker, TaskAssumption
<1>2. \A r \in Runner : job'[r] = job[r]
  BY <1>1 DEF Stepped, Worker
<1>3. Started' /\ att' # << >>
  BY DEF AttKept
<1>4. UNCHANGED <<phase, call, canceller>>
  BY DEF Calm
<1>5. \A r \in Runner : (Free(r) \/ (RunnerFits(r, job[r]) /\ StatusFits(r, job[r])))'
  BY <1>2, <1>3, <1>4, RunnersStay
<1>6. Alone'
  BY <1>1, AloneKept
<1> QED
  BY <1>1, <1>5, <1>6, WorkerStep

LEMMA ApproverIs ==
  ASSUME IInv, NEW a \in Approver, job[a].pc # "gone"
  PROVE  /\ ~Free(a) /\ a \in Worker /\ a \notin Runner /\ ApproverFits(job[a]) /\ CallFits(job[a])
         /\ Started /\ att # << >> /\ phase \in {"up", "stopping"} /\ task.status # "NONE"
         /\ registered \in Runner \cup {None} /\ cancelEvent \in BOOLEAN /\ faults \in 0 .. MaxFaults
         /\ job[a] \in Job /\ task \in Task /\ Len(att) \in Nat
<1>1. ~Free(a) /\ a \in Worker /\ a \notin Runner
  BY TaskAssumption DEF Free, Gone, Worker, TaskAssumption
<1> QED
  BY <1>1, AtWork DEF IInv, TypeOK

LEMMA ApproverLeaves ==
  ASSUME IInv, NEW a \in Approver, job[a].pc # "gone", End(a), AttKept, StatusMay, Calm,
         UNCHANGED <<registered, task>>,
         (Latest.call)' = Latest.call, (Latest.grant)' = Latest.grant
  PROVE  IInv'
<1>1. Stepped(a) /\ Free(a)'
  BY ApproverIs, Left DEF IInv
<1> QED
  BY <1>1, ApproverIs, ApproverStep

LEMMA ApproveInv ==
  ASSUME IInv, NEW a \in Approver, NEW c \in Call, NEW t \in BOOLEAN, Approve(a, c, t) PROVE IInv'
<1> DEFINE j == [Gone EXCEPT !.pc = "approve", !.call = c, !.grant = "approved", !.snap = task,
                             !.forTask = t]
<1>1. /\ phase = "up" /\ conf[c] = "PENDING" /\ (t => task.status = "WAITING_CONFIRMATION")
      /\ UNCHANGED <<phase, task, att, call, conf, spent, effects, registered, cancelEvent,
                     canceller, recovery, faults>>
  BY DEF Approve, durable
<1>2. /\ a \in Worker /\ registered \in Runner \cup {None} /\ cancelEvent \in BOOLEAN
      /\ faults \in 0 .. MaxFaults /\ task \in Task
  BY DEF IInv, TypeOK, Worker
<1>3. Started /\ att # << >>
  BY <1>1 DEF IInv, AttemptsOK, Started
<1>4. j \in Job
  BY <1>2, GoneTyped DEF Job, Authority
<1>5. /\ j.pc = "approve" /\ j.call = c /\ j.grant = "approved" /\ ~j.cut /\ j.snap = task
      /\ (j.forTask <=> t)
  BY DEF Gone
<1>6. job' = [job EXCEPT ![a] = j]
  BY DEF Approve
<1> HIDE DEF j
<1>7. Stepped(a) /\ job'[a] = j
  BY <1>2, <1>4, <1>6, JobWritten DEF IInv
<1>8. AttKept /\ StatusMay /\ Calm
  BY <1>1, <1>2, <1>3, AttSame, TaskSame, CalmKept
<1>9. ApproverFits(job[a])'
  <2>1. t => \A d \in Call : ~Parked(d)
    BY <1>1 DEF IInv, RowsOK
  <2> QED
    BY <1>1, <1>5, <1>7, <2>1 DEF ApproverFits, Parked
<1>10. CallFits(job[a])'
  BY <1>5, <1>7 DEF CallFits
<1>11. (Latest.call)' = Latest.call /\ (Latest.grant)' = Latest.grant
  BY <1>1 DEF Latest
<1> QED
  BY <1>1, <1>3, <1>5, <1>7, <1>8, <1>9, <1>10, <1>11, ApproverStep

LEMMA ResolvedByOtherInv ==
  ASSUME IInv, NEW a \in Approver, ResolvedByOther(a) PROVE IInv'
<1>1. /\ job[a].pc = "approve" /\ End(a)
      /\ UNCHANGED <<phase, task, att, call, conf, spent, effects, registered, cancelEvent,
                     canceller, recovery, faults>>
  BY DEF ResolvedByOther, durable
<1>2. AttKept /\ StatusMay /\ Calm
  BY <1>1, ApproverIs, AttSame, TaskSame, CalmKept
<1>3. (Latest.call)' = Latest.call /\ (Latest.grant)' = Latest.grant
  BY <1>1 DEF Latest
<1> QED
  BY <1>1, <1>2, <1>3, ApproverLeaves

(* The approval was of a call that an attempt names.                       *)
LEMMA ApproverConcludesInv ==
  ASSUME IInv, NEW a \in Approver, ApproverConcludes(a) PROVE IInv'
<1> DEFINE s == IF job[a].result = "SUCCEEDED" THEN "SUCCEEDED" ELSE "FAILED"
<1>1. /\ job[a].pc = "result"
      /\ UNCHANGED <<phase, att, call, conf, spent, effects, registered, cancelEvent, canceller,
                     recovery, faults>>
  BY DEF ApproverConcludes
<1>2. /\ a \in Worker /\ ApproverFits(job[a]) /\ CallFits(job[a]) /\ Started /\ att # << >>
      /\ phase \in {"up", "stopping"} /\ registered \in Runner \cup {None}
      /\ cancelEvent \in BOOLEAN /\ faults \in 0 .. MaxFaults /\ job[a] \in Job /\ task \in Task
  BY <1>1, ApproverIs
<1>3. AttKept /\ Calm
  BY <1>1, <1>2, AttSame, CalmKept
<1>4. (Latest.call)' = Latest.call /\ (Latest.grant)' = Latest.grant
  BY <1>1 DEF Latest
<1>5. CASE ~job[a].forTask /\ End(a) /\ UNCHANGED task
  BY <1>1, <1>3, <1>4, <1>5, TaskSame, ApproverLeaves
<1>6. CASE job[a].forTask /\ SaveTask(job[a].snap, s) /\ Move(a, "attempt")
  <2>1. /\ Stepped(a) /\ SameLocals(a) /\ job'[a].pc = "attempt"
        /\ job'[a].snap = job[a].snap /\ job'[a].result = job[a].result
    BY <1>2, <1>6, Moved DEF Place, Running, InTry, IInv
  <2>2. task' \in Task /\ task'.status = s
    <3>1. job[a].snap \in Task
      BY <1>2 DEF Job
    <3> QED
      BY <1>6, <3>1, TaskSaved DEF TaskStatus, Ended
  <2>3. SuccessHasEvidence'
    <3>1. job[a].result = "SUCCEEDED" => call[job[a].call] = "SUCCEEDED"
      BY <1>1, <1>2 DEF CallFits
    <3>2. \E i \in DOMAIN att : att[i].call = job[a].call
      BY <1>2 DEF ApproverFits, IInv, RowsOK
    <3>3. CASE job[a].result # "SUCCEEDED"
      BY <1>1, <1>3, <2>2, <3>3, Evident
    <3>4. CASE \E i \in DOMAIN att : call[att[i].call] = "SUCCEEDED"
      BY <1>1, <1>3, <3>4, Evident
    <3> QED
      BY <3>1, <3>2, <3>3, <3>4
  <2>4. Started' /\ \A c \in Call : ~Parked(c)
    BY <1>2, <1>3, <1>6 DEF ApproverFits, AttKept
  <2>5. StatusMay
    BY <2>2, <2>3, <2>4 DEF StatusMay
  <2>6. ApproverFits(job[a])'
    BY <1>1, <1>2, <1>3, <2>1 DEF ApproverFits, SameLocals, Parked
  <2>7. CallFits(job[a])'
    BY <1>1, <1>2, <2>1 DEF CallFits, SameLocals
  <2> QED
    BY <1>1, <1>2, <1>3, <1>4, <2>1, <2>2, <2>5, <2>6, <2>7, ApproverStep
<1> QED
  BY <1>5, <1>6 DEF ApproverConcludes

LEMMA ApproverClosesAttemptInv ==
  ASSUME IInv, NEW a \in Approver, ApproverClosesAttempt(a) PROVE IInv'
<1> DEFINE s == IF job[a].result = "SUCCEEDED" THEN "SUCCEEDED" ELSE "FAILED"
<1>1. /\ job[a].pc = "attempt" /\ SaveAttempt(Len(att), s) /\ End(a)
      /\ UNCHANGED <<phase, task, call, conf, spent, effects, registered, cancelEvent, canceller,
                     recovery, faults>>
  BY DEF ApproverClosesAttempt
<1>2. /\ att # << >> /\ Len(att) \in Nat /\ registered \in Runner \cup {None}
      /\ cancelEvent \in BOOLEAN /\ faults \in 0 .. MaxFaults
  BY <1>1, ApproverIs
<1>3. s \in {"RUNNING", "SUCCEEDED", "FAILED"}
  OBVIOUS
<1> HIDE DEF s
<1>4. AttKept /\ (Latest.call)' = Latest.call /\ (Latest.grant)' = Latest.grant
  BY <1>1, <1>2, <1>3, AttSaved
<1>5. StatusMay /\ Calm
  BY <1>1, <1>2, <1>4, TaskSame, CalmKept
<1> QED
  BY <1>1, <1>4, <1>5, ApproverLeaves

LEMMA BreakInv ==
  ASSUME IInv, NEW w \in Worker, Break(w) PROVE IInv'
<1>1. /\ ~Free(w) /\ End(w) /\ faults < MaxFaults /\ faults' = faults + 1
      /\ registered' = IF job[w].pc = "finish" THEN None ELSE registered
      /\ UNCHANGED <<phase, task, att, call, conf, spent, effects, cancelEvent, canceller, recovery>>
  BY DEF Break, durable
<1>2. /\ att # << >> /\ registered \in Runner \cup {None} /\ cancelEvent \in BOOLEAN
      /\ faults' \in 0 .. MaxFaults /\ job[w].pc # "gone"
  BY <1>1, AtWork, TaskAssumption DEF IInv, TypeOK, TaskAssumption
<1>3. AttKept /\ StatusMay /\ Calm
  BY <1>1, <1>2, AttSame, TaskSame, CalmKept
<1>4. CASE w \in Runner
  BY <1>1, <1>3, <1>4, RunnerLeaves
<1>5. CASE w \in Approver
  <2>1. job[w].pc # "finish"
    BY <1>2, <1>5, ApproverIs DEF ApproverFits
  <2>2. (Latest.call)' = Latest.call /\ (Latest.grant)' = Latest.grant
    BY <1>1 DEF Latest
  <2> QED
    BY <1>1, <1>2, <1>3, <1>5, <2>1, <2>2, ApproverLeaves
<1> QED
  BY <1>4, <1>5 DEF Worker

------------------------------------------------------------------------------
(* invoke.                                                                 *)

LEMMA InvokeAnsweredInv ==
  ASSUME IInv, NEW w \in Worker, InvokeAnswered(w) PROVE IInv'
<1>1. /\ job[w].pc = "invoke"
      /\ UNCHANGED <<phase, task, att, call, conf, spent, effects, registered, cancelEvent,
                     canceller, recovery, faults>>
  BY DEF InvokeAnswered, durable
<1>2. PICK s \in Result : Returned(w, s) /\ (s = "SUCCEEDED" => call[job[w].call] = "SUCCEEDED")
  BY DEF InvokeAnswered, Result
<1>3. /\ Stepped(w) /\ SameLocals(w) /\ job'[w].pc = "result" /\ job'[w].result = s
      /\ job'[w].snap = job[w].snap
  BY <1>2, ReturnedWith DEF IInv
<1>4. CallFits(job[w])'
  BY <1>1, <1>2, <1>3 DEF CallFits, SameLocals
<1>5. CASE w \in Runner
  <2>1. Calm
    BY <1>1, <1>5, RunnerIs, CalmKept
  <2> QED
    BY <1>1, <1>3, <1>4, <1>5, <2>1, RunnerMoves DEF SameLocals, InTry
<1>6. CASE w \in Approver
  <2>1. /\ ApproverFits(job[w]) /\ Started /\ att # << >> /\ phase \in {"up", "stopping"}
    BY <1>1, <1>6, ApproverIs
  <2>2. AttKept /\ StatusMay /\ Calm
    BY <1>1, <1>6, ApproverIs, AttSame, TaskSame, CalmKept
  <2>3. (Latest.call)' = Latest.call /\ (Latest.grant)' = Latest.grant
    BY <1>1 DEF Latest
  <2>4. ApproverFits(job[w])'
    BY <1>1, <1>3, <2>1 DEF ApproverFits, SameLocals, Parked
  <2> QED
    BY <1>1, <1>3, <1>4, <1>6, <2>1, <2>2, <2>3, <2>4, ApproverStep
<1> QED
  BY <1>5, <1>6 DEF Worker

(* What a step inside invoke may do to its call.                           *)
CallMay(c) ==
  /\ call' \in [Call -> CallStatus] /\ conf' \in [Call -> {"NONE", "PENDING", "APPROVED", "DENIED"}]
  /\ spent' \in BOOLEAN /\ effects' \in [Call -> Nat]
  /\ \A d \in Call \ {c} :
       call'[d] = call[d] /\ conf'[d] = conf[d] /\ effects'[d] = effects[d]
  /\ call[c] # "SUCCEEDED"
  /\ call'[c] \notin {"ABSENT", "QUEUED", "RECOVERY_REQUIRED"}
  /\ call'[c] = "SUCCEEDED" => effects'[c] > 0
  /\ \/ conf'[c] = conf[c] /\ conf[c] # "PENDING"
     \/ /\ conf'[c] = "PENDING" /\ call[c] \in {"ABSENT", "QUEUED"}
        /\ call'[c] = "WAITING_CONFIRMATION" /\ (Latest.call = c => Latest.grant = "none")
  /\ c \notin RetrySafe => effects'[c] <= 1
  /\ c \notin RetrySafe /\ call'[c] = "WAITING_CONFIRMATION" => effects'[c] = 0

(* Who invokes a call has an attempt that names it.                        *)
LEMMA Invoking ==
  ASSUME IInv, NEW w \in Worker, job[w].pc \in {"invoke", "acting", "acted"}
  PROVE  /\ ~Free(w) /\ Started /\ att # << >> /\ job[w].call \in Call /\ CallFits(job[w])
         /\ phase \in {"up", "stopping"} /\ recovery = "idle"
         /\ \E i \in DOMAIN att : att[i].call = job[w].call
         /\ w \in Runner => /\ RunnerFits(w, job[w]) /\ StatusFits(w, job[w])
                            /\ Latest.call = job[w].call /\ Latest.grant = job[w].grant
         /\ w \in Approver => ApproverFits(job[w]) /\ w \notin Runner
<1>1. /\ ~Free(w) /\ att # << >> /\ job[w].call \in Call /\ CallFits(job[w])
      /\ phase \in {"up", "stopping"} /\ recovery = "idle"
      /\ w \in Runner => RunnerFits(w, job[w]) /\ StatusFits(w, job[w])
      /\ w \in Approver => ApproverFits(job[w]) /\ Started
  BY AtWork DEF Free, Gone
<1>2. w \in Runner => Started /\ Latest.call = job[w].call /\ Latest.grant = job[w].grant
  BY <1>1 DEF RunnerFits, InTry
<1>3. w \in Runner \/ w \in Approver
  BY DEF Worker
<1>4. w \in Approver => w \notin Runner
  BY TaskAssumption DEF TaskAssumption
<1>5. \E i \in DOMAIN att : att[i].call = job[w].call
  <2>1. CASE w \in Runner
    <3>1. Len(att) \in DOMAIN att
      BY <1>1 DEF IInv, TypeOK
    <3> QED
      BY <1>2, <2>1, <3>1 DEF Latest
  <2>2. CASE w \in Approver
    BY <1>1, <2>2 DEF ApproverFits, IInv, RowsOK
  <2> QED
    BY <1>3, <2>1, <2>2
<1> QED
  BY <1>1, <1>2, <1>3, <1>4, <1>5

LEMMA CallStep ==
  ASSUME IInv, NEW w \in Worker, job[w].pc \in {"invoke", "acting", "acted"},
         job[w].pc \in {"acting", "acted"} \/ Unlocked,
         Stepped(w), SameLocals(w), job'[w].snap = job[w].snap,
         job'[w].pc \in {"acting", "acted", "result"},
         UNCHANGED <<phase, task, att, registered, cancelEvent, canceller, recovery, faults>>,
         CallMay(job[w].call), CallFits(job[w])'
  PROVE  IInv'
<1> DEFINE c == job[w].call
<1>1. /\ ~Free(w) /\ Started /\ att # << >> /\ c \in Call
      /\ phase \in {"up", "stopping"} /\ recovery = "idle"
      /\ \E i \in DOMAIN att : att[i].call = c
      /\ w \in Runner => RunnerFits(w, job[w]) /\ StatusFits(w, job[w])
      /\ w \in Approver => ApproverFits(job[w]) /\ w \notin Runner
  BY Invoking
<1>2. ~Free(w)'
  BY DEF Free, Gone
<1>3. Started' = Started /\ (Latest.call)' = Latest.call /\ (Latest.grant)' = Latest.grant
  BY DEF Started, Latest
<1>4. CallMay(c)
  OBVIOUS
<1>5. \A d \in Call : Parked(d)' => Parked(d)
  BY <1>4 DEF CallMay, Parked
<1> HIDE DEF c
<1>6. TypeOK'
  BY <1>4 DEF IInv, TypeOK, Stepped, CallMay
<1>7. Alone'
  BY <1>1, AloneKept
<1>8. \A v \in Worker : v # w => job'[v] = job[v] /\ job[v].pc \notin {"acting", "acted"}
  BY DEF IInv, Alone, Unlocked, Stepped
<1>9. RunnersFit' /\ StatusesFit'
  <2> SUFFICES ASSUME NEW r \in Runner
               PROVE  (Free(r) \/ (RunnerFits(r, job[r]) /\ StatusFits(r, job[r])))'
    BY DEF RunnersFit, StatusesFit
  <2>1. Free(r) \/ (RunnerFits(r, job[r]) /\ StatusFits(r, job[r]))
    BY DEF IInv, RunnersFit, StatusesFit
  <2>2. CASE r = w
    <3>1. RunnerFits(r, job[r]) /\ StatusFits(r, job[r])
      BY <1>1, <2>2
    <3>2. RunnerFits(r, job[r])'
      BY <1>3, <2>2, <3>1 DEF RunnerFits, SameLocals, Running, InTry
    <3>3. StatusFits(r, job[r])'
      BY <1>5, <2>2, <3>1 DEF StatusFits, SameLocals
    <3> QED
      BY <3>2, <3>3
  <2>3. CASE r # w
    <3>1. job'[r] = job[r]
      BY <1>8, <2>3 DEF Worker
    <3> QED
      BY <1>3, <1>5, <2>1, <3>1 DEF Free, RunnerFits, StatusFits
  <2> QED
    BY <2>2, <2>3
<1>10. ApproversFit'
  <2> SUFFICES ASSUME NEW a \in Approver PROVE (Free(a) \/ ApproverFits(job[a]))'
    BY DEF ApproversFit
  <2>1. \A d \in Call : conf[d] # "NONE" => conf'[d] # "NONE"
    BY <1>4 DEF CallMay
  <2>2. \A d \in Call : conf[d] # "PENDING" /\ call[d] \notin {"ABSENT", "QUEUED", "RECOVERY_REQUIRED"}
          => conf'[d] # "PENDING" /\ call'[d] \notin {"ABSENT", "QUEUED", "RECOVERY_REQUIRED"}
    BY <1>4 DEF CallMay
  <2>3. CASE a = w
    <3>1. ApproverFits(job[a])
      BY <1>1, <2>3
    <3> QED
      BY <1>5, <2>1, <2>2, <2>3, <3>1 DEF ApproverFits, SameLocals
  <2>4. CASE a # w
    <3>1. job'[a] = job[a]
      BY <1>8, <2>4 DEF Worker
    <3>2. Free(a) \/ ApproverFits(job[a])
      BY DEF IInv, ApproversFit
    <3> QED
      BY <1>5, <2>1, <2>2, <3>1, <3>2 DEF Free, ApproverFits
  <2> QED
    BY <2>3, <2>4
<1>11. CallsFit'
  <2>1. ASSUME NEW v \in Worker, v # w PROVE (Free(v) \/ CallFits(job[v]))'
    <3>1. job'[v] = job[v] /\ job[v].pc \notin {"acting", "acted"}
      BY <1>8, <2>1
    <3>2. CASE Free(v)
      BY <3>1, <3>2 DEF Free
    <3>3. CASE ~Free(v)
      <4>1. CallFits(job[v]) /\ job[v].call \in Call
        BY <2>1, <3>3, AtWork
      <4> QED
        BY <1>4, <3>1, <4>1 DEF CallFits, CallMay
    <3> QED
      BY <3>2, <3>3
  <2> QED
    BY <2>1 DEF CallsFit
<1>12. RowsOK'
  <2> SUFFICES ASSUME NEW d \in Call
               PROVE  /\ call'[d] = "SUCCEEDED" => effects'[d] > 0
                      /\ conf'[d] = "PENDING" => call'[d] = "WAITING_CONFIRMATION"
                      /\ conf'[d] # "NONE" => \E i \in DOMAIN att : att[i].call = d
                      /\ d \notin RetrySafe => effects'[d] <= 1
                      /\ d \notin RetrySafe /\ call'[d] \in {"ABSENT", "QUEUED", "WAITING_CONFIRMATION"} =>
                           effects'[d] = 0
    BY <1>1, <1>5 DEF IInv, RowsOK
  <2>1. CASE d = c
    BY <1>1, <1>4, <2>1 DEF CallMay
  <2>2. CASE d # c
    <3>1. call'[d] = call[d] /\ conf'[d] = conf[d] /\ effects'[d] = effects[d]
      BY <1>4, <2>2 DEF CallMay
    <3> QED
      BY <3>1 DEF IInv, RowsOK
  <2> QED
    BY <2>1, <2>2
<1>13. AttemptsOK'
  <2>1. Latest.grant # "none" => conf'[Latest.call] # "PENDING"
    <3>1. Latest.call \in Call
      BY <1>1, AttemptTyped DEF Latest, IInv, TypeOK
    <3> QED
      BY <1>1, <1>4, <3>1 DEF CallMay, IInv, AttemptsOK
  <2> QED
    BY <1>1, <1>3, <2>1 DEF IInv, AttemptsOK
<1>14. CancelOK' /\ RecoveryOK'
  BY <1>1 DEF IInv, CancelOK, RecoveryOK
<1>15. SuccessHasEvidence'
  <2>1. \A i \in DOMAIN att : att[i].call \in Call
    BY AttemptTyped DEF IInv, TypeOK
  <2>2. \A d \in Call : call[d] = "SUCCEEDED" => call'[d] = call[d] /\ effects'[d] = effects[d]
    BY <1>4 DEF CallMay
  <2> QED
    BY <2>1, <2>2 DEF IInv, SuccessHasEvidence
<1> QED
  BY <1>6, <1>7, <1>9, <1>10, <1>11, <1>12, <1>13, <1>14, <1>15 DEF IInv

(* A call that proceeds has not taken effect, unless it may be repeated.   *)
LEMMA Proceeding ==
  ASSUME IInv, NEW w \in Worker, Proceeds(w)
  PROVE  /\ job[w].pc = "invoke" /\ ~job[w].cut /\ Unlocked /\ job[w].call \in Call
         /\ call[job[w].call] \in {"ABSENT", "QUEUED", "WAITING_CONFIRMATION"}
         /\ job[w].call \notin RetrySafe => effects[job[w].call] = 0
         /\ job[w].grant = "none" =>
              /\ w \in Runner /\ call[job[w].call] \in {"ABSENT", "QUEUED"}
              /\ Latest.call = job[w].call /\ Latest.grant = "none"
         /\ conf[job[w].call] = "PENDING" => job[w].grant = "none"
<1>1. /\ job[w].pc = "invoke" /\ ~job[w].cut /\ Unlocked
      /\ \/ call[job[w].call] \in {"ABSENT", "QUEUED", "RECOVERY_REQUIRED"}
         \/ call[job[w].call] = "WAITING_CONFIRMATION" /\ job[w].grant # "none"
  BY DEF Proceeds
<1>2. /\ job[w].call \in Call
      /\ w \in Runner => /\ RunnerFits(w, job[w]) /\ StatusFits(w, job[w])
                         /\ Latest.call = job[w].call /\ Latest.grant = job[w].grant
      /\ w \in Approver => ApproverFits(job[w]) /\ w \notin Runner
  BY <1>1, Invoking
<1>3. call[job[w].call] # "RECOVERY_REQUIRED"
  BY <1>1, <1>2 DEF StatusFits, ApproverFits, Parked, Worker
<1>4. job[w].grant = "none" => w \in Runner
  BY <1>2 DEF ApproverFits, Worker
<1>5. conf[job[w].call] = "PENDING" => job[w].grant = "none"
  BY <1>1, <1>2 DEF ApproverFits, Worker, IInv, AttemptsOK, Started, RunnerFits
<1>6. job[w].call \notin RetrySafe => effects[job[w].call] = 0
  BY <1>1, <1>2, <1>3 DEF IInv, RowsOK
<1> QED
  BY <1>1, <1>2, <1>3, <1>4, <1>5, <1>6

(* What a step writes for its call leaves the others theirs.               *)
LEMMA CallSaved ==
  ASSUME IInv, NEW c \in Call, NEW s \in CallStatus, SaveCall(c, s)
  PROVE  call' \in [Call -> CallStatus] /\ call'[c] = s /\ \A d \in Call \ {c} : call'[d] = call[d]
BY DEF SaveCall, IInv, TypeOK

LEMMA InvokeAsksInv ==
  ASSUME IInv, NEW w \in Worker, InvokeAsks(w) PROVE IInv'
<1> DEFINE c == job[w].call
<1>1. /\ Proceeds(w) /\ job[w].grant = "none" /\ conf' = [conf EXCEPT ![c] = "PENDING"]
      /\ SaveCall(c, "WAITING_CONFIRMATION") /\ Returned(w, "CONFIRMATION_REQUIRED")
      /\ UNCHANGED <<phase, task, att, spent, effects, registered, cancelEvent, canceller,
                     recovery, faults>>
  BY DEF InvokeAsks
<1>2. /\ job[w].pc = "invoke" /\ Unlocked /\ c \in Call /\ call[c] \in {"ABSENT", "QUEUED"}
      /\ (c \notin RetrySafe => effects[c] = 0) /\ Latest.call = c /\ Latest.grant = "none"
  BY <1>1, Proceeding
<1>3. /\ Stepped(w) /\ SameLocals(w) /\ job'[w].pc = "result"
      /\ job'[w].result = "CONFIRMATION_REQUIRED" /\ job'[w].snap = job[w].snap
  BY <1>1, ReturnedWith DEF Result, IInv
<1>4. CallFits(job[w])'
  BY <1>3 DEF CallFits
<1> HIDE DEF c
<1>5. /\ call' \in [Call -> CallStatus] /\ call'[c] = "WAITING_CONFIRMATION"
      /\ \A d \in Call \ {c} : call'[d] = call[d]
  BY <1>1, <1>2, CallSaved DEF CallStatus
<1>6. /\ conf' \in [Call -> {"NONE", "PENDING", "APPROVED", "DENIED"}] /\ conf'[c] = "PENDING"
      /\ \A d \in Call \ {c} : conf'[d] = conf[d]
  BY <1>1, <1>2 DEF IInv, TypeOK
<1>7. CallMay(c)
  BY <1>1, <1>2, <1>5, <1>6 DEF CallMay, IInv, TypeOK
<1> QED
  BY <1>1, <1>2, <1>3, <1>4, <1>7, CallStep DEF c

LEMMA InvokeRefusedInv ==
  ASSUME IInv, NEW w \in Worker, InvokeRefused(w) PROVE IInv'
<1> DEFINE c == job[w].call
<1>1. /\ Proceeds(w) /\ SaveCall(c, "DENIED") /\ Returned(w, "FAILED")
      /\ UNCHANGED <<phase, task, att, conf, spent, effects, registered, cancelEvent, canceller,
                     recovery, faults>>
  BY DEF InvokeRefused
<1>2. /\ job[w].pc = "invoke" /\ Unlocked /\ c \in Call
      /\ call[c] \in {"ABSENT", "QUEUED", "WAITING_CONFIRMATION"}
      /\ (c \notin RetrySafe => effects[c] = 0)
      /\ (conf[c] = "PENDING" => call[c] \in {"ABSENT", "QUEUED"})
  BY <1>1, Proceeding
<1>3. /\ Stepped(w) /\ SameLocals(w) /\ job'[w].pc = "result" /\ job'[w].result = "FAILED"
      /\ job'[w].snap = job[w].snap
  BY <1>1, ReturnedWith DEF Result, IInv
<1>4. CallFits(job[w])'
  BY <1>3 DEF CallFits
<1> HIDE DEF c
<1>5. /\ call' \in [Call -> CallStatus] /\ call'[c] = "DENIED"
      /\ \A d \in Call \ {c} : call'[d] = call[d]
  BY <1>1, <1>2, CallSaved DEF CallStatus, Settled
<1>6. conf[c] # "PENDING"
  BY <1>2 DEF IInv, RowsOK
<1>7. CallMay(c)
  BY <1>1, <1>2, <1>5, <1>6 DEF CallMay, IInv, TypeOK
<1> QED
  BY <1>1, <1>2, <1>3, <1>4, <1>7, CallStep DEF c

LEMMA InvokeStartsInv ==
  ASSUME IInv, NEW w \in Worker, InvokeStarts(w) PROVE IInv'
<1> DEFINE c == job[w].call
<1>1. /\ Proceeds(w) /\ SaveCall(c, "RUNNING") /\ Move(w, "acting") /\ job[w].grant # "none"
      /\ spent' \in {spent, TRUE}
      /\ UNCHANGED <<phase, task, att, conf, effects, registered, cancelEvent, canceller,
                     recovery, faults>>
  BY DEF InvokeStarts
<1>2. /\ job[w].pc = "invoke" /\ Unlocked /\ c \in Call
      /\ call[c] \in {"ABSENT", "QUEUED", "WAITING_CONFIRMATION"}
      /\ (c \notin RetrySafe => effects[c] = 0) /\ conf[c] # "PENDING"
  BY <1>1, Proceeding
<1>3. Stepped(w) /\ SameLocals(w) /\ job'[w].pc = "acting" /\ job'[w].snap = job[w].snap
  BY <1>1, Moved DEF Place, Running, InTry, IInv
<1> HIDE DEF c
<1>4. /\ call' \in [Call -> CallStatus] /\ call'[c] = "RUNNING"
      /\ \A d \in Call \ {c} : call'[d] = call[d]
  BY <1>1, <1>2, CallSaved DEF CallStatus
<1>5. CallFits(job[w])'
  <2>1. job'[w].call = c
    BY <1>3 DEF SameLocals, c
  <2> QED
    BY <1>1, <1>2, <1>3, <1>4, <2>1 DEF CallFits
<1>6. spent' \in BOOLEAN
  BY <1>1 DEF IInv, TypeOK
<1>7. CallMay(c)
  BY <1>1, <1>2, <1>4, <1>6 DEF CallMay, IInv, TypeOK
<1> QED
  BY <1>1, <1>2, <1>3, <1>5, <1>7, CallStep DEF c

(* The tool takes effect, which nobody has seen this call do before.       *)
LEMMA InvokeActsInv ==
  ASSUME IInv, NEW w \in Worker, InvokeActs(w) PROVE IInv'
<1> DEFINE c == job[w].call
<1>1. /\ job[w].pc = "acting" /\ effects' = [effects EXCEPT ![c] = @ + 1] /\ Move(w, "acted")
      /\ UNCHANGED <<phase, task, att, call, conf, spent, registered, cancelEvent, canceller,
                     recovery, faults>>
  BY DEF InvokeActs
<1>2. /\ c \in Call /\ call[c] = "RUNNING" /\ (c \notin RetrySafe => effects[c] = 0)
  BY <1>1, Invoking DEF CallFits
<1>3. Stepped(w) /\ SameLocals(w) /\ job'[w].pc = "acted" /\ job'[w].snap = job[w].snap
  BY <1>1, Moved DEF Place, Running, InTry, IInv
<1> HIDE DEF c
<1>4. effects \in [Call -> Nat]
  BY DEF IInv, TypeOK
<1>5. /\ effects' \in [Call -> Nat] /\ effects'[c] = effects[c] + 1
      /\ \A d \in Call \ {c} : effects'[d] = effects[d]
  BY <1>1, <1>2, <1>4
<1>6. CallFits(job[w])'
  <2>1. job'[w].call = c
    BY <1>3 DEF SameLocals, c
  <2> QED
    BY <1>1, <1>2, <1>3, <1>4, <1>5, <2>1 DEF CallFits
<1>7. conf[c] # "PENDING"
  BY <1>2 DEF IInv, RowsOK
<1>8. CallMay(c)
  BY <1>1, <1>2, <1>4, <1>5, <1>7 DEF CallMay, IInv, TypeOK
<1> QED
  BY <1>1, <1>3, <1>6, <1>8, CallStep DEF c

LEMMA InvokeEndsInv ==
  ASSUME IInv, NEW w \in Worker, InvokeEnds(w) PROVE IInv'
<1> DEFINE c == job[w].call
<1>1. UNCHANGED <<phase, task, att, conf, spent, effects, registered, cancelEvent, canceller,
                  recovery, faults>>
  BY DEF InvokeEnds
<1>2. PICK s \in {"SUCCEEDED", "FAILED"} :
        /\ job[w].pc = "acted" \/ (job[w].pc = "acting" /\ s = "FAILED")
        /\ SaveCall(c, s) /\ Returned(w, s)
  BY DEF InvokeEnds
<1>3. /\ c \in Call /\ call[c] = "RUNNING" /\ (s = "SUCCEEDED" => effects[c] > 0)
  BY <1>2, Invoking DEF CallFits
<1>4. /\ Stepped(w) /\ SameLocals(w) /\ job'[w].pc = "result" /\ job'[w].result = s
      /\ job'[w].snap = job[w].snap
  BY <1>2, ReturnedWith DEF Result, IInv
<1> HIDE DEF c
<1>5. /\ call' \in [Call -> CallStatus] /\ call'[c] = s /\ \A d \in Call \ {c} : call'[d] = call[d]
  BY <1>2, <1>3, CallSaved DEF CallStatus, Settled
<1>6. CallFits(job[w])'
  <2>1. job'[w].call = c
    BY <1>4 DEF SameLocals, c
  <2> QED
    BY <1>4, <1>5, <2>1 DEF CallFits
<1>7. conf[c] # "PENDING" /\ (c \notin RetrySafe => effects[c] <= 1)
  BY <1>3 DEF IInv, RowsOK
<1>8. CallMay(c)
  BY <1>1, <1>3, <1>5, <1>7 DEF CallMay, IInv, TypeOK
<1> QED
  BY <1>1, <1>2, <1>4, <1>6, <1>8, CallStep DEF c

------------------------------------------------------------------------------
(* A confirmation is resolved.                                             *)

LEMMA Resolved ==
  ASSUME IInv, NEW c \in Call, conf[c] = "PENDING", NEW s \in {"APPROVED", "DENIED"},
         conf' = [conf EXCEPT ![c] = s],
         UNCHANGED <<phase, task, att, call, spent, effects, registered, cancelEvent, canceller,
                     recovery, faults>>,
         job' \in [Worker -> Job],
         \A w \in Worker :
           \/ job'[w] = job[w]
           \/ /\ w \in Approver /\ job[w].pc = "approve" /\ job[w].call = c
              /\ job'[w].pc = "invoke" /\ SameLocals(w) /\ job'[w].snap = job[w].snap
  PROVE  IInv'
<1>1. /\ conf' \in [Call -> {"NONE", "PENDING", "APPROVED", "DENIED"}] /\ conf'[c] = s
      /\ \A d \in Call \ {c} : conf'[d] = conf[d]
  BY DEF IInv, TypeOK
<1>2. call[c] = "WAITING_CONFIRMATION"
  BY DEF IInv, RowsOK
<1>3. Started' = Started /\ (Latest.call)' = Latest.call /\ (Latest.grant)' = Latest.grant
  BY DEF Started, Latest
<1>4. Runner \cap Approver = {} /\ Runner \subseteq Worker /\ Approver \subseteq Worker
  BY TaskAssumption DEF TaskAssumption, Worker
<1>5. TypeOK'
  BY <1>1 DEF IInv, TypeOK
<1>6. \A r \in Runner : job'[r] = job[r]
  BY <1>4
<1>7. RunnersFit' /\ StatusesFit'
  <2>1. \A r \in Runner : (Free(r) \/ (RunnerFits(r, job[r]) /\ StatusFits(r, job[r])))'
    BY <1>3, <1>6, RunnersStay
  <2> QED
    BY <2>1 DEF RunnersFit, StatusesFit
<1>8. ApproversFit'
  <2> SUFFICES ASSUME NEW a \in Approver PROVE (Free(a) \/ ApproverFits(job[a]))'
    BY DEF ApproversFit
  <2>1. \A d \in Call : /\ conf[d] # "NONE" => conf'[d] # "NONE"
                        /\ conf[d] # "PENDING" => conf'[d] # "PENDING"
    BY <1>1
  <2>2. Free(a) \/ ApproverFits(job[a])
    BY DEF IInv, ApproversFit
  <2>3. CASE job'[a] = job[a]
    BY <2>1, <2>2, <2>3 DEF Free, ApproverFits, Parked
  <2>4. CASE /\ job[a].pc = "approve" /\ job[a].call = c
             /\ job'[a].pc = "invoke" /\ SameLocals(a) /\ job'[a].snap = job[a].snap
    <3>1. ~Free(a)
      BY <2>4 DEF Free, Gone
    <3> QED
      BY <1>1, <1>2, <2>2, <2>4, <3>1 DEF ApproverFits, SameLocals, Parked
  <2> QED
    BY <1>4, <2>3, <2>4
<1>9. CallsFit'
  <2> SUFFICES ASSUME NEW w \in Worker PROVE (Free(w) \/ CallFits(job[w]))'
    BY DEF CallsFit
  <2>1. CASE job'[w] = job[w]
    BY <2>1 DEF IInv, CallsFit, Free, CallFits
  <2>2. CASE job'[w].pc = "invoke"
    BY <2>2 DEF CallFits
  <2> QED
    BY <2>1, <2>2
<1>10. Alone'
  <2>1. \A w \in Worker : job'[w].pc \in {"acting", "acted"} => job'[w] = job[w]
    OBVIOUS
  <2> QED
    BY <1>6, <2>1 DEF IInv, Alone, Free
<1>11. RowsOK'
  <2>1. \A d \in Call : /\ conf'[d] = "PENDING" => conf[d] = "PENDING"
                        /\ conf'[d] # "NONE" => conf[d] # "NONE"
    BY <1>1
  <2> QED
    BY <2>1 DEF IInv, RowsOK, Parked
<1>12. AttemptsOK'
  <2>1. Started
    BY DEF IInv, AttemptsOK
  <2>2. att # << >> => Latest.call \in Call
    BY AttemptTyped DEF Latest, IInv, TypeOK
  <2> QED
    BY <1>1, <1>3, <2>1, <2>2 DEF IInv, AttemptsOK
<1>13. CancelOK' /\ RecoveryOK' /\ SuccessHasEvidence'
  <2>1. CancelOK'
    BY DEF IInv, CancelOK
  <2>2. RecoveryOK'
    BY <1>3 DEF IInv, RecoveryOK
  <2>3. SuccessHasEvidence'
    BY DEF IInv, SuccessHasEvidence
  <2> QED
    BY <2>1, <2>2, <2>3
<1> QED
  BY <1>5, <1>7, <1>8, <1>9, <1>10, <1>11, <1>12, <1>13 DEF IInv

LEMMA ApprovedInv ==
  ASSUME IInv, NEW a \in Approver, Approved(a) PROVE IInv'
<1>1. /\ job[a].pc = "approve" /\ conf[job[a].call] = "PENDING" /\ Move(a, "invoke")
      /\ conf' = [conf EXCEPT ![job[a].call] = "APPROVED"]
      /\ UNCHANGED <<phase, task, att, call, spent, effects, registered, cancelEvent, canceller,
                     recovery, faults>>
  BY DEF Approved
<1>2. a \in Worker /\ job[a].call \in Call
  BY <1>1, ApproverIs DEF ApproverFits
<1>3. Stepped(a) /\ SameLocals(a) /\ job'[a].pc = "invoke" /\ job'[a].snap = job[a].snap
  BY <1>1, <1>2, Moved DEF Place, Running, InTry, IInv
<1>4. job' \in [Worker -> Job] /\ \A w \in Worker : w = a \/ job'[w] = job[w]
  BY <1>3 DEF Stepped
<1> QED
  BY <1>1, <1>2, <1>3, <1>4, Resolved

LEMMA DenyInv ==
  ASSUME IInv, NEW c \in Call, Deny(c) PROVE IInv'
<1>1. /\ conf[c] = "PENDING" /\ conf' = [conf EXCEPT ![c] = "DENIED"] /\ job' = job
      /\ UNCHANGED <<phase, task, att, call, spent, effects, registered, cancelEvent, canceller,
                     recovery, faults>>
  BY DEF Deny
<1>2. job' \in [Worker -> Job]
  BY <1>1 DEF IInv, TypeOK
<1> QED
  BY <1>1, <1>2, Resolved

------------------------------------------------------------------------------
(* Nobody works.                                                           *)

LEMMA Asleep ==
  ASSUME \A w \in Worker : Free(w)'
  PROVE  RunnersFit' /\ StatusesFit' /\ ApproversFit' /\ CallsFit' /\ Alone'
<1>1. Runner \subseteq Worker /\ Approver \subseteq Worker
  BY DEF Worker
<1>2. \A w \in Worker : job'[w].pc = "gone"
  BY DEF Free, Gone
<1> QED
  BY <1>1, <1>2 DEF RunnersFit, StatusesFit, ApproversFit, CallsFit, Alone

LEMMA NobodyWorks ==
  ASSUME IInv, phase \notin {"up", "stopping"}
  PROVE  \A w \in Worker : Free(w)
BY AtWork

(* Before the Task is created nobody works, and nothing came of its calls. *)
LEMMA NothingYet ==
  ASSUME IInv, task.status = "NONE"
  PROVE  /\ att = << >> /\ canceller.pc = "idle" /\ \A w \in Worker : Free(w)
         /\ \A c \in Call : call[c] = "ABSENT" /\ conf[c] = "NONE"
         /\ \A c \in Call : c \notin RetrySafe => effects[c] = 0
<1>1. att = << >> /\ canceller.pc = "idle" /\ \A w \in Worker : Free(w)
  BY AtWork DEF IInv, RowsOK, CancelOK
<1>2. \A c \in Call : call[c] = "ABSENT"
  BY <1>1 DEF IInv, RowsOK
<1> QED
  BY <1>1, <1>2 DEF IInv, RowsOK, AttemptsOK, Started

LEMMA CreateInv ==
  ASSUME IInv, NEW r \in Runner, NEW c \in Call, NEW g \in {"none", "reusable", "one-shot"},
         Create(r, c, g)
  PROVE  IInv'
<1> DEFINE j == [Gone EXCEPT !.pc = "created", !.call = c, !.grant = g]
<1> DEFINE first == [call |-> c, status |-> "QUEUED", grant |-> g]
<1>1. /\ phase = "up" /\ task.status = "NONE" /\ registered # r
      /\ task' = [NoTask EXCEPT !.status = "QUEUED"] /\ SaveCall(c, "QUEUED")
      /\ UNCHANGED <<phase, conf, spent, effects, registered, cancelEvent, canceller, recovery,
                     faults>>
  BY DEF Create, Fresh
<1>2. /\ canceller.pc = "idle" /\ \A w \in Worker : Free(w)
      /\ \A d \in Call : call[d] = "ABSENT" /\ conf[d] = "NONE"
      /\ \A d \in Call : d \notin RetrySafe => effects[d] = 0
  BY <1>1, NothingYet
<1>3. r \in Worker /\ r \notin Approver /\ Approver \subseteq Worker
  BY TaskAssumption DEF Worker, TaskAssumption
<1>4. j \in Job /\ j.pc = "created" /\ j.call = c /\ j.grant = g /\ ~j.cut
  BY GoneTyped DEF Gone, Job, Authority
<1>5. first \in Attempt /\ first.call = c /\ first.status = "QUEUED" /\ first.grant = g
  BY DEF Attempt, Authority
<1>6. job' = [job EXCEPT ![r] = j] /\ att' = <<first>>
  BY DEF Create
<1> HIDE DEF j, first
<1>7. Stepped(r) /\ job'[r] = j
  BY <1>3, <1>4, <1>6, JobWritten DEF IInv
<1>8. \A w \in Worker : w # r => Free(w)'
  BY <1>2, <1>7 DEF Stepped, Free
<1>9. /\ att' \in Seq(Attempt) /\ att' # << >> /\ DOMAIN att' = {1} /\ att'[1] = first
      /\ Latest' = first
  BY <1>5, <1>6 DEF Latest
<1>10. ~Started'
  BY <1>5, <1>9 DEF Started
<1>11. task' \in Task /\ task'.status = "QUEUED"
  BY <1>1 DEF NoTask, Task, TaskStatus
<1>12. /\ call' \in [Call -> CallStatus] /\ \A d \in Call : call'[d] \in {"ABSENT", "QUEUED"}
  BY <1>1, <1>2, CallSaved DEF CallStatus
<1>13. TypeOK'
  BY <1>1, <1>7, <1>9, <1>11, <1>12 DEF IInv, TypeOK, Stepped
<1>14. RunnersFit' /\ StatusesFit'
  <2>1. RunnerFits(r, job[r])'
    BY <1>1, <1>4, <1>5, <1>7, <1>9 DEF RunnerFits, Running, InTry
  <2>2. StatusFits(r, job[r])'
    BY <1>1, <1>2, <1>4, <1>7, <1>11, <1>12 DEF StatusFits, Parked
  <2> QED
    BY <1>8, <2>1, <2>2 DEF RunnersFit, StatusesFit, Worker
<1>15. ApproversFit'
  BY <1>3, <1>8 DEF ApproversFit
<1>16. CallsFit'
  <2>1. CallFits(job[r])'
    BY <1>4, <1>7 DEF CallFits
  <2> QED
    BY <1>8, <2>1 DEF CallsFit
<1>17. Alone'
  <2>1. \A w \in Worker : job'[w].pc \notin {"acting", "acted"}
    BY <1>4, <1>7, <1>8 DEF Free, Gone
  <2> QED
    BY <1>8, <2>1 DEF Alone, Worker
<1>18. RowsOK'
  BY <1>1, <1>2, <1>9, <1>11, <1>12 DEF RowsOK, Parked
<1>19. AttemptsOK'
  BY <1>1, <1>2, <1>5, <1>9, <1>11, <1>12 DEF AttemptsOK
<1>20. CancelOK' /\ RecoveryOK' /\ SuccessHasEvidence'
  <2>1. recovery = "idle"
    BY <1>1 DEF IInv, RecoveryOK
  <2> QED
    BY <1>1, <1>2, <1>11, <2>1 DEF CancelOK, RecoveryOK, SuccessHasEvidence
<1> QED
  BY <1>13, <1>14, <1>15, <1>16, <1>17, <1>18, <1>19, <1>20 DEF IInv

------------------------------------------------------------------------------
(* cancel_task and stop().                                                 *)

Cancelling == [pc : {"idle", "write", "signal", "wait", "finish"}, snap : Task,
               runner : Runner \cup {None}]

(* Worker w is, if anything, interrupted.                                  *)
Interrupts(w) ==
  /\ w \in Runner /\ ~Free(w)
  /\ job'[w].pc = job[w].pc /\ job'[w].call = job[w].call /\ job'[w].grant = job[w].grant
  /\ job'[w].result = job[w].result

(* Runners are at most interrupted, and the Task at most cancelled.        *)
LEMMA Disturbed ==
  ASSUME IInv, UNCHANGED <<att, call, conf, spent, effects, registered, recovery>>,
         phase' = phase \/ (phase = "up" /\ phase' = "stopping"),
         job' \in [Worker -> Job], \A w \in Worker : job'[w] = job[w] \/ Interrupts(w),
         \/ task' = task
         \/ canceller.pc # "idle" /\ task' \in Task /\ task'.status \in {"CANCELLING", "CANCELLED"},
         canceller' \in Cancelling, cancelEvent' \in BOOLEAN, faults' \in 0 .. MaxFaults,
         CancelOK', StatusesFit'
  PROVE  IInv'
<1>1. Started' = Started /\ (Latest.call)' = Latest.call /\ (Latest.grant)' = Latest.grant
  BY DEF Started, Latest
<1>2. Runner \cap Approver = {} /\ Runner \subseteq Worker /\ Approver \subseteq Worker
  BY TaskAssumption DEF TaskAssumption, Worker
<1>3. TypeOK'
  BY DEF IInv, TypeOK, Cancelling
<1>4. RunnersFit'
  <2> SUFFICES ASSUME NEW r \in Runner PROVE (Free(r) \/ RunnerFits(r, job[r]))'
    BY DEF RunnersFit
  <2>1. Free(r) \/ RunnerFits(r, job[r])
    BY DEF IInv, RunnersFit
  <2>2. CASE job'[r] = job[r]
    BY <1>1, <2>1, <2>2 DEF Free, RunnerFits
  <2>3. CASE Interrupts(r)
    BY <1>1, <2>1, <2>3 DEF Interrupts, RunnerFits
  <2> QED
    BY <1>2, <2>2, <2>3
<1>5. ApproversFit'
  <2> SUFFICES ASSUME NEW a \in Approver PROVE (Free(a) \/ ApproverFits(job[a]))'
    BY DEF ApproversFit
  <2>1. job'[a] = job[a] /\ (Free(a) \/ ApproverFits(job[a]))
    BY <1>2 DEF IInv, ApproversFit, Interrupts
  <2> QED
    BY <2>1 DEF Free, ApproverFits, Parked
<1>6. CallsFit'
  <2> SUFFICES ASSUME NEW w \in Worker PROVE (Free(w) \/ CallFits(job[w]))'
    BY DEF CallsFit
  <2>1. Free(w) \/ CallFits(job[w])
    BY DEF IInv, CallsFit
  <2>2. CASE job'[w] = job[w]
    BY <2>1, <2>2 DEF Free, CallFits
  <2>3. CASE Interrupts(w)
    BY <2>1, <2>3 DEF Interrupts, CallFits
  <2> QED
    BY <2>2, <2>3
<1>7. Alone'
  <2>1. \A w \in Worker : job'[w].pc = job[w].pc /\ (~Free(w)' => ~Free(w))
    BY DEF Interrupts, Free
  <2> QED
    BY <1>2, <2>1 DEF IInv, Alone
<1>8. RowsOK'
  BY DEF IInv, RowsOK, Parked, CancelOK
<1>9. AttemptsOK'
  BY <1>1 DEF IInv, AttemptsOK
<1>10. RecoveryOK'
  <2>1. CASE UNCHANGED <<task, phase>>
    BY <1>1, <2>1 DEF IInv, RecoveryOK
  <2>2. CASE phase' = "stopping"
    BY <2>2 DEF IInv, RecoveryOK
  <2>3. CASE task' # task /\ phase' = phase
    <3>1. phase # "recovering"
      BY <2>3 DEF IInv, CancelOK
    <3> QED
      BY <2>3, <3>1 DEF IInv, RecoveryOK
  <2> QED
    BY <2>1, <2>2, <2>3
<1>11. SuccessHasEvidence'
  BY DEF IInv, SuccessHasEvidence
<1> QED
  BY <1>3, <1>4, <1>5, <1>6, <1>7, <1>8, <1>9, <1>10, <1>11 DEF IInv

LEMMA CancelInv ==
  ASSUME IInv, Cancel PROVE IInv'
<1>1. /\ phase = "up" /\ canceller = Idle /\ task.status \notin Ended \cup {"NONE"}
      /\ canceller' = [canceller EXCEPT !.pc = "write", !.snap = task]
      /\ UNCHANGED <<phase, task, att, call, conf, spent, effects, job, registered, cancelEvent,
                     recovery, faults>>
  BY DEF Cancel, durable
<1>2. /\ task \in Task /\ canceller \in Cancelling /\ cancelEvent \in BOOLEAN
      /\ faults \in 0 .. MaxFaults /\ job \in [Worker -> Job]
  BY DEF IInv, TypeOK, Cancelling
<1>3. canceller' \in Cancelling /\ canceller'.pc = "write" /\ canceller'.snap = task
  BY <1>1, <1>2 DEF Cancelling
<1>4. CancelOK'
  BY <1>1, <1>3 DEF CancelOK
<1>5. StatusesFit'
  BY <1>1, <1>3 DEF IInv, StatusesFit, StatusFits, Free, Parked, Ended
<1> QED
  BY <1>1, <1>2, <1>3, <1>4, <1>5, Disturbed

LEMMA CancelWritesInv ==
  ASSUME IInv, CancelWrites PROVE IInv'
<1>1. /\ canceller.pc = "write"
      /\ task' = [canceller.snap EXCEPT !.status = "CANCELLING", !.cancelRequested = TRUE]
      /\ canceller' = [canceller EXCEPT !.pc = "signal", !.snap = NoTask]
      /\ UNCHANGED <<phase, att, call, conf, spent, effects, job, registered, cancelEvent,
                     recovery, faults>>
  BY DEF CancelWrites
<1>2. /\ canceller \in Cancelling /\ cancelEvent \in BOOLEAN /\ faults \in 0 .. MaxFaults
      /\ job \in [Worker -> Job] /\ phase \notin {"down", "recovering"} /\ task.status # "NONE"
  BY <1>1 DEF IInv, TypeOK, CancelOK, Cancelling
<1>3. canceller' \in Cancelling /\ canceller'.pc = "signal"
  BY <1>1, <1>2, GoneTyped DEF Cancelling
<1>4. task' \in Task /\ task'.status = "CANCELLING"
  BY <1>1, <1>2 DEF Cancelling, Task, TaskStatus
<1>5. CancelOK'
  BY <1>1, <1>2, <1>3, <1>4 DEF CancelOK
<1>6. StatusesFit'
  BY <1>1, <1>3, <1>4 DEF IInv, StatusesFit, StatusFits, Free, Parked
<1> QED
  BY <1>1, <1>2, <1>3, <1>4, <1>5, <1>6, Disturbed

(* The runner that is cancelled is the only one; if there is none in       *)
(* _tasks, the one that may exist is yet to be spawned.                    *)
LEMMA CancelSignalsInv ==
  ASSUME IInv, CancelSignals PROVE IInv'
<1>1. /\ canceller.pc = "signal" /\ cancelEvent' = TRUE
      /\ UNCHANGED <<phase, task, att, call, conf, spent, effects, registered, recovery, faults>>
  BY DEF CancelSignals, durable
<1>2. /\ canceller \in Cancelling /\ faults \in 0 .. MaxFaults /\ job \in [Worker -> Job]
      /\ phase \notin {"down", "recovering"} /\ task.status \notin {"NONE", "QUEUED", "RUNNING"}
  BY <1>1 DEF IInv, TypeOK, CancelOK, Cancelling
<1>3. \A r \in Runner : r = registered \/ Free(r) \/ job[r].pc = "created"
  BY <1>1 DEF IInv, RunnersFit, RunnerFits, StatusesFit, StatusFits, Free
<1>4. \A r \in Runner : Free(r) \/ (RunnerFits(r, job[r]) /\ StatusFits(r, job[r]))
  BY DEF IInv, RunnersFit, StatusesFit
<1>5. CASE /\ registered # None /\ ~Free(registered)
           /\ job' = [job EXCEPT ![registered].cut = TRUE]
           /\ canceller' = [canceller EXCEPT !.pc = "wait", !.runner = registered]
  <2> DEFINE j == [job[registered] EXCEPT !.cut = TRUE]
  <2>1. registered \in Runner /\ registered \in Worker
    BY <1>5 DEF IInv, TypeOK, Worker
  <2>2. job[registered] \in Job
    BY <1>2, <2>1
  <2>3. /\ j \in Job /\ j.pc = job[registered].pc /\ j.call = job[registered].call
        /\ j.grant = job[registered].grant /\ j.result = job[registered].result /\ j.cut
    BY <2>2 DEF Job
  <2>4. job' = [job EXCEPT ![registered] = j]
    BY <1>2, <1>5, <2>1
  <2> HIDE DEF j
  <2>5. Stepped(registered) /\ job'[registered] = j
    BY <2>1, <2>3, <2>4, JobWritten DEF IInv
  <2>6. canceller' \in Cancelling /\ canceller'.pc = "wait" /\ canceller'.runner = registered
    BY <1>2, <1>5, <2>1 DEF Cancelling
  <2>7. \A w \in Worker : job'[w] = job[w] \/ Interrupts(w)
    BY <1>5, <2>1, <2>3, <2>5 DEF Stepped, Interrupts
  <2>8. CancelOK'
    BY <1>1, <1>2, <2>6 DEF CancelOK
  <2>9. StatusesFit'
    <3> SUFFICES ASSUME NEW r \in Runner PROVE (Free(r) \/ StatusFits(r, job[r]))'
      BY DEF StatusesFit
    <3>1. CASE r = registered
      <4>1. RunnerFits(r, job[r]) /\ StatusFits(r, job[r])
        BY <1>4, <1>5, <3>1
      <4> QED
        BY <1>1, <1>2, <2>3, <2>5, <2>6, <3>1, <4>1 DEF RunnerFits, StatusFits, Parked
    <3>2. CASE r # registered
      <4>1. Free(r)
        BY <1>5, <2>1, <3>2 DEF IInv, Alone
      <4> QED
        BY <2>5, <3>2, <4>1 DEF Stepped, Free, Worker
    <3> QED
      BY <3>1, <3>2
  <2>10. job' \in [Worker -> Job]
    BY <2>5 DEF Stepped
  <2> QED
    BY <1>1, <1>2, <2>6, <2>7, <2>8, <2>9, <2>10, Disturbed
<1>6. CASE /\ ~(registered # None /\ ~Free(registered))
           /\ canceller' = [canceller EXCEPT !.pc = "finish"] /\ UNCHANGED job
  <2>1. canceller' \in Cancelling /\ canceller'.pc = "finish"
    BY <1>2, <1>6 DEF Cancelling
  <2>2. None \notin Runner
    BY TaskAssumption DEF TaskAssumption
  <2>3. \A r \in Runner : Free(r) \/ (job[r].pc = "created" /\ StatusFits(r, job[r]))
    BY <1>3, <1>4, <1>6, <2>2
  <2>4. CancelOK'
    BY <1>1, <1>2, <2>1 DEF CancelOK
  <2>5. StatusesFit'
    BY <1>1, <1>6, <2>1, <2>3 DEF StatusesFit, StatusFits, Free, Parked
  <2> QED
    BY <1>1, <1>2, <1>6, <2>1, <2>4, <2>5, Disturbed
<1> QED
  BY <1>5, <1>6 DEF CancelSignals

LEMMA CancelGatheredInv ==
  ASSUME IInv, CancelGathered PROVE IInv'
<1>1. /\ canceller.pc = "wait" /\ Free(canceller.runner)
      /\ canceller' = [canceller EXCEPT !.pc = "finish", !.runner = None]
      /\ UNCHANGED <<phase, task, att, call, conf, spent, effects, job, registered, cancelEvent,
                     recovery, faults>>
  BY DEF CancelGathered, durable
<1>2. /\ canceller \in Cancelling /\ cancelEvent \in BOOLEAN /\ faults \in 0 .. MaxFaults
      /\ job \in [Worker -> Job] /\ phase \notin {"down", "recovering"}
      /\ task.status \notin {"NONE", "QUEUED", "RUNNING"}
  BY <1>1 DEF IInv, TypeOK, CancelOK, Cancelling
<1>3. canceller' \in Cancelling /\ canceller'.pc = "finish"
  BY <1>1, <1>2 DEF Cancelling
<1>4. \A r \in Runner : Free(r)
  BY <1>1 DEF IInv, StatusesFit, StatusFits
<1>5. CancelOK'
  BY <1>1, <1>2, <1>3 DEF CancelOK
<1>6. StatusesFit'
  BY <1>1, <1>4 DEF StatusesFit, Free
<1> QED
  BY <1>1, <1>2, <1>3, <1>5, <1>6, Disturbed

LEMMA CancelEndsInv ==
  ASSUME IInv, CancelFinishes \/ CancelBreaks PROVE IInv'
<1>1. /\ canceller # Idle /\ canceller' = Idle
      /\ UNCHANGED <<phase, att, call, conf, spent, effects, job, registered, cancelEvent, recovery>>
  BY DEF CancelFinishes, CancelBreaks, durable, Idle
<1>2. /\ task \in Task /\ cancelEvent \in BOOLEAN /\ job \in [Worker -> Job]
      /\ faults \in 0 .. MaxFaults
  BY DEF IInv, TypeOK
<1>3. canceller' \in Cancelling /\ canceller'.pc = "idle"
  BY <1>1, GoneTyped DEF Cancelling, Idle
<1>4. CancelOK'
  BY <1>3 DEF CancelOK
<1>5. CASE CancelFinishes
  <2>1. canceller.pc = "finish" /\ FinishCancelled /\ UNCHANGED faults
    BY <1>5 DEF CancelFinishes
  <2>2. task' \in Task /\ task'.status = "CANCELLED"
    BY <1>2, <2>1, FinishSaved
  <2>3. StatusesFit'
    BY <1>1, <1>3, <2>1, <2>2 DEF IInv, StatusesFit, StatusFits, Free, Parked
  <2> QED
    BY <1>1, <1>2, <1>3, <1>4, <2>1, <2>2, <2>3, Disturbed
<1>6. CASE CancelBreaks
  <2>1. UNCHANGED task /\ faults' \in 0 .. MaxFaults
    BY <1>2, <1>6, TaskAssumption DEF CancelBreaks, durable, TaskAssumption
  <2>2. StatusesFit'
    BY <1>1, <1>3, <2>1 DEF IInv, StatusesFit, StatusFits, Free, Parked, Started, Latest
  <2> QED
    BY <1>1, <1>2, <1>3, <1>4, <2>1, <2>2, Disturbed
<1> QED
  BY <1>5, <1>6

LEMMA StopInv ==
  ASSUME IInv, Stop PROVE IInv'
<1>1. /\ phase = "up" /\ phase' = "stopping" /\ cancelEvent' = TRUE
      /\ faults < MaxFaults /\ faults' = faults + 1
      /\ job' = [w \in Worker |-> IF w = registered /\ ~Free(w)
                                    THEN [job[w] EXCEPT !.cut = TRUE] ELSE job[w]]
      /\ UNCHANGED <<task, att, call, conf, spent, effects, registered, canceller, recovery>>
  BY DEF Stop, durable
<1>2. /\ canceller \in Cancelling /\ job \in [Worker -> Job] /\ faults' \in 0 .. MaxFaults
  BY <1>1, TaskAssumption DEF IInv, TypeOK, Cancelling, TaskAssumption
<1>3. \A w \in Worker : LET j == [job[w] EXCEPT !.cut = TRUE] IN
        /\ j \in Job /\ j.pc = job[w].pc /\ j.call = job[w].call /\ j.grant = job[w].grant
        /\ j.result = job[w].result /\ j.cut
  BY <1>2 DEF Job
<1>4. job' \in [Worker -> Job]
  BY <1>1, <1>2, <1>3
<1>5. registered \in Worker => registered \in Runner
  BY TaskAssumption DEF IInv, TypeOK, TaskAssumption, Worker
<1>6. \A w \in Worker : \/ job'[w] = job[w]
                        \/ w = registered /\ job'[w].cut /\ Interrupts(w)
  BY <1>1, <1>3, <1>5 DEF Interrupts
<1>7. CancelOK'
  BY <1>1 DEF IInv, CancelOK
<1>8. StatusesFit'
  <2> SUFFICES ASSUME NEW r \in Runner PROVE (Free(r) \/ StatusFits(r, job[r]))'
    BY DEF StatusesFit
  <2>1. r \in Worker /\ (Free(r) \/ (RunnerFits(r, job[r]) /\ StatusFits(r, job[r])))
    BY DEF Worker, IInv, RunnersFit, StatusesFit
  <2>2. CASE job'[r] = job[r]
    BY <1>1, <2>1, <2>2 DEF Free, StatusFits, Parked, Started, Latest
  <2>3. CASE r = registered /\ job'[r].cut /\ Interrupts(r)
    BY <1>1, <2>1, <2>3 DEF Interrupts, RunnerFits, StatusFits, Parked
  <2> QED
    BY <1>6, <2>1, <2>2, <2>3
<1> QED
  BY <1>1, <1>2, <1>4, <1>6, <1>7, <1>8, Disturbed

------------------------------------------------------------------------------
(* A crash or the end of stop(), and the next start.                       *)

LEMMA Fallen ==
  ASSUME IInv, phase' = "down", Forgotten, UNCHANGED durable, faults' \in 0 .. MaxFaults
  PROVE  IInv'
<1>1. /\ job' = [w \in Worker |-> Gone] /\ registered' = None /\ cancelEvent' = FALSE
      /\ canceller' = Idle /\ recovery' = "idle"
      /\ UNCHANGED <<task, att, call, conf, spent, effects>>
  BY DEF Forgotten, durable
<1>2. \A w \in Worker : Free(w)'
  BY <1>1 DEF Free
<1>3. TypeOK'
  BY <1>1, GoneTyped DEF IInv, TypeOK, Idle
<1>4. RunnersFit' /\ StatusesFit' /\ ApproversFit' /\ CallsFit' /\ Alone'
  BY <1>2, Asleep
<1>5. RowsOK' /\ AttemptsOK' /\ SuccessHasEvidence'
  <2>1. RowsOK'
    BY <1>1 DEF IInv, RowsOK, Parked
  <2>2. AttemptsOK'
    BY <1>1 DEF IInv, AttemptsOK, Started, Latest
  <2>3. SuccessHasEvidence'
    BY <1>1 DEF IInv, SuccessHasEvidence
  <2> QED
    BY <2>1, <2>2, <2>3
<1>6. CancelOK' /\ RecoveryOK'
  BY <1>1 DEF CancelOK, RecoveryOK, Idle
<1> QED
  BY <1>3, <1>4, <1>5, <1>6 DEF IInv

LEMMA DownInv ==
  ASSUME IInv, Stopped \/ Crash PROVE IInv'
<1>1. /\ phase' = "down" /\ Forgotten /\ UNCHANGED durable
      /\ faults' = faults \/ (faults < MaxFaults /\ faults' = faults + 1)
  BY DEF Stopped, Crash
<1>2. faults' \in 0 .. MaxFaults
  BY <1>1, TaskAssumption DEF IInv, TypeOK, TaskAssumption
<1> QED
  BY <1>1, <1>2, Fallen

(* A commit of recovery finds nobody at work, and leaves it so.            *)
LEMMA Recovering ==
  ASSUME IInv, phase \in {"down", "recovering"},
         phase' \in {"up", "recovering"}, recovery' # "idle" <=> phase' = "recovering",
         UNCHANGED <<job, registered, cancelEvent, canceller, faults>>,
         TypeOK', RowsOK', AttemptsOK', RecoveryOK', SuccessHasEvidence'
  PROVE  IInv'
<1>1. \A w \in Worker : Free(w)
  BY NobodyWorks
<1>2. \A w \in Worker : Free(w)'
  BY <1>1 DEF Free
<1>3. RunnersFit' /\ StatusesFit' /\ ApproversFit' /\ CallsFit' /\ Alone'
  BY <1>2, Asleep
<1>4. CancelOK'
  BY DEF IInv, CancelOK
<1> QED
  BY <1>3, <1>4 DEF IInv

LEMMA RestartInv ==
  ASSUME IInv, Restart PROVE IInv'
<1>1. /\ phase = "down" /\ phase' = "recovering" /\ recovery' = "reconcile"
      /\ UNCHANGED <<task, att, call, conf, spent, effects, job, registered, cancelEvent,
                     canceller, faults>>
  BY DEF Restart, durable
<1>2. TypeOK'
  BY <1>1 DEF IInv, TypeOK
<1>3. RowsOK'
  BY <1>1 DEF IInv, RowsOK, Parked
<1>4. AttemptsOK'
  BY <1>1 DEF IInv, AttemptsOK, Started, Latest
<1>5. RecoveryOK' /\ SuccessHasEvidence'
  BY <1>1 DEF IInv, RecoveryOK, SuccessHasEvidence
<1> QED
  BY <1>1, <1>2, <1>3, <1>4, <1>5, Recovering

------------------------------------------------------------------------------
(* Recovery.                                                               *)

LEMMA InRecovery ==
  ASSUME IInv, recovery # "idle"
  PROVE  /\ phase = "recovering" /\ canceller.pc = "idle" /\ task \in Task
         /\ att \in Seq(Attempt) /\ Len(att) \in Nat
         /\ att # << >> => Latest.call \in Call /\ Len(att) \in DOMAIN att
BY AttemptTyped DEF IInv, RecoveryOK, CancelOK, TypeOK, Latest

(* A commit that leaves the calls alone, and what the next one needs.      *)
LEMMA Committed ==
  ASSUME IInv, recovery # "idle",
         NEW l \in {"idle", "requeue-call", "park-call", "fail-call", "finalize-attempt"}, Then(l),
         UNCHANGED <<call, conf, spent, effects, job, registered, cancelEvent, canceller, faults>>,
         AttKept, StatusMay, (Latest.call)' = Latest.call,
         l = "finalize-attempt" => task'.status \in {"SUCCEEDED", "FAILED"},
         l = "requeue-call" => task'.status = "RUNNING" /\ Latest.call \in RetrySafe,
         l = "park-call" => task'.status = "PAUSED",
         l = "fail-call" => task'.status = "CANCELLED",
         l \in {"requeue-call", "park-call", "fail-call"} => call[Latest.call] = "RUNNING"
  PROVE  IInv'
<1>1. /\ phase = "recovering" /\ recovery' = l
      /\ phase' = IF l = "idle" THEN "up" ELSE "recovering"
  BY InRecovery DEF Then
<1>2. TypeOK'
  BY <1>1 DEF IInv, TypeOK, AttKept, StatusMay
<1>3. RowsOK'
  BY DEF IInv, RowsOK, Parked, AttKept, StatusMay
<1>4. AttemptsOK'
  BY DEF IInv, AttemptsOK, AttKept, StatusMay
<1>5. RecoveryOK'
  BY <1>1 DEF RecoveryOK, AttKept
<1>6. SuccessHasEvidence'
  BY DEF StatusMay
<1> QED
  BY <1>1, <1>2, <1>3, <1>4, <1>5, <1>6, Recovering

LEMMA Pausing ==
  ASSUME IInv, recovery # "idle", att # << >>, NEW l \in {"idle", "park-call"}, Pause(l),
         l = "park-call" => call[Latest.call] = "RUNNING",
         UNCHANGED <<conf, spent, effects, canceller, faults>>
  PROVE  IInv'
<1>1. /\ task' = [task EXCEPT !.status = "PAUSED", !.claimed = FALSE] /\ Then(l)
      /\ UNCHANGED <<att, call, job, registered, cancelEvent>>
  BY DEF Pause
<1>2. task' \in Task /\ task'.status = "PAUSED"
  BY <1>1, InRecovery DEF Task, TaskStatus
<1>3. AttKept
  BY <1>1, AttSame
<1>4. StatusMay
  BY <1>1, <1>2, <1>3, Evident DEF StatusMay
<1>5. (Latest.call)' = Latest.call
  BY <1>1 DEF Latest
<1> QED
  BY <1>1, <1>2, <1>3, <1>4, <1>5, Committed

(* The Task is put back in the queue with a runner of its latest attempt.  *)
LEMMA Requeued ==
  ASSUME IInv, recovery # "idle", att # << >>, Requeue, task.status \in {"QUEUED", "RUNNING"},
         UNCHANGED <<conf, spent, effects, canceller, faults>>
  PROVE  IInv'
<1>1. /\ task' = [task EXCEPT !.status = "QUEUED", !.claimed = FALSE]
      /\ recovery' = "idle" /\ phase' = "up" /\ UNCHANGED <<att, call>>
  BY DEF Requeue, Then
<1>2. PICK r \in Runner : Spawn(r, Latest.call, Latest.grant)
  BY DEF Requeue
<1>3. /\ phase = "recovering" /\ canceller.pc = "idle" /\ task \in Task /\ Latest.call \in Call
      /\ Len(att) \in DOMAIN att
  BY InRecovery
<1>4. Latest.grant \in {"none", "reusable", "one-shot"}
  BY <1>3, AttemptTyped DEF Latest, IInv, TypeOK, AttemptsOK, Authority
<1>5. /\ Stepped(r) /\ registered' = r /\ cancelEvent' = FALSE /\ job'[r].pc = "new"
      /\ job'[r].call = Latest.call /\ job'[r].grant = Latest.grant /\ ~job'[r].cut
  BY <1>2, <1>3, <1>4, Spawned DEF IInv, Authority
<1>6. r \in Worker /\ r \notin Approver /\ Runner \subseteq Worker /\ Approver \subseteq Worker
  BY TaskAssumption DEF Worker, TaskAssumption
<1>7. \A w \in Worker : w # r => Free(w)'
  BY <1>3, <1>5, NobodyWorks DEF Stepped, Free
<1>8. task' \in Task /\ task'.status = "QUEUED"
  BY <1>1, <1>3 DEF Task, TaskStatus
<1>9. \A c \in Call : ~Parked(c)
  BY DEF IInv, RowsOK
<1>10. Started' = Started /\ (Latest.call)' = Latest.call /\ (Latest.grant)' = Latest.grant
  BY <1>1 DEF Started, Latest
<1>11. TypeOK'
  BY <1>1, <1>5, <1>8 DEF IInv, TypeOK, Stepped
<1>12. RunnersFit' /\ StatusesFit'
  <2>1. RunnerFits(r, job[r])'
    BY <1>1, <1>3, <1>4, <1>5, <1>10 DEF RunnerFits, Running, InTry
  <2>2. StatusFits(r, job[r])'
    BY <1>1, <1>3, <1>5, <1>8, <1>9 DEF StatusFits, Parked
  <2> QED
    BY <1>6, <1>7, <2>1, <2>2 DEF RunnersFit, StatusesFit
<1>13. ApproversFit' /\ CallsFit'
  <2>1. CallFits(job[r])'
    BY <1>5 DEF CallFits
  <2> QED
    BY <1>6, <1>7, <2>1 DEF ApproversFit, CallsFit
<1>14. Alone'
  <2>1. \A w \in Worker : job'[w].pc \notin {"acting", "acted"}
    BY <1>5, <1>7 DEF Free, Gone
  <2> QED
    BY <1>6, <1>7, <2>1 DEF Alone
<1>15. RowsOK'
  BY <1>1, <1>8, <1>9 DEF IInv, RowsOK, Parked
<1>16. AttemptsOK'
  BY <1>1, <1>8, <1>10 DEF IInv, AttemptsOK
<1>17. CancelOK' /\ RecoveryOK' /\ SuccessHasEvidence'
  BY <1>1, <1>3, <1>8 DEF CancelOK, RecoveryOK, SuccessHasEvidence
<1> QED
  BY <1>11, <1>12, <1>13, <1>14, <1>15, <1>16, <1>17 DEF IInv

LEMMA NothingToDoInv ==
  ASSUME IInv, NothingToDo PROVE IInv'
<1>1. /\ recovery = "reconcile" /\ recovery' = "idle" /\ phase' = "up"
      /\ UNCHANGED <<task, att, call, conf, spent, effects, job, registered, cancelEvent,
                     canceller, faults>>
  BY DEF NothingToDo, Then, durable
<1>2. phase = "recovering"
  BY <1>1, InRecovery
<1>3. TypeOK'
  BY <1>1 DEF IInv, TypeOK
<1>4. RowsOK'
  BY <1>1 DEF IInv, RowsOK, Parked
<1>5. AttemptsOK'
  BY <1>1 DEF IInv, AttemptsOK, Started, Latest
<1>6. RecoveryOK' /\ SuccessHasEvidence'
  BY <1>1 DEF IInv, RecoveryOK, SuccessHasEvidence
<1> QED
  BY <1>1, <1>2, <1>3, <1>4, <1>5, <1>6, Recovering

LEMMA ReconcileQueuedInv ==
  ASSUME IInv, ReconcileQueued PROVE IInv'
<1>1. /\ recovery = "reconcile" /\ task.status = "QUEUED"
      /\ UNCHANGED <<conf, spent, effects, canceller, faults>>
  BY DEF ReconcileQueued
<1>2. att # << >>
  BY <1>1 DEF IInv, RowsOK
<1>3. Requeue \/ Pause("idle")
  BY DEF ReconcileQueued
<1> QED
  BY <1>1, <1>2, <1>3, Requeued, Pausing

(* A settled call gives the Task its verdict, one that waits leaves it     *)
(* waiting; what was running is tried again only when that is safe.        *)
LEMMA ReconcileRunningInv ==
  ASSUME IInv, ReconcileRunning PROVE IInv'
<1>1. /\ recovery = "reconcile" /\ task.status = "RUNNING"
      /\ UNCHANGED <<conf, spent, effects, canceller, faults>>
  BY DEF ReconcileRunning
<1>2. att # << >>
  BY <1>1 DEF IInv, RowsOK
<1>3. /\ phase = "recovering" /\ canceller.pc = "idle" /\ task \in Task /\ Latest.call \in Call
      /\ Len(att) \in DOMAIN att /\ Len(att) \in Nat
  BY <1>1, <1>2, InRecovery
<1>4. Evidence = call[Latest.call] /\ \A c \in Call : ~Parked(c)
  BY <1>1 DEF Evidence, Known, IInv, RowsOK
<1>5. CASE /\ Evidence \in Settled
           /\ task' = [task EXCEPT !.claimed = FALSE,
                         !.status = IF Evidence = "SUCCEEDED" THEN "SUCCEEDED" ELSE "FAILED"]
           /\ Then("finalize-attempt")
           /\ UNCHANGED <<att, call, job, registered, cancelEvent>>
  <2>1. /\ task' \in Task /\ task'.status \in {"SUCCEEDED", "FAILED"}
        /\ task'.status = "SUCCEEDED" => call[Latest.call] = "SUCCEEDED"
    BY <1>3, <1>4, <1>5 DEF Task, TaskStatus, Ended
  <2>2. AttKept
    BY <1>1, <1>2, <1>5, AttSame
  <2>3. Started'
    BY <1>3, <1>4, <1>5, <2>2 DEF IInv, AttemptsOK, AttKept, Settled
  <2>4. task'.status # "SUCCEEDED" \/ \E i \in DOMAIN att : call[att[i].call] = "SUCCEEDED"
    BY <1>3, <2>1 DEF Latest
  <2>5. SuccessHasEvidence'
    BY <1>1, <1>5, <2>2, <2>4, Evident
  <2>6. StatusMay
    BY <1>4, <2>1, <2>3, <2>5 DEF StatusMay
  <2>7. (Latest.call)' = Latest.call
    BY <1>5 DEF Latest
  <2> QED
    BY <1>1, <1>5, <2>1, <2>2, <2>6, <2>7, Committed
<1>6. CASE /\ Evidence = "WAITING_CONFIRMATION"
           /\ task' = [task EXCEPT !.status = "WAITING_CONFIRMATION", !.claimed = FALSE]
           /\ Then("idle")
           /\ UNCHANGED <<att, call, job, registered, cancelEvent>>
  <2>1. task' \in Task /\ task'.status = "WAITING_CONFIRMATION"
    BY <1>3, <1>6 DEF Task, TaskStatus
  <2>2. AttKept
    BY <1>1, <1>2, <1>6, AttSame
  <2>3. Started'
    BY <1>3, <1>4, <1>6, <2>2 DEF IInv, AttemptsOK, AttKept
  <2>4. StatusMay
    BY <1>1, <1>4, <1>6, <2>1, <2>2, <2>3, Evident DEF StatusMay
  <2>5. (Latest.call)' = Latest.call
    BY <1>6 DEF Latest
  <2> QED
    BY <1>1, <1>6, <2>2, <2>4, <2>5, Committed
<1>7. CASE /\ Evidence = "RUNNING" /\ RetrySafeCall
           /\ SaveAttempt(Len(att), "FAILED")
           /\ Then("requeue-call")
           /\ UNCHANGED <<task, call, job, registered, cancelEvent>>
  <2>1. AttKept /\ (Latest.call)' = Latest.call
    BY <1>1, <1>2, <1>3, <1>7, AttSaved
  <2>2. StatusMay
    BY <1>1, <1>7, <2>1, TaskSame
  <2> QED
    BY <1>1, <1>4, <1>7, <2>1, <2>2, Committed DEF RetrySafeCall
<1>8. CASE Evidence = "RUNNING" /\ Pause("park-call")
  BY <1>1, <1>2, <1>4, <1>8, Pausing
<1>9. CASE Pause("idle")
  BY <1>1, <1>2, <1>9, Pausing
<1> QED
  BY <1>5, <1>6, <1>7, <1>8, <1>9 DEF ReconcileRunning

LEMMA ReconcileWaitingInv ==
  ASSUME IInv, ReconcileWaiting PROVE IInv'
<1>1. /\ recovery = "reconcile" /\ task.status = "WAITING_CONFIRMATION"
      /\ UNCHANGED <<conf, spent, effects, canceller, faults>>
  BY DEF ReconcileWaiting
<1>2. att # << >>
  BY <1>1 DEF IInv, RowsOK
<1>3. CASE Then("idle") /\ UNCHANGED <<task, att, call, job, registered, cancelEvent>>
  <2>1. AttKept /\ StatusMay
    BY <1>1, <1>2, <1>3, AttSame, TaskSame
  <2>2. (Latest.call)' = Latest.call
    BY <1>3 DEF Latest
  <2> QED
    BY <1>1, <1>3, <2>1, <2>2, Committed
<1>4. CASE Pause("idle")
  BY <1>1, <1>2, <1>4, Pausing
<1> QED
  BY <1>3, <1>4 DEF ReconcileWaiting

LEMMA ReconcileCancellingInv ==
  ASSUME IInv, ReconcileCancelling PROVE IInv'
<1>1. /\ recovery = "reconcile" /\ task.status = "CANCELLING"
      /\ UNCHANGED <<conf, spent, effects, canceller, faults>>
  BY DEF ReconcileCancelling
<1>2. att # << >> /\ task \in Task
  BY <1>1 DEF IInv, RowsOK, TypeOK
<1>3. Evidence = call[Latest.call]
  BY <1>1 DEF Evidence, Known
<1>4. CASE Evidence = "RUNNING" /\ Pause("park-call")
  BY <1>1, <1>2, <1>3, <1>4, Pausing
<1>5. CASE /\ FinishCancelled
           /\ Then(IF Evidence = "RUNNING" THEN "fail-call" ELSE "idle")
           /\ UNCHANGED <<att, call, job, registered, cancelEvent>>
  <2>1. task' \in Task /\ task'.status = "CANCELLED"
    BY <1>2, <1>5, FinishSaved
  <2>2. AttKept
    BY <1>1, <1>2, <1>5, AttSame
  <2>3. StatusMay
    BY <1>1, <1>5, <2>1, <2>2, Evident DEF StatusMay
  <2>4. (Latest.call)' = Latest.call
    BY <1>5 DEF Latest
  <2>5. CASE Evidence = "RUNNING"
    BY <1>1, <1>3, <1>5, <2>1, <2>2, <2>3, <2>4, <2>5, Committed
  <2>6. CASE Evidence # "RUNNING"
    BY <1>1, <1>5, <2>1, <2>2, <2>3, <2>4, <2>6, Committed
  <2> QED
    BY <2>5, <2>6
<1> QED
  BY <1>4, <1>5 DEF ReconcileCancelling

(* Its later commits: the attempt gets the verdict of the Task; the call   *)
(* that was running is queued again, parked or failed.                     *)
LEMMA RecoveryGoesOnInv ==
  ASSUME IInv, RecoveryGoesOn PROVE IInv'
<1>1. recovery \notin {"idle", "reconcile"} /\ UNCHANGED <<conf, spent, effects, canceller, faults>>
  BY DEF RecoveryGoesOn
<1>2. att # << >>
  BY <1>1 DEF IInv, RecoveryOK
<1>3. phase = "recovering" /\ Latest.call \in Call /\ Len(att) \in Nat
  BY <1>1, <1>2, InRecovery
<1>4. CASE /\ recovery = "finalize-attempt" /\ SaveAttempt(Len(att), task.status) /\ Then("idle")
           /\ UNCHANGED <<task, call, job, registered, cancelEvent>>
  <2>1. task.status \in {"RUNNING", "SUCCEEDED", "FAILED"}
    BY <1>4 DEF IInv, RecoveryOK
  <2>2. AttKept /\ (Latest.call)' = Latest.call
    BY <1>1, <1>2, <1>3, <1>4, <2>1, AttSaved
  <2>3. StatusMay
    BY <1>1, <1>4, <2>2, TaskSame
  <2> QED
    BY <1>1, <1>4, <2>2, <2>3, Committed
<1>5. CASE recovery = "requeue-task" /\ Requeue
  BY <1>1, <1>2, <1>5, Requeued DEF IInv, RecoveryOK
<1>6. ASSUME recovery \in {"requeue-call", "park-call", "fail-call"},
             NEW s \in {"QUEUED", "RECOVERY_REQUIRED", "FAILED"}, NEW l \in {"idle", "requeue-task"},
             SaveCall(Latest.call, s), Then(l),
             s = "QUEUED" <=> recovery = "requeue-call",
             s = "RECOVERY_REQUIRED" <=> recovery = "park-call",
             l = "requeue-task" => recovery = "requeue-call",
             UNCHANGED <<task, att, job, registered, cancelEvent>>
      PROVE  IInv'
  <2> DEFINE c == Latest.call
  <2>1. /\ call[c] = "RUNNING" /\ (s = "QUEUED" => c \in RetrySafe)
        /\ recovery = "requeue-call" => task.status = "RUNNING"
        /\ recovery = "park-call" => task.status = "PAUSED"
    BY <1>6 DEF IInv, RecoveryOK
  <2>2. /\ recovery' = l /\ phase' = IF l = "idle" THEN "up" ELSE "recovering"
    BY <1>3, <1>6 DEF Then
  <2>3. Started' = Started /\ Latest' = Latest
    BY <1>6 DEF Started, Latest
  <2>4. c \in Call /\ SaveCall(c, s)
    BY <1>3, <1>6
  <2> HIDE DEF c
  <2>5. /\ call' \in [Call -> CallStatus] /\ call'[c] = s /\ \A d \in Call \ {c} : call'[d] = call[d]
    BY <1>6, <2>4, CallSaved DEF CallStatus, Settled
  <2>6. TypeOK'
    BY <1>1, <1>6, <2>2, <2>5 DEF IInv, TypeOK
  <2>7. RowsOK'
    <3> SUFFICES ASSUME NEW d \in Call
                 PROVE  /\ call'[d] = "SUCCEEDED" => effects[d] > 0
                        /\ conf[d] = "PENDING" => call'[d] = "WAITING_CONFIRMATION"
                        /\ d \notin RetrySafe /\ call'[d] \in {"ABSENT", "QUEUED", "WAITING_CONFIRMATION"} =>
                             effects[d] = 0
                        /\ call'[d] = "RECOVERY_REQUIRED" =>
                             task.status \in {"PAUSED", "CANCELLING", "CANCELLED"}
      BY <1>1, <1>2, <1>6 DEF IInv, RowsOK, Parked
    <3>1. CASE d = c
      BY <1>6, <2>1, <2>5, <3>1 DEF IInv, RowsOK
    <3>2. CASE d # c
      BY <2>5, <3>2 DEF IInv, RowsOK, Parked
    <3> QED
      BY <3>1, <3>2
  <2>8. AttemptsOK'
    <3>1. Started
      BY <2>1, <2>4 DEF IInv, AttemptsOK
    <3> QED
      BY <1>1, <1>6, <2>3, <3>1 DEF IInv, AttemptsOK
  <2>9. RecoveryOK'
    BY <1>2, <1>6, <2>1, <2>2 DEF RecoveryOK
  <2>10. SuccessHasEvidence'
    <3>1. \A i \in DOMAIN att : att[i].call \in Call
      BY AttemptTyped DEF IInv, TypeOK
    <3>2. \A d \in Call : call[d] = "SUCCEEDED" => call'[d] = call[d]
      BY <2>1, <2>5
    <3> QED
      BY <1>1, <1>6, <3>1, <3>2 DEF IInv, SuccessHasEvidence
  <2> QED
    BY <1>1, <1>3, <1>6, <2>2, <2>6, <2>7, <2>8, <2>9, <2>10, Recovering
<1>7. CASE /\ recovery = "requeue-call" /\ SaveCall(Latest.call, "QUEUED") /\ Then("requeue-task")
           /\ UNCHANGED <<task, att, job, registered, cancelEvent>>
  BY <1>6, <1>7
<1>8. CASE /\ recovery = "park-call" /\ SaveCall(Latest.call, "RECOVERY_REQUIRED") /\ Then("idle")
           /\ UNCHANGED <<task, att, job, registered, cancelEvent>>
  BY <1>6, <1>8
<1>9. CASE /\ recovery = "fail-call" /\ SaveCall(Latest.call, "FAILED") /\ Then("idle")
           /\ UNCHANGED <<task, att, job, registered, cancelEvent>>
  BY <1>6, <1>9
<1> QED
  BY <1>4, <1>5, <1>7, <1>8, <1>9 DEF RecoveryGoesOn

------------------------------------------------------------------------------
LEMMA InitInv == Init => IInv
<1> SUFFICES ASSUME Init PROVE IInv
  OBVIOUS
<1>1. /\ task.status = "NONE" /\ att = << >> /\ canceller.pc = "idle"
      /\ \A w \in Worker : Free(w) /\ job[w].pc = "gone"
  BY DEF Init, NoTask, Idle, Free, Gone
<1>2. TypeOK
  <2>1. Idle \in Cancelling
    BY GoneTyped DEF Idle, Cancelling
  <2>2. job \in [Worker -> Job] /\ task \in Task /\ att \in Seq(Attempt)
    BY GoneTyped DEF Init
  <2>3. /\ call \in [Call -> CallStatus] /\ effects \in [Call -> Nat]
        /\ conf \in [Call -> {"NONE", "PENDING", "APPROVED", "DENIED"}]
    BY DEF Init, CallStatus
  <2>4. faults \in 0 .. MaxFaults
    BY TaskAssumption DEF Init, TaskAssumption
  <2> QED
    BY <2>1, <2>2, <2>3, <2>4 DEF Init, TypeOK, Cancelling
<1>3. RunnersFit /\ StatusesFit /\ ApproversFit /\ CallsFit /\ Alone
  BY <1>1 DEF RunnersFit, StatusesFit, ApproversFit, CallsFit, Alone, Worker
<1>4. RowsOK /\ AttemptsOK
  BY <1>1 DEF Init, RowsOK, AttemptsOK, Parked, Started
<1>5. CancelOK /\ RecoveryOK /\ SuccessHasEvidence
  BY <1>1 DEF Init, CancelOK, RecoveryOK, SuccessHasEvidence
<1> QED
  BY <1>2, <1>3, <1>4, <1>5 DEF IInv

LEMMA StutterInv ==
  ASSUME IInv, UNCHANGED vars PROVE IInv'
<1> USE DEF vars, durable
<1>1. TypeOK'
  BY DEF IInv, TypeOK
<1>2. RunnersFit' /\ StatusesFit'
  BY DEF IInv, RunnersFit, StatusesFit, Free, RunnerFits, StatusFits, Started, Latest, Parked
<1>3. ApproversFit' /\ CallsFit' /\ Alone'
  BY DEF IInv, ApproversFit, CallsFit, Alone, Free, ApproverFits, CallFits, Parked
<1>4. RowsOK' /\ AttemptsOK'
  BY DEF IInv, RowsOK, AttemptsOK, Parked, Started, Latest
<1>5. CancelOK' /\ RecoveryOK' /\ SuccessHasEvidence'
  BY DEF IInv, CancelOK, RecoveryOK, SuccessHasEvidence, Latest
<1> QED
  BY <1>1, <1>2, <1>3, <1>4, <1>5 DEF IInv

LEMMA RunInv ==
  ASSUME IInv, NEW r \in Runner, Run(r) \/ Trip(r) PROVE IInv'
BY CreatedInv, RetryQueuedInv, ClaimInv, ClaimLostInv, StartAttemptInv, CheckCancelledInv, RereadInv,
   AwaitConfirmationInv, NoticeCancelledInv, ConcludeInv, CloseAttemptInv, RunnerFinishesInv,
   InterruptedInv, TripInv DEF Run

LEMMA InvokeInv ==
  ASSUME IInv, NEW w \in Worker, Invoke(w) PROVE IInv'
BY InvokeAnsweredInv, InvokeAsksInv, InvokeRefusedInv, InvokeStartsInv, InvokeActsInv, InvokeEndsInv
   DEF Invoke

LEMMA ApprovalInv ==
  ASSUME IInv, NEW a \in Approver, Approval(a) PROVE IInv'
BY ApprovedInv, ResolvedByOtherInv, ApproverConcludesInv, ApproverClosesAttemptInv DEF Approval

LEMMA CancellationInv ==
  ASSUME IInv, Cancel \/ Cancellation \/ CancelBreaks PROVE IInv'
BY CancelInv, CancelWritesInv, CancelSignalsInv, CancelGatheredInv, CancelEndsInv DEF Cancellation

LEMMA RecoverInv ==
  ASSUME IInv, Recover PROVE IInv'
BY NothingToDoInv, ReconcileQueuedInv, ReconcileRunningInv, ReconcileWaitingInv,
   ReconcileCancellingInv, RecoveryGoesOnInv DEF Recover

(* Every step keeps the invariant.                                         *)
LEMMA StepInv == IInv /\ [Next]_vars => IInv'
<1> SUFFICES ASSUME IInv, [Next]_vars PROVE IInv'
  OBVIOUS
<1>1. ASSUME NEW r \in Runner, Run(r) \/ Invoke(r) \/ Trip(r) PROVE IInv'
  BY <1>1, RunInv, InvokeInv DEF Worker
<1>2. ASSUME NEW r \in Runner, NEW c \in Call,
             \/ \E g \in {"none", "reusable", "one-shot"} : Create(r, c, g)
             \/ Retry(r, c)
      PROVE  IInv'
  BY <1>2, CreateInv, RetryInv
<1>3. ASSUME NEW a \in Approver, Approval(a) \/ Invoke(a) PROVE IInv'
  BY <1>3, ApprovalInv, InvokeInv DEF Worker
<1>4. ASSUME NEW a \in Approver, NEW c \in Call, NEW t \in BOOLEAN, Approve(a, c, t) PROVE IInv'
  BY <1>4, ApproveInv
<1>5. ASSUME NEW c \in Call, Deny(c) PROVE IInv'
  BY <1>5, DenyInv
<1>6. ASSUME NEW w \in Worker, Break(w) PROVE IInv'
  BY <1>6, BreakInv
<1>7. CASE Cancel \/ Cancellation \/ CancelBreaks
  BY <1>7, CancellationInv
<1>8. CASE Stop \/ Stopped \/ Crash \/ Restart \/ Recover
  BY <1>8, StopInv, DownInv, RestartInv, RecoverInv
<1>9. CASE UNCHANGED vars
  BY <1>9, StutterInv
<1> QED
  BY <1>1, <1>2, <1>3, <1>4, <1>5, <1>6, <1>7, <1>8, <1>9 DEF Next

------------------------------------------------------------------------------
(* The theorems.                                                           *)

(* At every step of every behaviour of TaskLifecycle, whatever the         *)
(* workers, calls and bounds, where a worker is tells what it knows of the *)
(* rows, and the Task's status tells who may still act for it.             *)
THEOREM TaskInvariance == Spec => []IInv
BY InitInv, StepInv, PTL DEF Spec

(* The Task's stored verdicts are true, whichever commits a crash, an      *)
(* error, a cancellation or a retry cuts off.                              *)
THEOREM VerdictsStayTrue == Spec => []VerdictsAreTrue
<1>1. IInv => VerdictsAreTrue
  BY DEF IInv, VerdictsAreTrue
<1> QED
  BY <1>1, TaskInvariance, PTL

(* A call not known to be safe to repeat takes effect once at most.        *)
THEOREM NeverRepeated == Spec => []UncertainNeverRepeated
<1>1. IInv => UncertainNeverRepeated
  BY DEF IInv, RowsOK, UncertainNeverRepeated
<1> QED
  BY <1>1, TaskInvariance, PTL

(* What StatusIsKept asks of one step.                                     *)
Overwrites ==
  \/ task' = task
  \/ \E w \in Worker :
       /\ job[w].pc = "result" /\ job'[w] # job[w]
       /\ job[w].snap.status = "WAITING_CONFIRMATION"
  \/ canceller.pc = "write" /\ canceller.snap.status # "CANCELLED"

Kept ==
  /\ Stranded' /\ ~Stranded => faults' > faults
  /\ task.status = "CANCELLED" => Overwrites

(* A step that leaves the Task alone, and at work who works on it.         *)
LEMMA Quiet ==
  ASSUME UNCHANGED <<phase, task, canceller>>,
         \A r \in Runner : job[r].pc \in Running => job'[r].pc \in Running
  PROVE  Kept
BY DEF Kept, Stranded, Overwrites

(* A step after which nobody is said to be at work.                        *)
LEMMA Settling ==
  ASSUME \/ task'.status \notin {"RUNNING", "CANCELLING"} \/ phase' # "up"
         \/ canceller'.pc # "idle" \/ \E r \in Runner : job'[r].pc \in Running,
         task'.status # "CANCELLING" \/ phase' # "up" \/ canceller'.pc # "idle",
         task.status # "CANCELLED" \/ Overwrites
  PROVE  Kept
BY DEF Kept, Stranded

LEMMA Faulting ==
  ASSUME IInv, faults' = faults + 1, task.status # "CANCELLED" \/ task' = task
  PROVE  Kept
BY DEF IInv, TypeOK, Kept, Overwrites

LEMMA StepsQuietly ==
  ASSUME IInv, NEW w \in Worker, Stepped(w), UNCHANGED <<phase, task, canceller>>,
         \/ w \in Approver \/ job[w].pc \notin Running \/ job'[w].pc \in Running
  PROVE  Kept
<1>1. \A r \in Runner : r # w => job'[r] = job[r]
  BY DEF Stepped, Worker
<1>2. w \in Approver => w \notin Runner
  BY TaskAssumption DEF TaskAssumption
<1> QED
  BY <1>1, <1>2, Quiet

(* A cancelled Task has a runner only before that runner begins.           *)
LEMMA RunKept ==
  ASSUME IInv, NEW r \in Runner, Run(r) \/ Trip(r) PROVE Kept
<1> USE DEF durable
<1>1. r \in Worker
  BY DEF Worker
<1>2. ~Free(r) => RunnerFits(r, job[r]) /\ StatusFits(r, job[r])
  BY DEF IInv, RunnersFit, StatusesFit
<1>3. job[r].pc # "gone" => ~Free(r)
  BY DEF Free, Gone
<1>4. CASE Created(r)
  <2>1. /\ job[r].pc = "created" /\ Spawn(r, job[r].call, job[r].grant)
        /\ UNCHANGED <<phase, task, canceller>>
    BY <1>4 DEF Created
  <2>2. Stepped(r)
    BY <1>2, <1>3, <2>1, Spawned DEF RunnerFits, Authority, IInv
  <2> QED
    BY <1>1, <2>1, <2>2, StepsQuietly DEF Running, InTry
<1>5. CASE RetryQueued(r)
  <2>1. job[r].pc = "retry" /\ task' = [NoTask EXCEPT !.status = "QUEUED"]
    BY <1>5 DEF RetryQueued
  <2>2. task'.status = "QUEUED" /\ task.status # "CANCELLED"
    BY <1>2, <1>3, <2>1 DEF StatusFits, NoTask
  <2> QED
    BY <2>2, Settling
<1>6. CASE Claim(r)
  <2>1. /\ task.status = "QUEUED" /\ Move(r, "claimed")
        /\ task' = [task EXCEPT !.status = "RUNNING", !.claimed = TRUE]
    BY <1>6 DEF Claim
  <2>2. job'[r].pc = "claimed"
    BY <1>1, <2>1, Moved DEF Place, Running, IInv
  <2>3. task'.status = "RUNNING"
    BY <2>1 DEF IInv, TypeOK, Task
  <2> QED
    BY <2>1, <2>2, <2>3, Settling DEF Running
<1>7. CASE ClaimLost(r)
  <2>1. job[r].pc = "new" /\ End(r) /\ UNCHANGED <<phase, task, canceller>>
    BY <1>7 DEF ClaimLost
  <2>2. Stepped(r)
    BY <1>1, <2>1, Left DEF IInv
  <2> QED
    BY <1>1, <2>1, <2>2, StepsQuietly DEF Running, InTry
<1>8. CASE StartAttempt(r) \/ Reread(r)
  <2> DEFINE j == IF StartAttempt(r) THEN [job[r] EXCEPT !.pc = "started", !.attempt = Len(att')]
                  ELSE [job[r] EXCEPT !.pc = "decide", !.snap = task]
  <2>1. UNCHANGED <<phase, task, canceller>> /\ job' = [job EXCEPT ![r] = j]
    BY <1>1, <1>8 DEF StartAttempt, Reread, IInv, TypeOK
  <2>2. job[r] \in Job /\ job \in [Worker -> Job]
    BY <1>1 DEF IInv, TypeOK
  <2>3. j.pc \in Running
    BY <2>2 DEF Job, Running, InTry
  <2> HIDE DEF j
  <2>4. job'[r] = j /\ \A q \in Runner : q # r => job'[q] = job[q]
    BY <1>1, <2>1, <2>2 DEF Worker
  <2> QED
    BY <2>1, <2>3, <2>4, Quiet
<1>9. CASE CheckCancelled(r) \/ NoticeCancelled(r)
  <2>1. /\ UNCHANGED <<phase, task, canceller>>
        /\ Move(r, "finish") \/ Move(r, "invoke")
    BY <1>9 DEF CheckCancelled, NoticeCancelled
  <2>2. Stepped(r) /\ job'[r].pc \in {"finish", "invoke"}
    BY <1>1, <2>1, Moved DEF Place, Running, InTry, IInv
  <2> QED
    BY <1>1, <2>1, <2>2, StepsQuietly DEF Running, InTry
<1>10. CASE AwaitConfirmation(r) \/ Conclude(r)
  <2>1. /\ job[r].pc = "decide"
        /\ \E s \in {"SUCCEEDED", "FAILED", "WAITING_CONFIRMATION"} : SaveTask(job[r].snap, s)
    BY <1>1, <1>10 DEF AwaitConfirmation, Conclude, IInv, TypeOK, Job, Result
  <2>2. job[r].snap \in Task
    BY <1>1 DEF IInv, TypeOK, Job
  <2>3. task'.status \in {"SUCCEEDED", "FAILED", "WAITING_CONFIRMATION"}
    BY <2>1, <2>2, TaskSaved DEF TaskStatus, Ended
  <2>4. task.status # "CANCELLED"
    BY <1>2, <1>3, <2>1 DEF StatusFits
  <2> QED
    BY <2>3, <2>4, Settling
<1>11. CASE CloseAttempt(r) \/ Interrupted(r)
  <2>1. /\ UNCHANGED <<phase, task, canceller>> /\ job[r].pc # "gone"
        /\ job[r].pc = "attempt" \/ job[r].cut
    BY <1>11 DEF CloseAttempt, Interrupted, InTry
  <2>2. phase' = "up" => task.status # "RUNNING"
    BY <1>2, <1>3, <2>1 DEF StatusFits
  <2> QED
    BY <2>1, <2>2 DEF Kept, Stranded, Overwrites
<1>12. CASE RunnerFinishes(r)
  <2>1. FinishCancelled
    BY <1>12 DEF RunnerFinishes
  <2>2. task'.status = "CANCELLED" /\ (task.status = "CANCELLED" => task' = task)
    BY <2>1, FinishSaved DEF FinishCancelled, IInv, TypeOK
  <2> QED
    BY <2>2, Settling DEF Overwrites
<1>13. CASE Trip(r)
  <2>1. faults' = faults + 1 /\ (task.status = "CANCELLED" => task' = task)
    BY <1>13 DEF Trip
  <2> QED
    BY <2>1, Faulting
<1> QED
  BY <1>4, <1>5, <1>6, <1>7, <1>8, <1>9, <1>10, <1>11, <1>12, <1>13 DEF Run

LEMMA InvokeKept ==
  ASSUME IInv, NEW w \in Worker, Invoke(w) PROVE Kept
<1>1. UNCHANGED <<phase, task, canceller>>
  BY DEF Invoke, InvokeAnswered, InvokeAsks, InvokeRefused, InvokeStarts, InvokeActs, InvokeEnds, durable
<1>2. \/ \E s \in Result : Returned(w, s)
      \/ \E l \in {"acting", "acted"} : Move(w, l)
  BY DEF Invoke, InvokeAnswered, InvokeAsks, InvokeRefused, InvokeStarts, InvokeActs, InvokeEnds, Result
<1>3. Stepped(w) /\ job'[w].pc \in {"result", "acting", "acted"}
  BY <1>2, ReturnedWith, Moved DEF Place, Running, InTry, IInv
<1> QED
  BY <1>1, <1>3, StepsQuietly DEF Running, InTry

(* An approval writes the Task back as it read it, waiting.                *)
LEMMA ApprovalKept ==
  ASSUME IInv, NEW a \in Approver, Approval(a) PROVE Kept
<1>1. a \in Worker
  BY DEF Worker
<1>2. CASE UNCHANGED <<phase, task, canceller>> /\ (Move(a, "invoke") \/ End(a))
  <2>1. Stepped(a)
    BY <1>1, <1>2, Left, Moved DEF Place, Running, InTry, IInv
  <2> QED
    BY <1>1, <1>2, <2>1, StepsQuietly
<1>3. CASE /\ job[a].pc = "result" /\ job[a].forTask /\ Move(a, "attempt")
           /\ SaveTask(job[a].snap, IF job[a].result = "SUCCEEDED" THEN "SUCCEEDED" ELSE "FAILED")
  <2>1. job[a].snap \in Task /\ job[a].snap.status = "WAITING_CONFIRMATION"
    BY <1>1, <1>3, ApproverIs DEF ApproverFits, Job
  <2>2. task'.status \in {"SUCCEEDED", "FAILED"}
    BY <1>3, <2>1, TaskSaved DEF TaskStatus, Ended
  <2>3. job'[a].pc = "attempt"
    BY <1>1, <1>3, Moved DEF Place, Running, InTry, IInv
  <2>4. Overwrites
    BY <1>1, <1>3, <2>1, <2>3 DEF Overwrites
  <2> QED
    BY <2>2, <2>4, Settling
<1> QED
  BY <1>2, <1>3 DEF Approval, Approved, ResolvedByOther, ApproverConcludes, ApproverClosesAttempt, durable

LEMMA CancellationKept ==
  ASSUME IInv, Cancel \/ Cancellation \/ CancelBreaks PROVE Kept
<1> USE DEF durable
<1>1. canceller \in Cancelling
  BY DEF IInv, TypeOK, Cancelling
<1>2. CASE Cancel \/ CancelSignals \/ CancelGathered
  <2>1. canceller'.pc # "idle" /\ task' = task
    BY <1>1, <1>2 DEF Cancel, CancelSignals, CancelGathered, Cancelling
  <2> QED
    BY <2>1, Settling DEF Overwrites
<1>3. CASE CancelWrites
  <2>1. canceller.pc = "write" /\ canceller'.pc = "signal"
    BY <1>1, <1>3 DEF CancelWrites, Cancelling
  <2>2. canceller.snap.status # "CANCELLED"
    BY <2>1 DEF IInv, CancelOK, Ended
  <2> QED
    BY <2>1, <2>2, Settling DEF Overwrites
<1>4. CASE CancelFinishes
  <2>1. FinishCancelled
    BY <1>4 DEF CancelFinishes
  <2>2. task'.status = "CANCELLED" /\ (task.status = "CANCELLED" => task' = task)
    BY <2>1, FinishSaved DEF FinishCancelled, IInv, TypeOK
  <2> QED
    BY <2>2, Settling DEF Overwrites
<1>5. CASE CancelBreaks
  BY <1>5, Faulting DEF CancelBreaks
<1> QED
  BY <1>2, <1>3, <1>4, <1>5 DEF Cancellation

(* Recovery leaves nothing that says it is being worked on.                *)
LEMMA RecoverKept ==
  ASSUME IInv, Recover PROVE Kept
<1> USE DEF durable
<1>1. task \in Task
  BY DEF IInv, TypeOK
<1>2. CASE NothingToDo \/ ReconcileQueued \/ ReconcileWaiting
  <2>1. /\ task'.status \notin {"RUNNING", "CANCELLING"}
        /\ task.status = "CANCELLED" => task' = task
    BY <1>1, <1>2 DEF NothingToDo, ReconcileQueued, ReconcileWaiting, Requeue, Pause, Task, Ended
  <2> QED
    BY <2>1, Settling DEF Overwrites
<1>3. CASE ReconcileRunning
  <2>1. task.status = "RUNNING" /\ phase = "recovering"
    BY <1>3, InRecovery DEF ReconcileRunning
  <2>2. \/ task'.status \in {"SUCCEEDED", "FAILED", "WAITING_CONFIRMATION", "PAUSED"}
        \/ task' = task /\ phase' # "up"
    BY <1>1, <1>3, <2>1 DEF ReconcileRunning, Pause, Then, Task
  <2> QED
    BY <2>1, <2>2, Settling
<1>4. CASE ReconcileCancelling
  <2>1. task.status = "CANCELLING" /\ (Pause("park-call") \/ FinishCancelled)
    BY <1>4 DEF ReconcileCancelling
  <2>2. task'.status \in {"PAUSED", "CANCELLED"}
    BY <1>1, <2>1, FinishSaved DEF Pause, Task
  <2> QED
    BY <2>1, <2>2, Settling
<1>5. CASE RecoveryGoesOn
  <2>1. recovery # "idle" /\ phase = "recovering"
    BY <1>5, InRecovery DEF RecoveryGoesOn
  <2>2. CASE recovery = "requeue-task"
    <3>1. Requeue /\ task.status = "RUNNING"
      BY <1>5, <2>2 DEF RecoveryGoesOn, IInv, RecoveryOK
    <3>2. task'.status = "QUEUED"
      BY <1>1, <3>1 DEF Requeue, Task
    <3> QED
      BY <3>1, <3>2, Settling
  <2>3. CASE recovery = "requeue-call"
    <3>1. task' = task /\ phase' # "up"
      BY <1>5, <2>1, <2>3 DEF RecoveryGoesOn, Then
    <3> QED
      BY <3>1, Settling DEF Overwrites
  <2>4. CASE recovery \in {"finalize-attempt", "park-call", "fail-call"}
    <3>1. task' = task /\ task.status \in {"SUCCEEDED", "FAILED", "PAUSED", "CANCELLED"}
      BY <1>5, <2>4 DEF RecoveryGoesOn, IInv, RecoveryOK
    <3> QED
      BY <3>1, Settling DEF Overwrites
  <2> QED
    BY <1>5, <2>2, <2>3, <2>4 DEF RecoveryGoesOn
<1> QED
  BY <1>2, <1>3, <1>4, <1>5 DEF Recover

LEMMA StepKept == IInv /\ [Next]_vars => Kept \/ UNCHANGED vars
<1> SUFFICES ASSUME IInv, Next PROVE Kept
  OBVIOUS
<1> USE DEF durable
<1>1. ASSUME NEW r \in Runner, Run(r) \/ Invoke(r) \/ Trip(r) PROVE Kept
  BY <1>1, RunKept, InvokeKept DEF Worker
<1>2. ASSUME NEW r \in Runner, NEW c \in Call, NEW g \in {"none", "reusable", "one-shot"},
             Create(r, c, g)
      PROVE  Kept
  <2>1. task.status = "NONE" /\ task'.status = "QUEUED"
    BY <1>2 DEF Create, NoTask
  <2> QED
    BY <2>1, Settling
<1>3. ASSUME NEW r \in Runner, NEW c \in Call, Retry(r, c) PROVE Kept
  <2>1. task.status = "FAILED" /\ task' = task
    BY <1>3 DEF Retry
  <2> QED
    BY <2>1, Settling
<1>4. ASSUME NEW a \in Approver, Approval(a) \/ Invoke(a) PROVE Kept
  BY <1>4, ApprovalKept, InvokeKept DEF Worker
<1>5. ASSUME NEW a \in Approver, NEW c \in Call, NEW t \in BOOLEAN, Approve(a, c, t) PROVE Kept
  <2>1. UNCHANGED <<phase, task, canceller>> /\ \A r \in Runner : job'[r] = job[r]
    BY <1>5, TaskAssumption DEF Approve, IInv, TypeOK, Worker, TaskAssumption
  <2> QED
    BY <2>1, Quiet
<1>6. ASSUME NEW c \in Call, Deny(c) PROVE Kept
  BY <1>6, Quiet DEF Deny
<1>7. ASSUME NEW w \in Worker, Break(w) PROVE Kept
  BY <1>7, Faulting DEF Break
<1>8. CASE Cancel \/ Cancellation \/ CancelBreaks
  BY <1>8, CancellationKept
<1>9. CASE Stop \/ Crash
  BY <1>9, Faulting DEF Stop, Crash
<1>10. CASE Stopped \/ Restart
  <2>1. phase' # "up" /\ task' = task
    BY <1>10 DEF Stopped, Restart
  <2> QED
    BY <2>1, Settling DEF Overwrites
<1>11. CASE Recover
  BY <1>11, RecoverKept
<1> QED
  BY <1>1, <1>2, <1>3, <1>4, <1>5, <1>6, <1>7, <1>8, <1>9, <1>10, <1>11 DEF Next

(* Only an error strands a Task, and CANCELLED is only written over by who *)
(* had read the Task before.                                               *)
THEOREM StatusStaysKept == Spec => StatusIsKept
<1>1. IInv /\ [Next]_vars => [Stranded' /\ ~Stranded => faults' > faults]_vars
  BY StepKept DEF Kept
<1>2. IInv /\ [Next]_vars =>
        [task.status = "CANCELLED" =>
           \/ task' = task
           \/ \E w \in Worker :
                /\ job[w].pc = "result" /\ job'[w] # job[w]
                /\ job[w].snap.status = "WAITING_CONFIRMATION"
           \/ canceller.pc = "write" /\ canceller.snap.status # "CANCELLED"]_vars
  BY StepKept DEF Kept, Overwrites
<1>3. Spec => OnlyErrorsStrand
  BY <1>1, TaskInvariance, PTL DEF Spec, OnlyErrorsStrand
<1>4. Spec => CancelledIsFinal
  BY <1>2, TaskInvariance, PTL DEF Spec, CancelledIsFinal
<1> QED
  BY <1>3, <1>4 DEF StatusIsKept
==============================================================================
