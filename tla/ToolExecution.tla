---------------------------- MODULE ToolExecution ----------------------------
(***************************************************************************)
(* ExecutionRuntime (execution/runtime.py) with its PolicyEngine and the   *)
(* rows ExecutionStore commits: tool calls, permission grants and          *)
(* confirmations.                                                          *)
(*                                                                         *)
(* Callers are the coroutines that run its methods at the same time: HTTP  *)
(* handlers, the desktop services, Task runners.  One step of a caller is  *)
(* what it does between two awaits that another caller can come between,   *)
(* so every commit is a step.  invoke() holds one process-wide lock;       *)
(* approve_confirmation(), deny_confirmation() and revoke_grant() do not.  *)
(*                                                                         *)
(* Data kept: a call has a scope (subject, session, capability and         *)
(* resource together: approve_confirmation copies all of them to the       *)
(* grant), a risk (what the registry and the policy make of its tool) and  *)
(* the lifetime its tool requests for a grant.                             *)
(***************************************************************************)
EXTENDS Naturals, Sequences, FiniteSets

CONSTANTS
  Caller,      (* concurrent coroutines                                    *)
  Call,        (* tool calls, by id                                        *)
  Grant,       (* grant ids that can be drawn                              *)
  Conf,        (* confirmation ids that can be drawn                       *)
  ScopeOf,     (* ScopeOf[c]: the authority the call needs                 *)
  OneShot,     (* calls whose tool asks for a ONE_SHOT grant; the others   *)
               (* ask for a reusable one (SESSION, UNTIL_REVOKED)          *)
  Risk,        (* Risk[c] \in Risks                                        *)
  Planned,     (* calls stored QUEUED beforehand, with their Task's intent *)
  MaxFaults,   (* bound: crashes, cancellations and storage errors         *)
  None

Risks == {"CONFIRM",   \* MUTATING, or confirmation_required
          "GRANT",     \* protected: needs a grant the caller already has
          "ELEVATE",   \* elevation_required
          "INVALID"}   \* unregistered, disabled, or arguments that do not validate

ASSUME ExecutionAssumption ==
  /\ ScopeOf \in [Call -> Call]
  /\ OneShot \subseteq Call
  /\ Planned \subseteq Call
  /\ Risk \in [Call -> Risks]
  /\ MaxFaults \in Nat
  /\ None \notin Caller \cup Call \cup Grant \cup Conf

VARIABLES
  lock,     (* ExecutionRuntime._lock: the caller inside invoke, or None   *)
  op,       (* op[p]: where caller p is and what it holds in its locals    *)
  row,      (* row[c]: the stored ToolCall                                 *)
  grant,    (* grant[g]: the stored PermissionGrant                        *)
  conf,     (* conf[k]: the stored ConfirmationRequest                     *)
  effects,  (* effects[c]: history of what the dispatcher did for call c   *)
  faults    (* how many faults happened                                    *)

vars == <<lock, op, row, grant, conf, effects, faults>>

Inside == {"evaluate", "confirm", "park", "refuse", "consume", "start",
           "dispatch", "finish"}
PC == Inside \cup {"idle", "acquire", "issue", "resolve", "reload", "withdraw"}

Settled   == {"SUCCEEDED", "FAILED", "DENIED"}
RowStatus == Settled \cup {"ABSENT", "QUEUED", "WAITING_CONFIRMATION", "RUNNING"}

GrantStatus == {"NONE", "ACTIVE", "REVOKED", "CONSUMED"}
ConfStatus  == {"NONE", "PENDING", "APPROVED", "DENIED"}

Op == [pc : PC, call : Call \cup {None}, grant : Grant \cup {None},
       conf : Conf \cup {None}]
Idle == [pc |-> "idle", call |-> None, grant |-> None, conf |-> None]

CallRow  == [status : RowStatus, conf : Conf \cup {None}]
GrantRow == [status : GrantStatus, issuer : Conf \cup {None}]
ConfRow  == [status : ConfStatus, call : Call \cup {None}, grant : Grant \cup {None}]

TypeOK ==
  /\ lock \in Caller \cup {None}
  /\ op \in [Caller -> Op]
  /\ row \in [Call -> CallRow]
  /\ grant \in [Grant -> GrantRow]
  /\ conf \in [Conf -> ConfRow]
  /\ effects \in [Call -> Seq(Grant)]
  /\ faults \in 0 .. MaxFaults

Init ==
  /\ lock = None
  /\ op = [p \in Caller |-> Idle]
  /\ row = [c \in Call |-> [status |-> IF c \in Planned THEN "QUEUED" ELSE "ABSENT",
                            conf |-> None]]
  /\ grant = [g \in Grant |-> [status |-> "NONE", issuer |-> None]]
  /\ conf = [k \in Conf |-> [status |-> "NONE", call |-> None, grant |-> None]]
  /\ effects = [c \in Call |-> << >>]
  /\ faults = 0

------------------------------------------------------------------------------
(* Helpers.                                                                *)

FreshGrant == {g \in Grant : grant[g].status = "NONE"}
FreshConf  == {k \in Conf : conf[k].status = "NONE"}

(* The call a grant was issued for: the fields create_grant copied.        *)
IssuedFor(g) == conf[grant[g].issuer].call
IsOneShot(g) == IssuedFor(g) \in OneShot

(* Mutant of Matches: the grant's status is not looked at.                 *)
MatchesInactive(g, c) == ScopeOf[IssuedFor(g)] = ScopeOf[c]

(* PermissionGrant.matches: ACTIVE, and of exactly the requested scope.    *)
Matches(g, c) ==
  /\ grant[g].status = "ACTIVE"
  /\ ScopeOf[IssuedFor(g)] = ScopeOf[c]

(* Caller p goes on at l, with these locals.                               *)
Move(p, l, c, g, k) ==
  op' = [op EXCEPT ![p] = [pc |-> l, call |-> c, grant |-> g, conf |-> k]]

Goto(p, l) == Move(p, l, op[p].call, op[p].grant, op[p].conf)

(* Leaving invoke: the lock is released and the caller's locals are gone.  *)
Return(p) ==
  /\ op' = [op EXCEPT ![p] = Idle]
  /\ lock' = None

(* save_tool_call overwrites the whole row; what it is not given is reset. *)
SaveCall(c, s, k) == row' = [row EXCEPT ![c] = [status |-> s, conf |-> k]]

SaveGrant(g, s, k) == grant' = [grant EXCEPT ![g] = [status |-> s, issuer |-> k]]

SaveConf(k, s, c, g) ==
  conf' = [conf EXCEPT ![k] = [status |-> s, call |-> c, grant |-> g]]

(* store.revoke_grant is one UPDATE conditional on ACTIVE.                 *)
Revoked(g) ==
  \/ grant[g].status = "ACTIVE" /\ SaveGrant(g, "REVOKED", grant[g].issuer)
  \/ grant[g].status # "ACTIVE" /\ UNCHANGED grant

------------------------------------------------------------------------------
(* invoke(call, grant_id).                                                 *)

(* Mutant of Answered: a RUNNING call is not recognised.                   *)
AnsweredUnlessRunning(c, g) ==
  \/ row[c].status \in Settled
  \/ row[c].status = "WAITING_CONFIRMATION" /\ g = None

(* A settled call answers its prior result, a waiting one its confirmation, *)
(* a running one DUPLICATE_IN_FLIGHT.                                      *)
Answered(c, g) ==
  \/ row[c].status \in Settled
  \/ row[c].status = "WAITING_CONFIRMATION" /\ g = None
  \/ row[c].status = "RUNNING"

(* A client picks the call id, so a duplicate submission is an ordinary    *)
(* input; a grant id is one the audit log shows.  The bound: a caller that *)
(* may have to ask finds a confirmation id left.                           *)
Submit(p, c, g) ==
  /\ op[p] = Idle
  /\ \/ g # None \/ Answered(c, None) \/ Risk[c] # "CONFIRM"
     \/ Cardinality(FreshConf) > Cardinality({q \in Caller : op[q] # Idle})
  /\ g # None => grant[g].status # "NONE"
  /\ Move(p, "acquire", c, g, None)
  /\ UNCHANGED <<lock, row, grant, conf, effects, faults>>

(* The lock is taken and the stored call decides whether there is anything *)
(* left to do.                                                             *)
Answer(p) ==
  /\ op[p].pc = "acquire"
  /\ lock = None
  /\ Answered(op[p].call, op[p].grant)
  /\ Return(p)
  /\ UNCHANGED <<row, grant, conf, effects, faults>>

Enter(p) ==
  /\ op[p].pc = "acquire"
  /\ lock = None
  /\ ~Answered(op[p].call, op[p].grant)
  /\ lock' = p
  /\ Goto(p, IF Risk[op[p].call] = "INVALID" THEN "refuse" ELSE "evaluate")
  /\ UNCHANGED <<row, grant, conf, effects, faults>>

Acquire(p) == Answer(p) \/ Enter(p)

(* PolicyEngine.evaluate, and where invoke goes with the decision.         *)
Decision(c, g) ==
  IF Risk[c] = "ELEVATE" THEN "refuse"
  ELSE IF g # None THEN IF Matches(g, c) THEN "consume" ELSE "refuse"
  ELSE IF Risk[c] = "CONFIRM" THEN "confirm"
  ELSE "refuse"

Evaluate(p) ==
  /\ op[p].pc = "evaluate"
  /\ Goto(p, Decision(op[p].call, op[p].grant))
  /\ UNCHANGED <<lock, row, grant, conf, effects, faults>>

(* REQUIRE_CONFIRMATION: two commits, the confirmation before the call     *)
(* that names it.                                                          *)
AskConfirmation(p) ==
  /\ op[p].pc = "confirm"
  /\ \E k \in FreshConf :
       /\ SaveConf(k, "PENDING", op[p].call, None)
       /\ Move(p, "park", op[p].call, None, k)
  /\ UNCHANGED <<lock, row, grant, effects, faults>>

Park(p) ==
  /\ op[p].pc = "park"
  /\ SaveCall(op[p].call, "WAITING_CONFIRMATION", op[p].conf)
  /\ Return(p)
  /\ UNCHANGED <<grant, conf, effects, faults>>

Refuse(p) ==
  /\ op[p].pc = "refuse"
  /\ SaveCall(op[p].call, "DENIED", None)
  /\ Return(p)
  /\ UNCHANGED <<grant, conf, effects, faults>>

(* ALLOW: a reusable grant is not looked at again.                         *)
Reuse(p) ==
  /\ op[p].pc = "consume"
  /\ ~IsOneShot(op[p].grant)
  /\ Goto(p, "start")
  /\ UNCHANGED <<lock, row, grant, conf, effects, faults>>

(* consume_one_shot is one UPDATE conditional on ACTIVE.                   *)
Consume(p) ==
  /\ op[p].pc = "consume"
  /\ IsOneShot(op[p].grant)
  /\ grant[op[p].grant].status = "ACTIVE"
  /\ SaveGrant(op[p].grant, "CONSUMED", grant[op[p].grant].issuer)
  /\ Goto(p, "start")
  /\ UNCHANGED <<lock, row, conf, effects, faults>>

ConsumeLost(p) ==
  /\ op[p].pc = "consume"
  /\ IsOneShot(op[p].grant)
  /\ grant[op[p].grant].status # "ACTIVE"
  /\ Goto(p, "refuse")
  /\ UNCHANGED <<lock, row, grant, conf, effects, faults>>

Start(p) ==
  /\ op[p].pc = "start"
  /\ SaveCall(op[p].call, "RUNNING", None)
  /\ Goto(p, "dispatch")
  /\ UNCHANGED <<lock, grant, conf, effects, faults>>

(* The dispatcher either acts, or fails before it could.                   *)
Dispatch(p) ==
  /\ op[p].pc = "dispatch"
  /\ effects' = [effects EXCEPT ![op[p].call] = Append(@, op[p].grant)]
  /\ Goto(p, "finish")
  /\ UNCHANGED <<lock, row, grant, conf, faults>>

DispatchFails(p) ==
  /\ op[p].pc = "dispatch"
  /\ SaveCall(op[p].call, "FAILED", None)
  /\ Return(p)
  /\ UNCHANGED <<grant, conf, effects, faults>>

(* FAILED after the effect: a timeout, or a handler that reports failure.  *)
Finish(p) ==
  /\ op[p].pc = "finish"
  /\ \/ row[op[p].call].status = "RUNNING" /\ SaveCall(op[p].call, "SUCCEEDED", None)
     \/ SaveCall(op[p].call, "FAILED", None)
  /\ Return(p)
  /\ UNCHANGED <<grant, conf, effects, faults>>

(* SUCCEEDED is stored, its audit record is not: FAILED is written over it.*)
AuditFails(p) ==
  /\ op[p].pc = "finish" /\ row[op[p].call].status = "RUNNING"
  /\ faults < MaxFaults
  /\ faults' = faults + 1
  /\ SaveCall(op[p].call, "SUCCEEDED", None)
  /\ UNCHANGED <<lock, op, grant, conf, effects>>

------------------------------------------------------------------------------
(* approve_confirmation(k), in three commits and then invoke.  FreshGrant  *)
(* bounds the model.                                                       *)

Approve(p, k) ==
  /\ op[p] = Idle
  /\ conf[k].status = "PENDING"
  /\ Cardinality(FreshGrant) > Cardinality({q \in Caller : op[q].pc = "issue"})
  /\ Move(p, "issue", None, None, k)
  /\ UNCHANGED <<lock, row, grant, conf, effects, faults>>

IssueGrant(p) ==
  /\ op[p].pc = "issue"
  /\ \E g \in FreshGrant :
       /\ SaveGrant(g, "ACTIVE", op[p].conf)
       /\ Move(p, "resolve", None, g, op[p].conf)
  /\ UNCHANGED <<lock, row, conf, effects, faults>>

(* Mutant of Resolve: invoke is given no grant.                            *)
ResolveDroppingGrant(p) ==
  /\ op[p].pc = "resolve"
  /\ conf[op[p].conf].status = "PENDING"
  /\ SaveConf(op[p].conf, "APPROVED", conf[op[p].conf].call, op[p].grant)
  /\ Move(p, "reload", conf[op[p].conf].call, None, None)
  /\ UNCHANGED <<lock, row, grant, effects, faults>>

(* resolve_confirmation is one UPDATE conditional on PENDING.              *)
Resolve(p) ==
  /\ op[p].pc = "resolve"
  /\ conf[op[p].conf].status = "PENDING"
  /\ SaveConf(op[p].conf, "APPROVED", conf[op[p].conf].call, op[p].grant)
  /\ Move(p, "reload", conf[op[p].conf].call, op[p].grant, None)
  /\ UNCHANGED <<lock, row, grant, effects, faults>>

(* Mutant of ResolveLost: the grant just created is left as it is.         *)
ResolveLostLeavingGrant(p) ==
  /\ op[p].pc = "resolve"
  /\ conf[op[p].conf].status # "PENDING"
  /\ op' = [op EXCEPT ![p] = Idle]
  /\ UNCHANGED <<lock, row, grant, conf, effects, faults>>

(* The loser of a race goes on to withdraw the grant it has just created.  *)
ResolveLost(p) ==
  /\ op[p].pc = "resolve"
  /\ conf[op[p].conf].status # "PENDING"
  /\ Goto(p, "withdraw")
  /\ UNCHANGED <<lock, row, grant, conf, effects, faults>>

(* The call is read back; a confirmation whose call was never stored ends  *)
(* in an error.                                                            *)
Reload(p) ==
  /\ op[p].pc = "reload"
  /\ row[op[p].call].status # "ABSENT"
  /\ Goto(p, "acquire")
  /\ UNCHANGED <<lock, row, grant, conf, effects, faults>>

ReloadMissing(p) ==
  /\ op[p].pc = "reload"
  /\ row[op[p].call].status = "ABSENT"
  /\ op' = [op EXCEPT ![p] = Idle]
  /\ UNCHANGED <<lock, row, grant, conf, effects, faults>>

WithdrawGrant(p) ==
  /\ op[p].pc = "withdraw"
  /\ Revoked(op[p].grant)
  /\ op' = [op EXCEPT ![p] = Idle]
  /\ UNCHANGED <<lock, row, conf, effects, faults>>

------------------------------------------------------------------------------
(* deny_confirmation(k) and revoke_grant(g): one conditional UPDATE each.  *)

Deny(k) ==
  /\ conf[k].status = "PENDING"
  /\ SaveConf(k, "DENIED", conf[k].call, conf[k].grant)
  /\ UNCHANGED <<lock, op, row, grant, effects, faults>>

Revoke(g) ==
  /\ grant[g].status = "ACTIVE"
  /\ Revoked(g)
  /\ UNCHANGED <<lock, op, row, conf, effects, faults>>

------------------------------------------------------------------------------
(* Faults.  A caller is cancelled (its Task is), or a commit raises: the   *)
(* lock is released and nothing is undone.  A crash ends every caller.     *)

Abort(p) ==
  /\ op[p].pc # "idle"
  /\ faults < MaxFaults
  /\ faults' = faults + 1
  /\ op' = [op EXCEPT ![p] = Idle]
  /\ lock' = IF lock = p THEN None ELSE lock
  /\ UNCHANGED <<row, grant, conf, effects>>

Crash ==
  /\ faults < MaxFaults
  /\ faults' = faults + 1
  /\ op' = [p \in Caller |-> Idle]
  /\ lock' = None
  /\ UNCHANGED <<row, grant, conf, effects>>

------------------------------------------------------------------------------
InvokeStep(p) ==
  \/ Acquire(p) \/ Evaluate(p) \/ AskConfirmation(p) \/ Park(p) \/ Refuse(p)
  \/ Reuse(p) \/ Consume(p) \/ ConsumeLost(p) \/ Start(p)
  \/ Dispatch(p) \/ DispatchFails(p) \/ Finish(p)

ApproveStep(p) ==
  \/ IssueGrant(p) \/ Resolve(p) \/ ResolveLost(p) \/ WithdrawGrant(p)
  \/ Reload(p) \/ ReloadMissing(p)

Step(p) == InvokeStep(p) \/ ApproveStep(p)

Next ==
  \/ \E p \in Caller : Step(p) \/ AuditFails(p) \/ Abort(p)
  \/ \E p \in Caller, c \in Call, g \in Grant \cup {None} : Submit(p, c, g)
  \/ \E p \in Caller, k \in Conf : Approve(p, k)
  \/ \E k \in Conf : Deny(k)
  \/ \E g \in Grant : Revoke(g)
  \/ Crash

Spec == Init /\ [][Next]_vars

(* asyncio.Lock wakes its waiters in order, every dispatch runs under a    *)
(* timeout, and the event loop runs every ready coroutine.                 *)
Fairness == \A p \in Caller : SF_vars(Acquire(p)) /\ WF_vars(Step(p))

FairSpec == Spec /\ Fairness

------------------------------------------------------------------------------
(* Properties.                                                             *)

(* What is stored of a call tells what happened for it: no call is ever    *)
(* acted on twice, whatever duplicates, approvals and faults arrive; a     *)
(* call recorded SUCCEEDED was acted on, and one that is DENIED or still   *)
(* waiting was not.                                                        *)
EffectMatchesRecord ==
  \A c \in Call :
    /\ Len(effects[c]) <= 1
    /\ row[c].status = "SUCCEEDED" => Len(effects[c]) = 1
    /\ row[c].status \in {"ABSENT", "QUEUED", "WAITING_CONFIRMATION", "DENIED"}
         => effects[c] = << >>

Used(g) == {c \in Call : \E i \in 1 .. Len(effects[c]) : effects[c][i] = g}

(* A ONE_SHOT grant stands behind one effect at most, over all calls of    *)
(* its scope; one that is still ACTIVE, or was REVOKED, behind none.       *)
OneShotSpentOnce ==
  \A g \in Grant :
    grant[g].status # "NONE" /\ IsOneShot(g) =>
      /\ \A c, d \in Used(g) : c = d
      /\ grant[g].status # "CONSUMED" => Used(g) = {}

(* As long as nothing was interrupted, authority is never left behind: a   *)
(* grant that is ACTIVE is the one its confirmation was APPROVED with, or  *)
(* its approver is still at work on it.  (One cancelled or failed approval *)
(* can leave an ACTIVE grant whose confirmation was denied.)               *)
NoOrphanAuthority ==
  faults = 0 =>
    \A g \in Grant : grant[g].status = "ACTIVE" =>
      \/ conf[grant[g].issuer].status = "APPROVED" /\ conf[grant[g].issuer].grant = g
      \/ \E p \in Caller : op[p].pc \in {"resolve", "withdraw"} /\ op[p].grant = g

(* A call parked for confirmation names a confirmation that is stored and  *)
(* is its own, at every crash point between the two commits.               *)
ParkedCallIsConfirmable ==
  \A c \in Call : row[c].status = "WAITING_CONFIRMATION" =>
    /\ row[c].conf # None
    /\ conf[row[c].conf].status # "NONE"
    /\ conf[row[c].conf].call = c

(* invoke runs for one caller at a time.                                   *)
LockHeld == \A p \in Caller : op[p].pc \in Inside <=> lock = p

(* Authority is kept in order at every step, through duplicates, lost      *)
(* races, cancellations and crashes: one caller inside, every ONE_SHOT     *)
(* grant spent once, none left behind, every parked call confirmable.      *)
AuthorityInOrder ==
  /\ TypeOK
  /\ LockHeld
  /\ OneShotSpentOnce
  /\ NoOrphanAuthority
  /\ ParkedCallIsConfirmable

(* The approval of a Task's call goes through: unless something is         *)
(* interrupted, the call ends up settled.  (Not so for a call submitted    *)
(* directly: its confirmation is visible before its row is, and one        *)
(* approved in between is APPROVED while the call waits for ever.)         *)
ApprovalCompletes ==
  \A k \in Conf, c \in Planned :
    conf[k].status = "APPROVED" /\ conf[k].call = c
      ~> faults > 0 \/ row[c].status \in Settled

(* The promise, and how this module keeps it.                              *)
asked  == {conf[k].call : k \in Conf \ FreshConf}
issued == [g \in Grant |-> IF g \in FreshGrant THEN {} ELSE {IssuedFor(g)}]
live   == {g \in Grant : grant[g].status = "ACTIVE"}

permitted == {p \in Caller : \/ op[p].pc \in {"start", "dispatch"}
                             \/ op[p].pc = "consume" /\ ~IsOneShot(op[p].grant)}
permits   == {<<op[p].call, op[p].grant>> : p \in permitted}

AE == INSTANCE AuthorizedExecution
        WITH asked <- asked, issued <- issued, live <- live,
             permits <- permits, effects <- effects

(* Every behaviour of the runtime, interrupted or not, is one the promise  *)
(* allows: an effect needs a permit, a permit a live grant of the scope.   *)
ImplementsAuthorizedExecution == AE!Spec
==============================================================================
