----------------------------- MODULE MemoryWrites -----------------------------
(***************************************************************************)
(* Remember, Supersede and Forget (MemoryOrchestrator): rows for the       *)
(* candidate and the operation in the local store, one request with an     *)
(* idempotency key to the remote memory service, and the pass that replays *)
(* unfinished work when the Core starts.                                   *)
(*                                                                         *)
(* A Job is one such intent of the user, and stands for the ids of its     *)
(* candidate and operation.  A memory is named by the key of the request   *)
(* that made it.  The service is FakeMemoryProvider, which states the      *)
(* contract; a request may reach it long after its sender has given up or  *)
(* crashed.  A second delivery of a request finds its key or meets the     *)
(* same refusal, so that one copy on the wire is enough.                   *)
(*                                                                         *)
(* Left out: content but for its presence, recall (which only reads), and  *)
(* the audit, whose failure is one of StorageFails.                        *)
(***************************************************************************)
EXTENDS Naturals, FiniteSets

CONSTANTS
  Job,         (* intents of the user                                      *)
  Unfit,       (* those whose content the service does not take            *)
  ListLimit,   (* rows that recovery lists of a kind: 200                  *)
  MaxCrashes,  (* bound: ends of the process, orderly or not               *)
  MaxFaults    (* bound: lost or garbled answers and storage errors        *)

ASSUME MemoryAssumption ==
  /\ "before" \notin Job /\ "nowhere" \notin Job /\ Unfit \subseteq Job
  /\ ListLimit \in Nat \ {0} /\ MaxCrashes \in Nat /\ MaxFaults \in Nat

VARIABLES
  kind,     (* what the Job is                                             *)
  aim,      (* the memory it is about                                      *)
  older,    (* its rows by created_at: the pairs of an older and a newer   *)
            (* Job, by the clock that each read when it began              *)
  cand,     (* its MemoryCandidate                                         *)
  oper,     (* its MemoryOperation                                         *)
  pc,       (* the request, or recovery, working on it                     *)
  via,      (* the request that it has sent                                *)
  res,      (* the answer                                                  *)
  mem,      (* the lifecycle of the memories of the service                *)
  ledger,   (* the idempotency keys that the service has recorded          *)
  wire,     (* requests on their way to the service                        *)
  phase,    (* the process                                                 *)
  todo,     (* what recovery has listed and not looked at                  *)
  missed,   (* history: the open rows that its lists left out              *)
  crashes, faults

rows == <<cand, oper>>
work == <<pc, via, res>>
remote == <<mem, ledger, wire>>
recovery == <<phase, todo, missed>>
counts == <<crashes, faults>>
vars == <<kind, aim, older, rows, work, remote, recovery, counts>>

Key == {"create", "supersede", "forget"} \X Job
Old == <<"create", "before">>                (* there before the first Job *)
Nowhere == <<"create", "nowhere">>           (* an id that nothing has     *)
Memory == ({"create", "supersede"} \X Job) \cup {Old, Nowhere}

Open == {"PENDING", "FAILED"}
NoCandidate == [decision |-> "none", status |-> "none", content |-> FALSE, code |-> "none", memory |-> Nowhere]
NoOperation == [status |-> "none", code |-> "none"]

TypeOK ==
  /\ kind \in [Job -> {"none", "remember", "supersede", "forget"}]
  /\ aim \in [Job -> Memory] /\ older \subseteq Job \X Job
  /\ cand \in [Job -> [decision : {"none", "PENDING", "APPROVED", "REJECTED"},
                       status : Open \cup {"none", "NOT_REQUESTED", "SUCCEEDED"},
                       content : BOOLEAN,
                       code : {"none", "unavailable", "refused", "garbled"}, memory : Memory]]
  /\ oper \in [Job -> [status : Open \cup {"none", "SUCCEEDED"},
                       code : {"none", "unavailable", "refused", "garbled", "policy"}]]
  /\ pc \in [Job -> {"new", "asked", "decide", "operation", "rejected", "send",
                     "waiting", "answered", "copy", "idle"}]
  /\ via \in [Job -> {"create", "supersede", "forget"}]
  /\ res \in [Job -> {"none", "ok", "unavailable", "refused", "garbled"}]
  /\ mem \in [Memory -> {"none", "ACTIVE", "SUPERSEDED", "FORGOTTEN"}]
  /\ ledger \subseteq Key /\ wire \subseteq Key
  /\ phase \in {"down", "candidates", "operations", "up"} /\ todo \subseteq Job
  /\ missed \subseteq {"candidate", "operation"} \X Job
  /\ crashes \in 0 .. MaxCrashes /\ faults \in 0 .. MaxFaults

Init ==
  /\ kind = [j \in Job |-> "none"] /\ aim = [j \in Job |-> Nowhere] /\ older = {}
  /\ cand = [j \in Job |-> NoCandidate] /\ oper = [j \in Job |-> NoOperation]
  /\ pc = [j \in Job |-> "new"] /\ via = [j \in Job |-> "create"]
  /\ res = [j \in Job |-> "none"]
  /\ mem = [m \in Memory |-> IF m = Old THEN "ACTIVE" ELSE "none"]
  /\ ledger = {} /\ wire = {}
  /\ phase = "up" /\ todo = {} /\ missed = {}
  /\ crashes = 0 /\ faults = 0

At(j, step) == pc[j] = step
Goto(j, step) == pc' = [pc EXCEPT ![j] = step]
Busy == {j \in Job : pc[j] \notin {"new", "idle"}}
Fault == faults < MaxFaults /\ faults' = faults + 1 /\ UNCHANGED crashes

Begins(j) == older' = older \cup {i \in Job : pc[i] # "new"} \X {j}

(***************************************************************************)
(* remember                                                                *)
(***************************************************************************)
Remember(j) ==
  /\ phase = "up" /\ At(j, "new")
  /\ kind' = [kind EXCEPT ![j] = "remember"] /\ Begins(j)
  /\ cand' = [cand EXCEPT ![j] = [@ EXCEPT !.decision = "PENDING", !.status = "NOT_REQUESTED",
                                           !.content = TRUE]]
  /\ Goto(j, "decide")
  /\ UNCHANGED <<aim, oper, via, res, remote, recovery, counts>>

(* The policy refuses a scope that it does not know.                       *)
Decide(j) ==
  /\ At(j, "decide")
  /\ \/ /\ cand' = [cand EXCEPT ![j].decision = "APPROVED", ![j].status = "PENDING"]
        /\ Goto(j, "send") /\ via' = [via EXCEPT ![j] = "create"]
     \/ /\ cand' = [cand EXCEPT ![j].decision = "REJECTED", ![j].content = FALSE]
        /\ Goto(j, "idle") /\ UNCHANGED via
  /\ UNCHANGED <<kind, aim, older, oper, res, remote, recovery, counts>>

(***************************************************************************)
(* supersede                                                               *)
(***************************************************************************)
(* get_memory; a target that is forgotten has no scope, and its candidate   *)
(* is refused by its own constructor.                                      *)
Supersede(j, m) ==
  /\ phase = "up" /\ At(j, "new") /\ (mem[m] # "none" \/ m = Nowhere)
  /\ kind' = [kind EXCEPT ![j] = "supersede"] /\ Begins(j)
  /\ aim' = [aim EXCEPT ![j] = m]
  /\ \/ mem[m] = "none" /\ Goto(j, "rejected")
     \/ mem[m] = "FORGOTTEN" /\ Goto(j, "idle")
     \/ mem[m] \in {"ACTIVE", "SUPERSEDED"} /\ Goto(j, "asked")
  /\ UNCHANGED <<rows, via, res, remote, recovery, counts>>

(* A memory of another application may have a scope that is not allowed.   *)
SaveReplacement(j) ==
  /\ At(j, "asked")
  /\ \/ /\ cand' = [cand EXCEPT ![j] = [@ EXCEPT !.decision = "APPROVED", !.status = "PENDING",
                                                 !.content = TRUE]]
        /\ Goto(j, "operation")
     \/ /\ aim[j] = Old
        /\ cand' = [cand EXCEPT ![j] = [@ EXCEPT !.decision = "REJECTED", !.status = "NOT_REQUESTED"]]
        /\ Goto(j, "rejected")
  /\ UNCHANGED <<kind, aim, older, oper, via, res, remote, recovery, counts>>

SaveRejected(j) ==
  /\ At(j, "rejected")
  /\ oper' = [oper EXCEPT ![j] = [status |-> "FAILED",
                                  code |-> IF aim[j] = Nowhere THEN "refused" ELSE "policy"]]
  /\ Goto(j, "idle")
  /\ UNCHANGED <<kind, aim, older, cand, via, res, remote, recovery, counts>>

SaveSupersede(j) ==
  /\ At(j, "operation")
  /\ oper' = [oper EXCEPT ![j].status = "PENDING"]
  /\ Goto(j, "send") /\ via' = [via EXCEPT ![j] = "supersede"]
  /\ UNCHANGED <<kind, aim, older, cand, res, remote, recovery, counts>>

(***************************************************************************)
(* forget                                                                  *)
(***************************************************************************)
Forget(j, m) ==
  /\ phase = "up" /\ At(j, "new") /\ (mem[m] # "none" \/ m = Nowhere)
  /\ kind' = [kind EXCEPT ![j] = "forget"] /\ Begins(j)
  /\ aim' = [aim EXCEPT ![j] = m]
  /\ oper' = [oper EXCEPT ![j].status = "PENDING"]
  /\ Goto(j, "send") /\ via' = [via EXCEPT ![j] = "forget"]
  /\ UNCHANGED <<cand, res, remote, recovery, counts>>

(***************************************************************************)
(* _attempt_create, _attempt_supersede and _attempt_forget                 *)
(***************************************************************************)
Send(j) ==
  /\ At(j, "send")
  /\ wire' = wire \cup {<<via[j], j>>}
  /\ Goto(j, "waiting") /\ res' = [res EXCEPT ![j] = "none"]
  /\ UNCHANGED <<kind, aim, older, rows, via, mem, ledger, recovery, counts>>

(* A refusal is an answer of 400 or more, by whatever code.                *)
Accepts(k) ==
  \/ k[1] = "create" /\ k[2] \notin Unfit
  \/ k[1] = "supersede" /\ mem[aim[k[2]]] = "ACTIVE" /\ k[2] \notin Unfit
  \/ k[1] = "forget" /\ mem[aim[k[2]]] # "none"

After(k) ==
  CASE k[1] = "create"    -> [mem EXCEPT ![k] = "ACTIVE"]
    [] k[1] = "supersede" -> [mem EXCEPT ![aim[k[2]]] = "SUPERSEDED", ![k] = "ACTIVE"]
    [] k[1] = "forget"    -> [mem EXCEPT ![aim[k[2]]] = "FORGOTTEN"]

Answered(k, answer) ==
  res' = [res EXCEPT ![k[2]] = IF pc[k[2]] = "waiting" /\ via[k[2]] = k[1] THEN answer ELSE @]

(* The service, at any time after the request was sent.                    *)
Serve(k) ==
  /\ k \in wire /\ wire' = wire \ {k}
  /\ \/ k \in ledger /\ Answered(k, "ok") /\ UNCHANGED <<mem, ledger>>
     \/ /\ k \notin ledger /\ Accepts(k)
        /\ mem' = After(k) /\ ledger' = ledger \cup {k}
        /\ Answered(k, "ok")
     \/ k \notin ledger /\ ~Accepts(k) /\ Answered(k, "refused") /\ UNCHANGED <<mem, ledger>>
  /\ UNCHANGED <<kind, aim, older, rows, pc, via, recovery, counts>>

(* The answer; or there is none in time; or it makes no sense.             *)
Hear(j) ==
  /\ At(j, "waiting")
  /\ \/ res[j] # "none" /\ UNCHANGED <<res, counts>>
     \/ res' = [res EXCEPT ![j] = "unavailable"] /\ Fault
     \/ res[j] # "none" /\ res' = [res EXCEPT ![j] = "garbled"] /\ Fault
  /\ Goto(j, "answered")
  /\ UNCHANGED <<kind, aim, older, rows, via, remote, recovery>>

Stored(j) == [cand EXCEPT ![j].status = "SUCCEEDED", ![j].content = FALSE, ![j].memory = <<via[j], j>>]
(* A mutant of NotStored.                                                 *)
NotStoredScrubbed(j) ==
  [cand EXCEPT ![j].status = "FAILED", ![j].code = res[j], ![j].content = FALSE]
NotStored(j) == [cand EXCEPT ![j].status = "FAILED", ![j].code = res[j]]
OutcomeHoped(j) == Stored(j)
Outcome(j) == IF res[j] = "ok" THEN Stored(j) ELSE NotStored(j)

RecordCreate(j) ==
  /\ At(j, "answered") /\ via[j] = "create"
  /\ cand' = Outcome(j)
  /\ Goto(j, "idle")
  /\ UNCHANGED <<kind, aim, older, oper, via, res, remote, recovery, counts>>

(* The operation first; for a supersede the candidate next.                *)
RecordOperation(j) ==
  /\ At(j, "answered") /\ via[j] # "create"
  /\ oper' = [oper EXCEPT ![j] = IF res[j] = "ok" THEN [@ EXCEPT !.status = "SUCCEEDED"]
                                 ELSE [status |-> "FAILED", code |-> res[j]]]
  /\ Goto(j, IF via[j] = "supersede" THEN "copy" ELSE "idle")
  /\ UNCHANGED <<kind, aim, older, cand, via, res, remote, recovery, counts>>

RecordReplacement(j) ==
  /\ At(j, "copy")
  /\ cand' = Outcome(j)
  /\ Goto(j, "idle")
  /\ UNCHANGED <<kind, aim, older, oper, via, res, remote, recovery, counts>>

(***************************************************************************)
(* recover_pending_operations, before anybody is served                    *)
(***************************************************************************)
(* A mutant of Replayable.                                                *)
ReplayableAfterError(row) == row.status = "FAILED" /\ row.code = "unavailable"
Replayable(row) == row.status = "PENDING" \/ row.code = "unavailable"

(* A list is one page, the oldest first, and there is no second one.  A    *)
(* FAILED row that is not replayed stays open, and so on the list, for ever. *)
Least(m, n) == IF m < n THEN m ELSE n

IsPage(page, open) ==
  /\ page \subseteq open
  /\ Cardinality(page) = Least(ListLimit, Cardinality(open))
  /\ page \X (open \ page) \subseteq older

OffPage(page, j) == Cardinality(page) = ListLimit /\ page \X {j} \subseteq older

OpenCandidates == {j \in Job : cand[j].decision = "APPROVED" /\ cand[j].status \in Open}
OpenOperations == {j \in Job : oper[j].status \in Open}

Start ==
  /\ phase = "down"
  /\ phase' = "candidates"
  /\ \E page \in SUBSET OpenCandidates :
       /\ IsPage(page, OpenCandidates)
       /\ todo' = page
       /\ missed' = {"candidate"} \X {j \in OpenCandidates \ page : OffPage(page, j)}
  /\ UNCHANGED <<kind, aim, older, rows, work, remote, counts>>

(* retry_pending_candidate, whoever the candidate belongs to               *)
RecoverCandidate(j) ==
  /\ phase = "candidates" /\ j \in todo /\ Busy = {}
  /\ todo' = todo \ {j}
  /\ \/ /\ Replayable(cand[j])
        /\ Goto(j, "send") /\ via' = [via EXCEPT ![j] = "create"]
     \/ ~Replayable(cand[j]) /\ UNCHANGED <<pc, via>>
  /\ UNCHANGED <<kind, aim, older, rows, res, remote, phase, missed, counts>>

ListOperations ==
  /\ phase = "candidates" /\ todo = {} /\ Busy = {}
  /\ phase' = "operations"
  /\ \E page \in SUBSET OpenOperations :
       /\ IsPage(page, OpenOperations)
       /\ todo' = page
       /\ missed' = missed \cup
            ({"operation"} \X {j \in OpenOperations \ page : OffPage(page, j)})
  /\ UNCHANGED <<kind, aim, older, rows, work, remote, counts>>

(* retry_pending_operation; a supersede needs the content of its candidate *)
MayRetry(j) == Replayable(oper[j]) /\ (kind[j] = "forget" \/ cand[j].content)

RecoverOperation(j) ==
  /\ phase = "operations" /\ j \in todo /\ Busy = {}
  /\ todo' = todo \ {j}
  /\ \/ /\ MayRetry(j)
        /\ Goto(j, "send") /\ via' = [via EXCEPT ![j] = kind[j]]
     \/ ~MayRetry(j) /\ UNCHANGED <<pc, via>>
  /\ UNCHANGED <<kind, aim, older, rows, res, remote, phase, missed, counts>>

Serving ==
  /\ phase = "operations" /\ todo = {} /\ Busy = {}
  /\ phase' = "up" /\ missed' = {}
  /\ UNCHANGED <<kind, aim, older, rows, work, remote, todo, counts>>

(***************************************************************************)
(* Faults                                                                  *)
(***************************************************************************)
AllIdle == pc' = [j \in Job |-> IF pc[j] = "new" THEN "new" ELSE "idle"]

Crash ==
  /\ phase # "down" /\ crashes < MaxCrashes
  /\ crashes' = crashes + 1 /\ UNCHANGED faults
  /\ phase' = "down" /\ todo' = {} /\ missed' = {}
  /\ AllIdle
  /\ UNCHANGED <<kind, aim, older, rows, via, res, remote>>

(* A write, or its audit, fails: the request ends there; a recovery ends   *)
(* the start of the Core.                                                  *)
StorageFails(j) ==
  /\ j \in Busy /\ ~At(j, "waiting") /\ Fault
  /\ \/ phase = "up" /\ Goto(j, "idle") /\ UNCHANGED recovery
     \/ phase # "up" /\ AllIdle /\ phase' = "down" /\ todo' = {} /\ missed' = {}
  /\ UNCHANGED <<kind, aim, older, rows, via, res, remote>>

Request(j) ==
  \/ Remember(j) \/ (\E m \in Memory : Supersede(j, m) \/ Forget(j, m))
  \/ Decide(j) \/ SaveReplacement(j) \/ SaveRejected(j) \/ SaveSupersede(j)
  \/ Send(j) \/ Hear(j) \/ RecordCreate(j) \/ RecordOperation(j) \/ RecordReplacement(j)

Recover ==
  \/ Start \/ ListOperations \/ Serving
  \/ \E j \in Job : RecoverCandidate(j) \/ RecoverOperation(j)

Next ==
  \/ \E j \in Job : Request(j) \/ StorageFails(j)
  \/ \E k \in Key : Serve(k)
  \/ Recover
  \/ Crash

Spec == Init /\ [][Next]_vars

(***************************************************************************)
(* Properties                                                              *)
(***************************************************************************)

(* The content of an approved candidate is scrubbed only when the service  *)
(* has it: through crashes and lost answers nothing is forgotten that the  *)
(* user asked to remember.                                                 *)
ScrubbedIsStored ==
  \A j \in Job : cand[j].decision = "APPROVED" /\ ~cand[j].content =>
    cand[j].memory = <<cand[j].memory[1], j>> /\ cand[j].memory \in ledger

(* An operation that was refused had no effect, and will have none: no     *)
(* delayed copy of its request takes effect after the answer.              *)
RefusedHasNoEffect ==
  \A j \in Job : oper[j].status = "FAILED" /\ oper[j].code = "refused" =>
    <<kind[j], j>> \notin ledger

(* A Supersede may leave a second memory, one that nobody asked for: its   *)
(* replacement, remembered on its own.  Only recovery asks for that one.   *)
SupersedeRememberedOnlyInRecovery ==
  [][\A j \in Job : <<"create", j>> \in wire' \ wire =>
       kind[j] = "remember" \/ phase = "candidates"]_vars

(* When the Core begins to serve, recovery has asked the service about all *)
(* that was open and that it had listed: nothing is PENDING but a Supersede *)
(* whose replacement was remembered as a memory of its own, and what found *)
(* no place on a list full of older rows.  As evidence stays on the list,  *)
(* that place may never come: as many old FAILED rows as a list holds, and *)
(* whatever is newer is PENDING for good.                                  *)
RecoverySettles ==
  [][Serving => \A j \in Job :
       /\ cand[j].decision = "APPROVED" /\ <<"candidate", j>> \notin missed =>
            cand[j].status # "PENDING"
       /\ oper[j].status = "PENDING" /\ <<"operation", j>> \notin missed =>
            cand[j].memory = <<"create", j>>]_vars

(* Every request is wanted by a row that is stored before it is sent, takes *)
(* effect once, and its row says so only afterwards.                       *)
Wanted ==
  {k \in Key : IF k[1] = "create" THEN cand[k[2]].decision = "APPROVED"
               ELSE kind[k[2]] = k[1] /\ oper[k[2]].status # "none"}
Confirmed ==
  {k \in Key : IF k[1] = "create" THEN cand[k[2]].memory = k ELSE oper[k[2]].status = "SUCCEEDED" /\ kind[k[2]] = k[1]}
Writes == INSTANCE ConvergingWrites
            WITH Write <- Key, wanted <- Wanted, effected <- ledger, confirmed <- Confirmed
ImplementsConvergingWrites == Writes!Spec

(* Intents are in order at every step: content goes only when it is stored, *)
(* and what was refused has no effect.                                      *)
IntentsInOrder == TypeOK /\ ScrubbedIsStored /\ RefusedHasNoEffect

(* Recovery settles what it lists and is the only one that asks for a       *)
(* memory nobody wanted.                                                    *)
RecoveryConverges == RecoverySettles /\ SupersedeRememberedOnlyInRecovery
==============================================================================
