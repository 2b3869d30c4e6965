-------------------------- MODULE MemoryWritesProofs --------------------------
(***************************************************************************)
(* Theorems of MemoryWrites for every set of intents and every bound on    *)
(* crashes and faults.                                                     *)
(***************************************************************************)
EXTENDS MemoryWrites, FiniteSetTheorems, TLAPS

InFlight(j) == pc[j] \in {"send", "waiting", "answered"}
Outstanding(j) == InFlight(j) \/ At(j, "copy")

Refused(j) == oper[j].status = "FAILED" /\ oper[j].code = "refused"

(* What an intent knows by where it is, before it sends its request.       *)
Stage(j) ==
  /\ pc[j] \in {"decide", "asked", "operation", "rejected"} => phase = "up"
  /\ At(j, "new") => kind[j] = "none" /\ cand[j] = NoCandidate /\ oper[j] = NoOperation
  /\ At(j, "decide") => /\ kind[j] = "remember" /\ cand[j].decision = "PENDING"
                        /\ cand[j].content /\ cand[j].memory = Nowhere
  /\ At(j, "asked") => kind[j] = "supersede" /\ cand[j] = NoCandidate /\ oper[j] = NoOperation
  /\ At(j, "operation") => /\ kind[j] = "supersede" /\ oper[j] = NoOperation
                           /\ cand[j].decision = "APPROVED" /\ cand[j].content
  /\ At(j, "rejected") => /\ kind[j] = "supersede" /\ oper[j] = NoOperation
                          /\ cand[j].decision # "APPROVED"
StageOK == \A j \in Job : Stage(j)

(* The rows of one intent agree.                                           *)
RowsAgree(j) ==
  /\ cand[j].content => cand[j].memory = Nowhere
  /\ cand[j].memory = <<"supersede", j>> => oper[j].status = "SUCCEEDED"
  /\ oper[j].status # "none" => kind[j] \in {"supersede", "forget"}
  /\ oper[j].status = "PENDING" /\ kind[j] = "supersede" => cand[j].decision = "APPROVED"
RowOK == \A j \in Job : RowsAgree(j)

(* A request that is being made is wanted and still open.                  *)
RequestFits(j) ==
  /\ Outstanding(j) => <<via[j], j>> \in Wanted
  /\ At(j, "copy") => via[j] = "supersede"
  /\ Outstanding(j) /\ via[j] = "supersede" => cand[j].content
  /\ InFlight(j) /\ via[j] # "create" => oper[j].status \in Open /\ ~Refused(j)
  /\ At(j, "send") /\ via[j] = "create" => kind[j] = "remember" \/ phase = "candidates"
RequestOK == \A j \in Job : RequestFits(j)

(* What the answer says is so.                                             *)
AnswerTrue(j) ==
  /\ pc[j] \in {"waiting", "answered", "copy"} /\ res[j] = "ok" => <<via[j], j>> \in ledger
  /\ At(j, "copy") /\ res[j] = "ok" => oper[j].status = "SUCCEEDED"
  /\ pc[j] \in {"waiting", "answered"} /\ res[j] = "refused" =>
       <<via[j], j>> \notin ledger \cup wire
AnswerOK == \A j \in Job : AnswerTrue(j)

(* No request on the wire or in the ledger that no row wants, and none of  *)
(* an operation that was refused.                                          *)
WireOK ==
  /\ wire \subseteq Wanted /\ ledger \subseteq Wanted /\ Confirmed \subseteq ledger
  /\ \A j \in Job : Refused(j) => <<kind[j], j>> \notin ledger \cup wire

(* Recovery works alone through what it has listed.                        *)
ListOK ==
  /\ phase = "down" => Busy = {}
  /\ phase \in {"down", "up"} => todo = {}
  /\ \A j \in todo : At(j, "idle")
  /\ phase = "candidates" => \A j \in todo : cand[j].decision = "APPROVED"
  /\ phase = "operations" => \A j \in todo : oper[j].status \in Open

(* What has begun is finite, and so is what is open: a list that leaves    *)
(* something out is full.                                                  *)
FewOK == IsFiniteSet({j \in Job : pc[j] # "new"})

(* What is open is on recovery's list, or being asked for, or was missed.  *)
Listed(j) ==
  /\ phase = "candidates" /\ cand[j].decision = "APPROVED" /\ cand[j].status = "PENDING" =>
       \/ j \in todo \/ (InFlight(j) /\ via[j] = "create")
       \/ <<"candidate", j>> \in missed
  /\ phase = "operations" /\ cand[j].decision = "APPROVED" /\ cand[j].status = "PENDING" =>
       <<"candidate", j>> \in missed
  /\ phase = "operations" /\ oper[j].status = "PENDING" =>
       \/ j \in todo \/ (InFlight(j) /\ via[j] # "create") \/ cand[j].memory = <<"create", j>>
       \/ <<"operation", j>> \in missed
ListedOK == \A j \in Job : Listed(j)

IInv ==
  /\ TypeOK /\ StageOK /\ RowOK /\ RequestOK /\ AnswerOK /\ WireOK /\ ListOK /\ FewOK /\ ListedOK
  /\ ScrubbedIsStored

(* The initial state satisfies the invariant.                              *)
LEMMA InitIInv == Init => IInv
<1> SUFFICES ASSUME Init PROVE IInv
  OBVIOUS
<1> USE DEF Init, At, InFlight, Outstanding, NoCandidate, NoOperation, Refused
<1>1. TypeOK
  <2>1. /\ kind \in [Job -> {"none", "remember", "supersede", "forget"}]
        /\ aim \in [Job -> Memory]
    BY DEF Memory, Nowhere
  <2>2. cand \in [Job -> [decision : {"none", "PENDING", "APPROVED", "REJECTED"},
                          status : Open \cup {"none", "NOT_REQUESTED", "SUCCEEDED"},
                          content : BOOLEAN,
                          code : {"none", "unavailable", "refused", "garbled"}, memory : Memory]]
    BY DEF Memory, Nowhere
  <2>3. oper \in [Job -> [status : Open \cup {"none", "SUCCEEDED"},
                          code : {"none", "unavailable", "refused", "garbled", "policy"}]]
    OBVIOUS
  <2>4. /\ pc \in [Job -> {"new", "asked", "decide", "operation", "rejected", "send",
                           "waiting", "answered", "copy", "idle"}]
        /\ via \in [Job -> {"create", "supersede", "forget"}]
        /\ res \in [Job -> {"none", "ok", "unavailable", "refused", "garbled"}]
        /\ mem \in [Memory -> {"none", "ACTIVE", "SUPERSEDED", "FORGOTTEN"}]
    OBVIOUS
  <2>5. /\ ledger \subseteq Key /\ wire \subseteq Key
        /\ phase \in {"down", "candidates", "operations", "up"} /\ todo \subseteq Job
        /\ crashes \in 0 .. MaxCrashes /\ faults \in 0 .. MaxFaults
    BY MemoryAssumption
  <2> QED
    BY <2>1, <2>2, <2>3, <2>4, <2>5 DEF TypeOK
<1>2. StageOK /\ RowOK /\ RequestOK /\ AnswerOK
  BY DEF StageOK, Stage, RowOK, RowsAgree, RequestOK, RequestFits, AnswerOK, AnswerTrue, Nowhere
<1>3. WireOK
  BY MemoryAssumption DEF WireOK, Confirmed, Key, Nowhere
<1>4. ListOK /\ ListedOK /\ ScrubbedIsStored /\ FewOK
  <2>1. {j \in Job : pc[j] # "new"} = {}
    OBVIOUS
  <2> QED
    BY <2>1, FS_EmptySet DEF ListOK, ListedOK, Listed, Busy, ScrubbedIsStored, FewOK
<1> QED
  BY <1>1, <1>2, <1>3, <1>4 DEF IInv

(***************************************************************************)
(* What each write of a candidate's row says; the other rows stay.         *)
(***************************************************************************)
CandRow == [decision : {"none", "PENDING", "APPROVED", "REJECTED"},
            status : Open \cup {"none", "NOT_REQUESTED", "SUCCEEDED"}, content : BOOLEAN,
            code : {"none", "unavailable", "refused", "garbled"}, memory : Memory]

CandidateWritten(j) == cand' \in [Job -> CandRow] /\ \A i \in Job \ {j} : cand'[i] = cand[i]

LEMMA CandidateWrite ==
  ASSUME TypeOK, NEW j \in Job, NEW row \in CandRow, cand' = [cand EXCEPT ![j] = row]
  PROVE  CandidateWritten(j) /\ cand'[j] = row
BY DEF TypeOK, CandRow, CandidateWritten

(* remember approves the candidate and keeps its content, or rejects it.   *)
LEMMA DecideRow ==
  ASSUME TypeOK, NEW j \in Job, Decide(j)
  PROVE  /\ CandidateWritten(j)
         /\ cand'[j].memory = cand[j].memory
         /\ \/ /\ cand'[j].decision = "APPROVED" /\ cand'[j].status = "PENDING"
               /\ cand'[j].content <=> cand[j].content
               /\ pc' = [pc EXCEPT ![j] = "send"] /\ via' = [via EXCEPT ![j] = "create"]
            \/ /\ cand'[j].decision = "REJECTED" /\ ~cand'[j].content
               /\ pc' = [pc EXCEPT ![j] = "idle"] /\ via' = via
<1>1. cand \in [Job -> CandRow] /\ cand[j] \in CandRow
  BY DEF TypeOK, CandRow
<1>2. CASE /\ cand' = [cand EXCEPT ![j].decision = "APPROVED", ![j].status = "PENDING"]
           /\ pc' = [pc EXCEPT ![j] = "send"] /\ via' = [via EXCEPT ![j] = "create"]
  <2> DEFINE row == [cand[j] EXCEPT !.decision = "APPROVED", !.status = "PENDING"]
  <2>1. row \in CandRow
    BY <1>1 DEF CandRow, Open
  <2>2. cand' = [cand EXCEPT ![j] = row]
    BY <1>1, <1>2
  <2>3. row.decision = "APPROVED" /\ row.status = "PENDING" /\ row.memory = cand[j].memory
    BY <1>1 DEF CandRow
  <2>4. row.content <=> cand[j].content
    BY <1>1 DEF CandRow
  <2>5. CandidateWritten(j) /\ cand'[j] = row
    BY <2>1, <2>2, CandidateWrite
  <2> HIDE DEF row
  <2> QED
    BY <1>1, <1>2, <2>3, <2>4, <2>5 DEF TypeOK
<1>3. CASE /\ cand' = [cand EXCEPT ![j].decision = "REJECTED", ![j].content = FALSE]
           /\ pc' = [pc EXCEPT ![j] = "idle"] /\ via' = via
  <2> DEFINE row == [cand[j] EXCEPT !.decision = "REJECTED", !.content = FALSE]
  <2>1. row \in CandRow
    BY <1>1 DEF CandRow, Open
  <2>2. cand' = [cand EXCEPT ![j] = row]
    BY <1>1, <1>3
  <2>3. row.decision = "REJECTED" /\ row.memory = cand[j].memory
    BY <1>1 DEF CandRow
  <2>4. ~row.content
    BY <1>1 DEF CandRow
  <2>5. CandidateWritten(j) /\ cand'[j] = row
    BY <2>1, <2>2, CandidateWrite
  <2> HIDE DEF row
  <2> QED
    BY <1>1, <1>3, <2>3, <2>4, <2>5 DEF TypeOK
<1> QED
  BY <1>2, <1>3 DEF Decide, Goto

(* remember stores the candidate with its content, undecided.              *)
LEMMA RememberRow ==
  ASSUME TypeOK, NEW j \in Job, Remember(j)
  PROVE  /\ CandidateWritten(j)
         /\ cand'[j].memory = cand[j].memory
         /\ cand'[j].decision = "PENDING" /\ cand'[j].content
<1> DEFINE row == [cand[j] EXCEPT !.decision = "PENDING", !.status = "NOT_REQUESTED",
                                  !.content = TRUE]
<1>1. cand \in [Job -> CandRow] /\ cand[j] \in CandRow
  BY DEF TypeOK, CandRow
<1>2. row \in CandRow
  BY <1>1 DEF CandRow
<1>3. cand' = [cand EXCEPT ![j] = row]
  BY DEF Remember
<1>4. row.decision = "PENDING" /\ row.memory = cand[j].memory
  BY <1>1 DEF CandRow
<1>5. row.content
  BY <1>1 DEF CandRow
<1>6. CandidateWritten(j) /\ cand'[j] = row
  BY <1>2, <1>3, CandidateWrite
<1> HIDE DEF row
<1> QED
  BY <1>4, <1>5, <1>6

(* supersede approves its replacement and stores its content, or refuses.  *)
LEMMA ReplacementRow ==
  ASSUME TypeOK, NEW j \in Job, SaveReplacement(j)
  PROVE  /\ CandidateWritten(j)
         /\ cand'[j].memory = cand[j].memory
         /\ \/ /\ cand'[j].decision = "APPROVED" /\ cand'[j].status = "PENDING"
               /\ cand'[j].content /\ pc' = [pc EXCEPT ![j] = "operation"]
            \/ /\ cand'[j].decision = "REJECTED" /\ (cand'[j].content <=> cand[j].content)
               /\ pc' = [pc EXCEPT ![j] = "rejected"]
<1>1. cand \in [Job -> CandRow] /\ cand[j] \in CandRow
  BY DEF TypeOK, CandRow
<1>2. CASE /\ cand' = [cand EXCEPT ![j] = [@ EXCEPT !.decision = "APPROVED", !.status = "PENDING",
                                                   !.content = TRUE]]
           /\ pc' = [pc EXCEPT ![j] = "operation"]
  <2> DEFINE row == [cand[j] EXCEPT !.decision = "APPROVED", !.status = "PENDING", !.content = TRUE]
  <2>1. row \in CandRow
    BY <1>1 DEF CandRow, Open
  <2>2. cand' = [cand EXCEPT ![j] = row]
    BY <1>1, <1>2
  <2>3. row.decision = "APPROVED" /\ row.status = "PENDING" /\ row.memory = cand[j].memory
    BY <1>1 DEF CandRow
  <2>4. row.content
    BY <1>1 DEF CandRow
  <2>5. CandidateWritten(j) /\ cand'[j] = row
    BY <2>1, <2>2, CandidateWrite
  <2> HIDE DEF row
  <2> QED
    BY <1>1, <1>2, <2>3, <2>4, <2>5 DEF TypeOK
<1>3. CASE /\ cand' = [cand EXCEPT ![j] = [@ EXCEPT !.decision = "REJECTED",
                                                   !.status = "NOT_REQUESTED"]]
           /\ pc' = [pc EXCEPT ![j] = "rejected"]
  <2> DEFINE row == [cand[j] EXCEPT !.decision = "REJECTED", !.status = "NOT_REQUESTED"]
  <2>1. row \in CandRow
    BY <1>1 DEF CandRow, Open
  <2>2. cand' = [cand EXCEPT ![j] = row]
    BY <1>1, <1>3
  <2>3. row.decision = "REJECTED" /\ row.memory = cand[j].memory
    BY <1>1 DEF CandRow
  <2>4. row.content <=> cand[j].content
    BY <1>1 DEF CandRow
  <2>5. CandidateWritten(j) /\ cand'[j] = row
    BY <2>1, <2>2, CandidateWrite
  <2> HIDE DEF row
  <2> QED
    BY <1>1, <1>3, <2>3, <2>4, <2>5 DEF TypeOK
<1> QED
  BY <1>2, <1>3 DEF SaveReplacement, Goto

(* An attempt scrubs the content that the service has, and keeps the rest. *)
LEMMA OutcomeRow ==
  ASSUME TypeOK, NEW j \in Job, via[j] \in {"create", "supersede"}, cand' = Outcome(j)
  PROVE  /\ CandidateWritten(j)
         /\ cand'[j].decision = cand[j].decision
         /\ \/ /\ res[j] = "ok" /\ cand'[j].status = "SUCCEEDED" /\ ~cand'[j].content
               /\ cand'[j].memory = <<via[j], j>>
            \/ /\ res[j] # "ok" /\ cand'[j].status = "FAILED"
               /\ cand'[j].memory = cand[j].memory
               /\ cand'[j].content <=> cand[j].content
<1>1. cand \in [Job -> CandRow] /\ cand[j] \in CandRow
  BY DEF TypeOK, CandRow
<1>2. <<via[j], j>> \in Memory
  BY DEF Memory
<1>3. res[j] # "ok" => res[j] \in {"none", "unavailable", "refused", "garbled"}
  BY DEF TypeOK
<1>4. CASE /\ res[j] = "ok"
           /\ cand' = [cand EXCEPT ![j].status = "SUCCEEDED", ![j].content = FALSE,
                                   ![j].memory = <<via[j], j>>]
  <2> DEFINE row == [cand[j] EXCEPT !.status = "SUCCEEDED", !.content = FALSE, !.memory = <<via[j], j>>]
  <2>1. row \in CandRow
    BY <1>1, <1>2 DEF CandRow, Open
  <2>2. cand' = [cand EXCEPT ![j] = row]
    BY <1>1, <1>4
  <2>3. row.status = "SUCCEEDED" /\ row.decision = cand[j].decision /\ row.memory = <<via[j], j>>
    BY <1>1, <1>2 DEF CandRow
  <2>4. ~row.content
    BY <1>1, <1>2 DEF CandRow
  <2>5. CandidateWritten(j) /\ cand'[j] = row
    BY <2>1, <2>2, CandidateWrite
  <2> HIDE DEF row
  <2> QED
    BY <1>1, <1>4, <2>3, <2>4, <2>5 DEF TypeOK
<1>5. CASE /\ res[j] # "ok"
           /\ cand' = [cand EXCEPT ![j].status = "FAILED", ![j].code = res[j]]
  <2> DEFINE row == [cand[j] EXCEPT !.status = "FAILED", !.code = res[j]]
  <2>1. row \in CandRow
    BY <1>1, <1>3, <1>5 DEF CandRow, Open
  <2>2. cand' = [cand EXCEPT ![j] = row]
    BY <1>1, <1>5
  <2>3. row.status = "FAILED" /\ row.decision = cand[j].decision /\ row.memory = cand[j].memory
    BY <1>1, <1>3, <1>5 DEF CandRow
  <2>4. row.content <=> cand[j].content
    BY <1>1, <1>3, <1>5 DEF CandRow
  <2>5. CandidateWritten(j) /\ cand'[j] = row
    BY <2>1, <2>2, CandidateWrite
  <2> HIDE DEF row
  <2> QED
    BY <1>1, <1>5, <2>3, <2>4, <2>5 DEF TypeOK
<1> QED
  BY <1>4, <1>5 DEF Outcome, Stored, NotStored

(* An attempt closes the operation with what the service said.             *)
LEMMA OperationRow ==
  ASSUME TypeOK, NEW j \in Job, RecordOperation(j)
  PROVE  /\ oper' \in [Job -> [status : Open \cup {"none", "SUCCEEDED"},
                               code : {"none", "unavailable", "refused", "garbled", "policy"}]]
         /\ \A i \in Job \ {j} : oper'[i] = oper[i]
         /\ res[j] = "ok" => oper'[j].status = "SUCCEEDED"
         /\ res[j] # "ok" => oper'[j].status = "FAILED" /\ oper'[j].code = res[j]
BY DEF TypeOK, RecordOperation, Open

(* The places of a request.                                                *)
Step == {"new", "asked", "decide", "operation", "rejected", "send", "waiting", "answered", "copy",
         "idle"}

(* What begins is entered among the older and the newer.                   *)
LEMMA BeginsTyped ==
  ASSUME TypeOK, NEW j \in Job, Begins(j) PROVE older' \subseteq Job \X Job
BY DEF TypeOK, Begins

(* An operation that is about to be sent is PENDING.                      *)
LEMMA OperationOpened ==
  ASSUME TypeOK, NEW j \in Job, oper' = [oper EXCEPT ![j].status = "PENDING"]
  PROVE  oper' \in [Job -> [status : Open \cup {"none", "SUCCEEDED"},
                            code : {"none", "unavailable", "refused", "garbled", "policy"}]]
<1> DEFINE Row == [status : Open \cup {"none", "SUCCEEDED"},
                   code : {"none", "unavailable", "refused", "garbled", "policy"}]
           row == [oper[j] EXCEPT !.status = "PENDING"]
<1>1. oper \in [Job -> Row] /\ oper[j] \in Row
  BY DEF TypeOK
<1>2. row \in Row
  BY <1>1 DEF Open
<1>3. oper' = [oper EXCEPT ![j] = row]
  OBVIOUS
<1>4. oper' \in [Job -> Row]
  <2> HIDE DEF Row, row
  <2> QED
    BY <1>1, <1>2, <1>3
<1> QED
  BY <1>4

(* Every step keeps the types.                                             *)
LEMMA StepTyped == IInv /\ [Next]_vars => TypeOK'
<1> SUFFICES ASSUME IInv, [Next]_vars PROVE TypeOK'
  OBVIOUS
<1>bounds. MaxCrashes \in Nat /\ MaxFaults \in Nat
  BY MemoryAssumption
<1> USE <1>bounds DEF Goto, At, rows, work, remote, recovery, counts
<1>0. TypeOK /\ \A j \in Job : At(j, "copy") => via[j] = "supersede"
  BY DEF IInv, RequestOK, RequestFits
<1>1. ASSUME NEW j \in Job, Remember(j) PROVE TypeOK'
  BY <1>0, <1>1, RememberRow, BeginsTyped DEF TypeOK, Remember, CandidateWritten, CandRow
<1>2. ASSUME NEW j \in Job, Decide(j) PROVE TypeOK'
  <2>1. UNCHANGED <<kind, aim, older, oper, res, mem, ledger, wire, phase, todo, missed,
                    crashes, faults>>
    BY <1>2 DEF Decide
  <2>2. /\ CandidateWritten(j)
        /\ pc' = [pc EXCEPT ![j] = "send"] \/ pc' = [pc EXCEPT ![j] = "idle"]
        /\ via' = [via EXCEPT ![j] = "create"] \/ via' = via
    BY <1>0, <1>2, DecideRow
  <2>3. cand' \in [Job -> CandRow]
    BY <2>2 DEF CandidateWritten
  <2>4. pc' \in [Job -> Step]
    <3>1. pc \in [Job -> Step]
      BY <1>0 DEF TypeOK, Step
    <3> QED
      BY <2>2, <3>1 DEF Step
  <2>5. via' \in [Job -> {"create", "supersede", "forget"}]
    <3>1. via \in [Job -> {"create", "supersede", "forget"}]
      BY <1>0 DEF TypeOK
    <3> QED
      BY <2>2, <3>1
  <2> QED
    BY <1>0, <2>1, <2>3, <2>4, <2>5 DEF TypeOK, CandRow, Step
<1>3. ASSUME NEW j \in Job, SaveReplacement(j) PROVE TypeOK'
  <2>1. UNCHANGED <<kind, aim, older, oper, via, res, mem, ledger, wire, phase, todo, missed,
                    crashes, faults>>
    BY <1>3 DEF SaveReplacement
  <2>2. /\ CandidateWritten(j)
        /\ pc' = [pc EXCEPT ![j] = "operation"] \/ pc' = [pc EXCEPT ![j] = "rejected"]
    BY <1>0, <1>3, ReplacementRow
  <2>3. cand' \in [Job -> CandRow]
    BY <2>2 DEF CandidateWritten
  <2>4. pc' \in [Job -> Step] /\ via' \in [Job -> {"create", "supersede", "forget"}]
    BY <1>0, <2>1, <2>2 DEF TypeOK, Step
  <2> QED
    BY <1>0, <2>1, <2>3, <2>4 DEF TypeOK, CandRow, Step
<1>4. ASSUME NEW j \in Job, NEW m \in Memory, Supersede(j, m) \/ Forget(j, m) PROVE TypeOK'
  <2>1. CASE Supersede(j, m)
    <3>1. /\ kind' = [kind EXCEPT ![j] = "supersede"] /\ aim' = [aim EXCEPT ![j] = m]
          /\ \E step \in {"rejected", "idle", "asked"} : pc' = [pc EXCEPT ![j] = step]
          /\ UNCHANGED <<cand, oper, via, res, mem, ledger, wire, phase, todo, missed, crashes,
                         faults>>
          /\ older' \subseteq Job \X Job
      BY <1>0, <2>1, BeginsTyped DEF Supersede
    <3> QED
      BY <1>0, <3>1 DEF TypeOK
  <2>2. CASE Forget(j, m)
    <3>1. oper' \in [Job -> [status : Open \cup {"none", "SUCCEEDED"},
                             code : {"none", "unavailable", "refused", "garbled", "policy"}]]
      BY <1>0, <2>2, OperationOpened DEF Forget
    <3>2. /\ kind' = [kind EXCEPT ![j] = "forget"] /\ aim' = [aim EXCEPT ![j] = m]
          /\ pc' = [pc EXCEPT ![j] = "send"] /\ via' = [via EXCEPT ![j] = "forget"]
          /\ UNCHANGED <<cand, res, mem, ledger, wire, phase, todo, missed, crashes, faults>>
          /\ older' \subseteq Job \X Job
      BY <1>0, <2>2, BeginsTyped DEF Forget
    <3> QED
      BY <1>0, <3>1, <3>2 DEF TypeOK
  <2> QED
    BY <1>4, <2>1, <2>2
<1>5. ASSUME NEW j \in Job, SaveRejected(j) \/ SaveSupersede(j) PROVE TypeOK'
  <2>1. CASE SaveRejected(j)
    BY <1>0, <2>1 DEF TypeOK, SaveRejected, Open
  <2>2. CASE SaveSupersede(j)
    <3>1. /\ oper' = [oper EXCEPT ![j].status = "PENDING"]
          /\ pc' = [pc EXCEPT ![j] = "send"] /\ via' = [via EXCEPT ![j] = "supersede"]
          /\ UNCHANGED <<kind, aim, older, cand, res, remote, recovery, counts>>
      BY <2>2 DEF SaveSupersede
    <3>2. oper' \in [Job -> [status : Open \cup {"none", "SUCCEEDED"},
                             code : {"none", "unavailable", "refused", "garbled", "policy"}]]
      BY <1>0, <3>1, OperationOpened
    <3> QED
      BY <1>0, <3>1, <3>2 DEF TypeOK
  <2> QED
    BY <1>5, <2>1, <2>2
<1>6. ASSUME NEW j \in Job, Send(j) PROVE TypeOK'
  <2>1. <<via[j], j>> \in Key
    BY <1>0 DEF TypeOK, Key
  <2>2. /\ wire' = wire \cup {<<via[j], j>>}
        /\ pc' = [pc EXCEPT ![j] = "waiting"] /\ res' = [res EXCEPT ![j] = "none"]
        /\ UNCHANGED <<kind, aim, older, cand, oper, via, mem, ledger, phase, todo, missed, crashes,
                       faults>>
    BY <1>6 DEF Send, Goto, rows, recovery, counts
  <2> QED
    BY <1>0, <2>1, <2>2 DEF TypeOK
<1>7. ASSUME NEW j \in Job, Hear(j) PROVE TypeOK'
  BY <1>0, <1>7 DEF TypeOK, Hear, Fault
<1>8. ASSUME NEW j \in Job, RecordCreate(j) \/ RecordReplacement(j) PROVE TypeOK'
  <2>1. via[j] \in {"create", "supersede"} /\ cand' = Outcome(j)
    BY <1>0, <1>8 DEF RecordCreate, RecordReplacement
  <2>2. CandidateWritten(j)
    BY <1>0, <2>1, OutcomeRow
  <2>3. /\ pc' = [pc EXCEPT ![j] = "idle"]
        /\ UNCHANGED <<kind, aim, older, oper, via, res, mem, ledger, wire, phase, todo, missed,
                       crashes, faults>>
    BY <1>8 DEF RecordCreate, RecordReplacement
  <2>4. cand' \in [Job -> CandRow]
    BY <2>2 DEF CandidateWritten
  <2> QED
    BY <1>0, <2>3, <2>4 DEF TypeOK, CandRow
<1>9. ASSUME NEW j \in Job, RecordOperation(j) PROVE TypeOK'
  BY <1>0, <1>9, OperationRow DEF TypeOK, RecordOperation
<1>10. ASSUME NEW j \in Job, StorageFails(j) PROVE TypeOK'
  <2>1. /\ \/ phase' = phase /\ todo' = todo /\ missed' = missed /\ pc' = [pc EXCEPT ![j] = "idle"]
           \/ phase' = "down" /\ todo' = {} /\ missed' = {} /\ AllIdle
        /\ faults' = faults + 1 /\ faults < MaxFaults
        /\ UNCHANGED <<kind, aim, older, cand, oper, via, res, mem, ledger, wire, crashes>>
    BY <1>10 DEF StorageFails, Fault
  <2>2. pc' \in [Job -> Step]
    BY <1>0, <2>1 DEF TypeOK, AllIdle, Step
  <2>3. missed' \subseteq {"candidate", "operation"} \X Job
    BY <1>0, <2>1 DEF TypeOK
  <2> QED
    BY <1>0, <2>1, <2>2, <2>3 DEF TypeOK, Step
<1>11. ASSUME NEW j \in Job, RecoverCandidate(j) PROVE TypeOK'
  BY <1>0, <1>11 DEF TypeOK, RecoverCandidate
<1>12. ASSUME NEW j \in Job, RecoverOperation(j) PROVE TypeOK'
  <2>1. j \in todo => kind[j] \in {"supersede", "forget"}
    BY <1>0, <1>12 DEF IInv, ListOK, RowOK, RowsAgree, Open, RecoverOperation
  <2>2. /\ \/ pc' = [pc EXCEPT ![j] = "send"] /\ via' = [via EXCEPT ![j] = kind[j]]
           \/ pc' = pc /\ via' = via
        /\ j \in todo /\ todo' = todo \ {j}
        /\ UNCHANGED <<kind, aim, older, cand, oper, res, mem, ledger, wire, phase, missed, crashes,
                       faults>>
    BY <1>12 DEF RecoverOperation
  <2>3. kind[j] \in {"create", "supersede", "forget"}
    BY <2>1, <2>2
  <2>4. via' \in [Job -> {"create", "supersede", "forget"}]
    BY <1>0, <2>2, <2>3 DEF TypeOK
  <2>5. pc' \in [Job -> {"new", "asked", "decide", "operation", "rejected", "send",
                         "waiting", "answered", "copy", "idle"}]
    BY <1>0, <2>2 DEF TypeOK
  <2> QED
    BY <1>0, <2>2, <2>4, <2>5 DEF TypeOK
<1>13. ASSUME NEW k \in Key, Serve(k) PROVE TypeOK'
  <2>1. k[1] \in {"create", "supersede", "forget"} /\ k[2] \in Job
    BY DEF Key
  <2>2. k[1] \in {"create", "supersede"} => k \in Memory
    BY DEF Key, Memory
  <2>3. After(k) \in [Memory -> {"none", "ACTIVE", "SUPERSEDED", "FORGOTTEN"}]
    BY <1>0, <2>1, <2>2 DEF TypeOK, After
  <2>4. ASSUME NEW answer \in {"ok", "refused"}, Answered(k, answer)
        PROVE  res' \in [Job -> {"none", "ok", "unavailable", "refused", "garbled"}]
    BY <1>0, <2>1, <2>4 DEF TypeOK, Answered
  <2>5. /\ res' \in [Job -> {"none", "ok", "unavailable", "refused", "garbled"}]
        /\ mem' \in [Memory -> {"none", "ACTIVE", "SUPERSEDED", "FORGOTTEN"}]
        /\ ledger' \subseteq Key /\ wire' \subseteq Key
    BY <1>0, <1>13, <2>3, <2>4 DEF TypeOK, Serve
  <2> QED
    BY <1>0, <1>13, <2>5 DEF TypeOK, Serve
<1>14. ASSUME Start \/ ListOperations \/ Serving PROVE TypeOK'
  <2>1. UNCHANGED <<kind, aim, older, cand, oper, pc, via, res, mem, ledger, wire, crashes, faults>>
    BY <1>14 DEF Start, ListOperations, Serving
  <2>2. /\ phase' \in {"candidates", "operations", "up"}
        /\ todo' \subseteq Job /\ missed' \subseteq {"candidate", "operation"} \X Job
    <3>1. CASE Start
      BY <1>0, <3>1 DEF TypeOK, Start, OpenCandidates
    <3>2. CASE ListOperations
      BY <1>0, <3>2 DEF TypeOK, ListOperations, OpenOperations
    <3>3. CASE Serving
      BY <1>0, <3>3 DEF TypeOK, Serving
    <3> QED
      BY <1>14, <3>1, <3>2, <3>3
  <2> QED
    BY <1>0, <2>1, <2>2 DEF TypeOK
<1>15. ASSUME Crash PROVE TypeOK'
  BY <1>0, <1>15 DEF TypeOK, Crash, AllIdle
<1>16. ASSUME UNCHANGED vars PROVE TypeOK'
  BY <1>0, <1>16 DEF TypeOK, vars
<1> QED
  BY <1>1, <1>2, <1>3, <1>4, <1>5, <1>6, <1>7, <1>8, <1>9, <1>10, <1>11, <1>12, <1>13, <1>14,
     <1>15, <1>16 DEF Next, Request, Recover

(***************************************************************************)
(* The actions that write the rows of an intent, and only those.           *)
(***************************************************************************)
RowStep(j) ==
  \/ Remember(j) \/ (\E m \in Memory : Supersede(j, m) \/ Forget(j, m))
  \/ Decide(j) \/ SaveReplacement(j) \/ SaveRejected(j) \/ SaveSupersede(j)
  \/ RecordCreate(j) \/ RecordOperation(j) \/ RecordReplacement(j)

SameRows(j) == cand'[j] = cand[j] /\ oper'[j] = oper[j] /\ kind'[j] = kind[j]

LEMMA RowsElsewhere ==
  ASSUME IInv, NEW j \in Job, RowStep(j)
  PROVE  /\ \A i \in Job \ {j} : SameRows(i) /\ pc'[i] = pc[i] /\ via'[i] = via[i]
         /\ UNCHANGED <<res, remote, recovery>>
<1> USE DEF SameRows, Goto
<1>0. TypeOK
  BY DEF IInv
<1>1. CASE Remember(j)
  <2>1. /\ kind' = [kind EXCEPT ![j] = "remember"] /\ pc' = [pc EXCEPT ![j] = "decide"]
        /\ UNCHANGED <<oper, via, res, remote, recovery>>
    BY <1>1 DEF Remember
  <2> QED
    BY <1>0, <1>1, <2>1, RememberRow DEF TypeOK, CandidateWritten
<1>2. CASE \E m \in Memory : Supersede(j, m) \/ Forget(j, m)
  BY <1>0, <1>2 DEF Supersede, Forget, TypeOK, rows
<1>3. CASE Decide(j)
  <2>1. UNCHANGED <<kind, oper, res, remote, recovery>>
    BY <1>3 DEF Decide
  <2> QED
    BY <1>0, <1>3, <2>1, DecideRow DEF TypeOK, CandidateWritten
<1>4. CASE SaveReplacement(j)
  <2>1. UNCHANGED <<kind, oper, via, res, remote, recovery>>
    BY <1>4 DEF SaveReplacement
  <2> QED
    BY <1>0, <1>4, <2>1, ReplacementRow DEF TypeOK, CandidateWritten
<1>5. CASE SaveRejected(j) \/ SaveSupersede(j)
  BY <1>0, <1>5 DEF SaveRejected, SaveSupersede, TypeOK
<1>6. CASE RecordCreate(j) \/ RecordReplacement(j)
  <2>1. /\ via[j] \in {"create", "supersede"} /\ cand' = Outcome(j)
        /\ pc' = [pc EXCEPT ![j] = "idle"]
        /\ UNCHANGED <<kind, oper, via, res, remote, recovery>>
    BY <1>6 DEF RecordCreate, RecordReplacement, IInv, RequestOK, RequestFits
  <2> QED
    BY <1>0, <2>1, OutcomeRow DEF TypeOK, CandidateWritten
<1>7. CASE RecordOperation(j)
  <2>1. /\ \E step \in {"copy", "idle"} : pc' = [pc EXCEPT ![j] = step]
        /\ UNCHANGED <<kind, cand, via, res, remote, recovery>>
    BY <1>7 DEF RecordOperation
  <2> QED
    BY <1>0, <1>7, <2>1, OperationRow DEF TypeOK
<1> QED
  BY <1>1, <1>2, <1>3, <1>4, <1>5, <1>6, <1>7 DEF RowStep

LEMMA RowsElsewhen ==
  ASSUME [Next]_vars, \A j \in Job : ~RowStep(j)
  PROVE  UNCHANGED <<kind, cand, oper>>
BY DEF RowStep, Next, Request, Recover, vars, rows, Send, Hear, StorageFails, Serve, Start,
  ListOperations, Serving, RecoverCandidate, RecoverOperation, Crash

(* The other steps move an intent towards its answer or end it.            *)
OtherStep == [Next]_vars /\ \A j \in Job : ~RowStep(j)

LEMMA OtherMoves ==
  ASSUME IInv, OtherStep
  PROVE  /\ \A i \in Job : pc'[i] = pc[i] \/ pc'[i] \in {"send", "waiting", "answered", "idle"}
         /\ phase' = phase \/ \A i \in Job : pc'[i] \in {"new", "idle"}
<1>0. TypeOK /\ ListOK /\ [Next]_vars
  BY DEF IInv, OtherStep
<1> USE DEF Goto
<1>1. ASSUME NEW j \in Job, Send(j) \/ Hear(j)
      PROVE  UNCHANGED phase /\ \E step \in {"waiting", "answered"} : pc' = [pc EXCEPT ![j] = step]
  BY <1>1 DEF Send, Hear, recovery
<1>2. ASSUME NEW j \in Job, StorageFails(j)
      PROVE  \/ UNCHANGED phase /\ pc' = [pc EXCEPT ![j] = "idle"]
             \/ AllIdle
  BY <1>2 DEF StorageFails, recovery
<1>3. ASSUME NEW j \in Job, RecoverCandidate(j) \/ RecoverOperation(j)
      PROVE  UNCHANGED phase /\ (pc' = [pc EXCEPT ![j] = "send"] \/ pc' = pc)
  BY <1>3 DEF RecoverCandidate, RecoverOperation
<1>4. ASSUME Start \/ ListOperations \/ Serving PROVE UNCHANGED pc /\ Busy = {}
  BY <1>0, <1>4 DEF Start, ListOperations, Serving, work, ListOK
<1>5. ASSUME NEW k \in Key, Serve(k) PROVE UNCHANGED <<pc, phase>>
  BY <1>5 DEF Serve, recovery
<1>6. UNCHANGED vars => UNCHANGED <<pc, phase>>
  BY DEF vars, work, recovery
<1>7. CASE AllIdle
  BY <1>0, <1>7 DEF AllIdle, TypeOK
<1>8. CASE \E j \in Job : Send(j) \/ Hear(j) \/ StorageFails(j) \/ RecoverCandidate(j)
                          \/ RecoverOperation(j)
  BY <1>0, <1>1, <1>2, <1>3, <1>7, <1>8 DEF TypeOK
<1>9. CASE Start \/ ListOperations \/ Serving
  BY <1>4, <1>9 DEF Busy
<1> QED
  BY <1>0, <1>5, <1>6, <1>7, <1>8, <1>9 DEF OtherStep, RowStep, Next, Request, Recover, Crash

(* Every step keeps what an intent knows by where it is.                   *)
LEMMA StepStage == IInv /\ [Next]_vars => StageOK'
<1> SUFFICES ASSUME IInv, [Next]_vars PROVE StageOK'
  OBVIOUS
<1>0. TypeOK /\ StageOK
  BY DEF IInv
<1>1. CASE OtherStep
  <2>1. UNCHANGED <<kind, cand, oper>>
    BY <1>1, RowsElsewhen DEF OtherStep
  <2> QED
    BY <1>0, <1>1, <2>1, OtherMoves DEF StageOK, Stage, At
<1>2. ASSUME NEW j \in Job, RowStep(j) PROVE StageOK'
  <2>1. \A i \in Job \ {j} : Stage(i)'
    BY <1>0, <1>2, RowsElsewhere DEF StageOK, Stage, SameRows, At, recovery
  <2>2. Stage(j)'
    <3> USE DEF Stage, At, Goto
    <3>0. Stage(j) /\ pc \in [Job -> {"new", "asked", "decide", "operation", "rejected", "send",
                                     "waiting", "answered", "copy", "idle"}]
      BY <1>0 DEF StageOK, TypeOK
    <3>1. CASE Remember(j)
      <4>1. /\ phase' = "up" /\ kind'[j] = "remember" /\ pc'[j] = "decide"
            /\ cand[j].memory = Nowhere
        BY <1>0, <3>0, <3>1 DEF Remember, NoCandidate, TypeOK, recovery
      <4> QED
        BY <1>0, <3>1, <4>1, RememberRow
    <3>2. CASE \E m \in Memory : Supersede(j, m) \/ Forget(j, m)
      <4>1. \/ pc'[j] = "send"
            \/ /\ pc'[j] \in {"rejected", "idle", "asked"} /\ phase' = "up"
               /\ UNCHANGED <<cand, oper>> /\ kind'[j] = "supersede"
        BY <1>0, <3>0, <3>2 DEF Supersede, Forget, TypeOK, rows, recovery
      <4>2. cand[j] = NoCandidate /\ oper[j] = NoOperation
        BY <3>0, <3>2 DEF Supersede, Forget
      <4> QED
        BY <4>1, <4>2 DEF NoCandidate
    <3>3. CASE Decide(j)
      <4>1. pc'[j] \in {"idle", "send"}
        BY <3>0, <3>3 DEF Decide
      <4> QED
        BY <4>1
    <3>4. CASE SaveReplacement(j)
      <4>1. /\ UNCHANGED <<kind, oper, phase>> /\ kind[j] = "supersede" /\ oper[j] = NoOperation
            /\ phase = "up"
        BY <3>0, <3>4 DEF SaveReplacement, recovery
      <4>2. \/ cand'[j].decision = "APPROVED" /\ cand'[j].content /\ pc'[j] = "operation"
            \/ cand'[j].decision = "REJECTED" /\ pc'[j] = "rejected"
        BY <1>0, <3>0, <3>4, ReplacementRow
      <4> QED
        BY <4>1, <4>2
    <3>5. CASE \/ SaveRejected(j) \/ SaveSupersede(j) \/ RecordCreate(j)
               \/ RecordOperation(j) \/ RecordReplacement(j)
      <4>1. pc'[j] \in {"idle", "send", "copy"}
        BY <3>0, <3>5 DEF SaveRejected, SaveSupersede, RecordCreate, RecordOperation,
          RecordReplacement
      <4> QED
        BY <4>1
    <3> QED
      BY <1>2, <3>1, <3>2, <3>3, <3>4, <3>5 DEF RowStep
  <2> QED
    BY <2>1, <2>2 DEF StageOK
<1> QED
  BY <1>1, <1>2 DEF OtherStep

(* Every step keeps the rows of an intent in agreement.                    *)
LEMMA StepRow == IInv /\ [Next]_vars => RowOK'
<1> SUFFICES ASSUME IInv, [Next]_vars PROVE RowOK'
  OBVIOUS
<1>0. TypeOK /\ StageOK /\ RowOK /\ RequestOK /\ AnswerOK
  BY DEF IInv
<1>1. CASE \A j \in Job : ~RowStep(j)
  <2>1. UNCHANGED <<kind, cand, oper>>
    BY <1>1, RowsElsewhen
  <2> QED
    BY <1>0, <2>1 DEF RowOK, RowsAgree
<1>2. ASSUME NEW j \in Job, RowStep(j) PROVE RowOK'
  <2>1. \A i \in Job \ {j} : RowsAgree(i)'
    BY <1>0, <1>2, RowsElsewhere DEF RowOK, RowsAgree, SameRows
  <2>2. RowsAgree(j)'
    <3> USE DEF RowsAgree, At
    <3>0. RowsAgree(j)
      BY <1>0 DEF RowOK
    <3>1. CASE Remember(j)
      <4>1. /\ oper' = oper /\ oper[j] = NoOperation /\ cand[j].memory = Nowhere
            /\ kind'[j] = "remember"
        BY <1>0, <3>1 DEF Remember, StageOK, Stage, NoCandidate, TypeOK
      <4> QED
        BY <1>0, <3>1, <4>1, RememberRow DEF NoOperation, Nowhere
    <3>2. CASE \E m \in Memory : Supersede(j, m) \/ Forget(j, m)
      <4>1. cand' = cand /\ cand[j] = NoCandidate /\ oper[j] = NoOperation
        BY <1>0, <3>2 DEF Supersede, Forget, StageOK, Stage, rows
      <4>2. oper'[j] = NoOperation \/ kind'[j] = "forget"
        BY <1>0, <3>2, <4>1 DEF Supersede, Forget, TypeOK, rows
      <4> QED
        BY <4>1, <4>2 DEF NoCandidate, NoOperation, Nowhere
    <3>3. CASE Decide(j)
      <4>1. /\ oper' = oper /\ kind' = kind /\ cand[j].memory = Nowhere
            /\ kind[j] = "remember"
        BY <1>0, <3>3 DEF Decide, StageOK, Stage
      <4> QED
        BY <1>0, <3>0, <3>3, <4>1, DecideRow DEF Nowhere
    <3>4. CASE SaveReplacement(j)
      <4>1. oper' = oper /\ kind' = kind /\ cand[j] = NoCandidate /\ oper[j] = NoOperation
        BY <1>0, <3>4 DEF SaveReplacement, StageOK, Stage
      <4> QED
        BY <1>0, <3>4, <4>1, ReplacementRow DEF NoCandidate, NoOperation, Nowhere
    <3>5. CASE SaveRejected(j) \/ SaveSupersede(j)
      <4>1. /\ cand' = cand /\ kind' = kind /\ kind[j] = "supersede" /\ oper[j] = NoOperation
            /\ SaveSupersede(j) => cand[j].decision = "APPROVED"
        BY <1>0, <3>5 DEF SaveRejected, SaveSupersede, StageOK, Stage
      <4>2. oper'[j].status = "FAILED" \/ SaveSupersede(j)
        BY <1>0, <3>5 DEF SaveRejected, TypeOK
      <4> QED
        BY <3>0, <4>1, <4>2 DEF NoOperation
    <3>6. CASE RecordCreate(j)
      <4>1. via[j] = "create" /\ cand' = Outcome(j) /\ UNCHANGED <<kind, oper>>
        BY <3>6 DEF RecordCreate
      <4> QED
        BY <1>0, <3>0, <4>1, OutcomeRow
    <3>7. CASE RecordReplacement(j)
      <4>1. /\ via[j] = "supersede" /\ cand' = Outcome(j) /\ UNCHANGED <<kind, oper>>
            /\ res[j] = "ok" => oper[j].status = "SUCCEEDED"
        BY <1>0, <3>7 DEF RecordReplacement, RequestOK, RequestFits, AnswerOK, AnswerTrue
      <4> QED
        BY <1>0, <3>0, <4>1, OutcomeRow
    <3>8. CASE RecordOperation(j)
      <4>1. UNCHANGED <<kind, cand>> /\ oper[j].status \in Open
        BY <1>0, <3>8 DEF RecordOperation, RequestOK, RequestFits, InFlight
      <4> QED
        BY <1>0, <3>0, <3>8, <4>1, OperationRow DEF Open
    <3> QED
      BY <1>2, <3>1, <3>2, <3>3, <3>4, <3>5, <3>6, <3>7, <3>8 DEF RowStep
  <2> QED
    BY <2>1, <2>2 DEF RowOK
<1> QED
  BY <1>1, <1>2

(***************************************************************************)
(* What the rows want and confirm.                                         *)
(***************************************************************************)
WantedBy(how, j) ==
  IF how = "create" THEN cand[j].decision = "APPROVED"
  ELSE kind[j] = how /\ oper[j].status # "none"
ConfirmedBy(how, j) ==
  IF how = "create" THEN cand[j].memory = <<how, j>>
  ELSE oper[j].status = "SUCCEEDED" /\ kind[j] = how

How == {"create", "supersede", "forget"}

LEMMA KeySets ==
  /\ \A how \in How, j \in Job : /\ <<how, j>> \in Wanted <=> WantedBy(how, j)
                                 /\ <<how, j>> \in Confirmed <=> ConfirmedBy(how, j)
  /\ Wanted \subseteq Key /\ Confirmed \subseteq Key
BY DEF Wanted, Confirmed, WantedBy, ConfirmedBy, Key, How

LEMMA KeySetsAfter ==
  /\ \A how \in How, j \in Job : /\ <<how, j>> \in Wanted' <=> WantedBy(how, j)'
                                 /\ <<how, j>> \in Confirmed' <=> ConfirmedBy(how, j)'
  /\ Wanted' \subseteq Key /\ Confirmed' \subseteq Key
BY DEF Wanted, Confirmed, WantedBy, ConfirmedBy, Key, How

(* A step that changes at most what one key of one intent says.            *)
LEMMA OneWant ==
  ASSUME NEW j \in Job, \A i \in Job \ {j} : SameRows(i), NEW how \in How,
         \A h \in How \ {how} : WantedBy(h, j)' <=> WantedBy(h, j),
         WantedBy(how, j) => WantedBy(how, j)'
  PROVE  Wanted' = Wanted \/ Wanted' = Wanted \cup {<<how, j>>}
<1>1. \A h \in How, i \in Job \ {j} : WantedBy(h, i)' <=> WantedBy(h, i)
  BY DEF SameRows, WantedBy
<1>2. \A k \in Key : k # <<how, j>> => (k \in Wanted' <=> k \in Wanted)
  BY <1>1, KeySets, KeySetsAfter DEF Key, How
<1>3. <<how, j>> \in Wanted => <<how, j>> \in Wanted'
  BY KeySets, KeySetsAfter
<1>4. Wanted \subseteq Key /\ Wanted' \subseteq Key
  BY KeySets, KeySetsAfter
<1>5. CASE <<how, j>> \in Wanted'
  BY <1>2, <1>4, <1>5
<1>6. CASE <<how, j>> \notin Wanted'
  BY <1>2, <1>3, <1>4, <1>6
<1> QED
  BY <1>5, <1>6

LEMMA OneConfirm ==
  ASSUME NEW j \in Job, \A i \in Job \ {j} : SameRows(i), NEW how \in How,
         \A h \in How \ {how} : ConfirmedBy(h, j)' <=> ConfirmedBy(h, j),
         ConfirmedBy(how, j) => ConfirmedBy(how, j)'
  PROVE  Confirmed' = Confirmed \/ Confirmed' = Confirmed \cup {<<how, j>>}
<1>1. \A h \in How, i \in Job \ {j} : ConfirmedBy(h, i)' <=> ConfirmedBy(h, i)
  BY DEF SameRows, ConfirmedBy
<1>2. \A k \in Key : k # <<how, j>> => (k \in Confirmed' <=> k \in Confirmed)
  BY <1>1, KeySets, KeySetsAfter DEF Key, How
<1>3. <<how, j>> \in Confirmed => <<how, j>> \in Confirmed'
  BY KeySets, KeySetsAfter
<1>4. Confirmed \subseteq Key /\ Confirmed' \subseteq Key
  BY KeySets, KeySetsAfter
<1>5. CASE <<how, j>> \in Confirmed'
  BY <1>2, <1>4, <1>5
<1>6. CASE <<how, j>> \notin Confirmed'
  BY <1>2, <1>3, <1>4, <1>6
<1> QED
  BY <1>5, <1>6

(* A step that changes none of them.                                       *)
LEMMA NoWant ==
  ASSUME \A how \in How, i \in Job : WantedBy(how, i)' <=> WantedBy(how, i)
  PROVE  Wanted' = Wanted
<1>1. \A k \in Key : k \in Wanted' <=> k \in Wanted
  BY KeySets, KeySetsAfter DEF Key, How
<1> QED
  BY <1>1, KeySets, KeySetsAfter

LEMMA NoConfirm ==
  ASSUME \A how \in How, i \in Job : ConfirmedBy(how, i)' <=> ConfirmedBy(how, i)
  PROVE  Confirmed' = Confirmed
<1>1. \A k \in Key : k \in Confirmed' <=> k \in Confirmed
  BY KeySets, KeySetsAfter DEF Key, How
<1> QED
  BY <1>1, KeySets, KeySetsAfter

(* A step that writes rows maps to Want, Confirm or a stutter.             *)
LEMMA RowStepMaps ==
  ASSUME IInv, NEW j \in Job, RowStep(j)
  PROVE  \/ UNCHANGED <<Wanted, Confirmed>>
         \/ \E w \in Key : Wanted' = Wanted \cup {w} /\ Confirmed' = Confirmed
         \/ \E w \in ledger : Wanted' = Wanted /\ Confirmed' = Confirmed \cup {w}
<1>0. /\ TypeOK /\ StageOK /\ RowOK /\ RequestOK /\ AnswerOK
      /\ \A i \in Job \ {j} : SameRows(i)
      /\ \A how \in How : <<how, j>> \in Key
  BY RowsElsewhere DEF IInv, How, Key
<1> DEFINE Wants(how) == /\ \A h \in How \ {how} : WantedBy(h, j)' <=> WantedBy(h, j)
                         /\ WantedBy(how, j) => WantedBy(how, j)'
           Confirms(how) == /\ \A h \in How \ {how} : ConfirmedBy(h, j)' <=> ConfirmedBy(h, j)
                            /\ ConfirmedBy(how, j) => ConfirmedBy(how, j)'
           Still == \A h \in How : ConfirmedBy(h, j)' <=> ConfirmedBy(h, j)
           AsMuch == \A h \in How : WantedBy(h, j)' <=> WantedBy(h, j)
<1>a. ASSUME NEW how \in How, Wants(how), Still
      PROVE  \/ UNCHANGED <<Wanted, Confirmed>>
             \/ \E w \in Key : Wanted' = Wanted \cup {w} /\ Confirmed' = Confirmed
  <2>0. \A h \in How, i \in Job : ConfirmedBy(h, i)' <=> ConfirmedBy(h, i)
    BY <1>0, <1>a DEF SameRows, ConfirmedBy
  <2>1. Confirmed' = Confirmed
    BY <2>0, NoConfirm
  <2>2. Wanted' = Wanted \/ Wanted' = Wanted \cup {<<how, j>>}
    BY <1>0, <1>a, OneWant
  <2> QED
    BY <1>0, <2>1, <2>2
<1>b. ASSUME NEW how \in How, AsMuch, Confirms(how), <<how, j>> \in ledger
      PROVE  \/ UNCHANGED <<Wanted, Confirmed>>
             \/ \E w \in ledger : Wanted' = Wanted /\ Confirmed' = Confirmed \cup {w}
  <2>0. \A h \in How, i \in Job : WantedBy(h, i)' <=> WantedBy(h, i)
    BY <1>0, <1>b DEF SameRows, WantedBy
  <2>1. Wanted' = Wanted
    BY <2>0, NoWant
  <2>2. Confirmed' = Confirmed \/ Confirmed' = Confirmed \cup {<<how, j>>}
    BY <1>0, <1>b, OneConfirm
  <2> QED
    BY <1>b, <2>1, <2>2
<1> USE DEF WantedBy, ConfirmedBy, How, At
<1>1. CASE Remember(j)
  <2>1. /\ oper' = oper /\ oper[j] = NoOperation /\ cand[j] = NoCandidate
    BY <1>0, <1>1 DEF Remember, StageOK, Stage
  <2>2. cand'[j].decision = "PENDING" /\ cand'[j].memory = Nowhere
    BY <1>0, <1>1, <2>1, RememberRow DEF NoCandidate
  <2>3. Wants("create") /\ Still
    BY <2>1, <2>2 DEF NoOperation, NoCandidate
  <2> QED
    BY <1>a, <2>3
<1>2. ASSUME NEW m \in Memory, Supersede(j, m)
      PROVE  \/ UNCHANGED <<Wanted, Confirmed>>
             \/ \E w \in Key : Wanted' = Wanted \cup {w} /\ Confirmed' = Confirmed
  <2>1. UNCHANGED <<oper, cand>> /\ oper[j] = NoOperation
    BY <1>0, <1>2 DEF Supersede, StageOK, Stage, rows
  <2>2. Wants("create") /\ Still
    BY <2>1 DEF NoOperation
  <2> QED
    BY <1>a, <2>2
<1>3. ASSUME NEW m \in Memory, Forget(j, m)
      PROVE  \/ UNCHANGED <<Wanted, Confirmed>>
             \/ \E w \in Key : Wanted' = Wanted \cup {w} /\ Confirmed' = Confirmed
  <2>1. cand' = cand /\ oper[j] = NoOperation
    BY <1>0, <1>3 DEF Forget, StageOK, Stage
  <2>2. kind'[j] = "forget" /\ oper'[j].status = "PENDING"
    BY <1>0, <1>3 DEF Forget, TypeOK
  <2>3. Wants("forget") /\ Still
    BY <2>1, <2>2 DEF NoOperation
  <2> QED
    BY <1>a, <2>3
<1>4. CASE Decide(j)
  <2>1. UNCHANGED <<oper, kind>> /\ cand[j].decision = "PENDING"
    BY <1>0, <1>4 DEF Decide, StageOK, Stage
  <2>2. cand'[j].memory = cand[j].memory
    BY <1>0, <1>4, DecideRow
  <2>3. Wants("create") /\ Still
    BY <2>1, <2>2
  <2> QED
    BY <1>a, <2>3
<1>5. CASE SaveReplacement(j)
  <2>1. UNCHANGED <<oper, kind>> /\ cand[j].decision # "APPROVED"
    BY <1>0, <1>5 DEF SaveReplacement, StageOK, Stage, NoCandidate
  <2>2. cand'[j].memory = cand[j].memory
    BY <1>0, <1>5, ReplacementRow
  <2>3. Wants("create") /\ Still
    BY <2>1, <2>2
  <2> QED
    BY <1>a, <2>3
<1>6. CASE SaveRejected(j) \/ SaveSupersede(j)
  <2>1. UNCHANGED <<cand, kind>> /\ oper[j] = NoOperation /\ kind[j] = "supersede"
    BY <1>0, <1>6 DEF SaveRejected, SaveSupersede, StageOK, Stage
  <2>2. oper'[j].status \in {"FAILED", "PENDING"}
    BY <1>0, <1>6 DEF SaveRejected, SaveSupersede, TypeOK
  <2>3. Wants("supersede") /\ Still
    BY <2>1, <2>2 DEF NoOperation
  <2> QED
    BY <1>a, <2>3
<1>7. CASE RecordCreate(j)
  <2>1. /\ UNCHANGED <<oper, kind>> /\ via[j] = "create" /\ cand' = Outcome(j)
        /\ res[j] = "ok" => <<"create", j>> \in ledger
    BY <1>0, <1>7 DEF RecordCreate, AnswerOK, AnswerTrue
  <2>2. /\ cand'[j].decision = cand[j].decision
        /\ \/ res[j] = "ok" /\ cand'[j].memory = <<"create", j>>
           \/ cand'[j].memory = cand[j].memory
    BY <1>0, <2>1, OutcomeRow
  <2>3. CASE res[j] = "ok" /\ cand'[j].memory = <<"create", j>>
    <3>1. AsMuch /\ Confirms("create")
      BY <2>1, <2>2, <2>3
    <3> QED
      BY <1>b, <2>1, <2>3, <3>1
  <2>4. CASE cand'[j].memory = cand[j].memory
    <3>1. Wants("create") /\ Still
      BY <2>1, <2>2, <2>4
    <3> QED
      BY <1>a, <3>1
  <2> QED
    BY <2>2, <2>3, <2>4
<1>8. CASE RecordReplacement(j)
  <2>1. /\ UNCHANGED <<oper, kind>> /\ via[j] = "supersede" /\ cand' = Outcome(j)
        /\ cand[j].memory = Nowhere
    BY <1>0, <1>8 DEF RecordReplacement, RequestOK, RequestFits, RowOK, RowsAgree, Outstanding
  <2>2. /\ cand'[j].decision = cand[j].decision
        /\ cand'[j].memory = <<"supersede", j>> \/ cand'[j].memory = Nowhere
    BY <1>0, <2>1, OutcomeRow
  <2>3. Wants("create") /\ Still
    BY <2>1, <2>2, MemoryAssumption DEF Nowhere
  <2> QED
    BY <1>a, <2>3
<1>9. CASE RecordOperation(j)
  <2>1. /\ UNCHANGED <<cand, kind>> /\ via[j] # "create" /\ oper[j].status \in Open
        /\ <<via[j], j>> \in Wanted
        /\ res[j] = "ok" => <<via[j], j>> \in ledger
    BY <1>0, <1>9 DEF RecordOperation, RequestOK, RequestFits, AnswerOK, AnswerTrue, Outstanding, InFlight
  <2>2. via[j] \in How
    BY <1>0 DEF TypeOK
  <2>3. kind[j] = via[j]
    BY <2>1, <2>2, KeySets
  <2>4. \/ res[j] = "ok" /\ oper'[j].status = "SUCCEEDED"
        \/ oper'[j].status = "FAILED"
    BY <1>0, <1>9, OperationRow
  <2>5. CASE res[j] = "ok" /\ oper'[j].status = "SUCCEEDED"
    <3>1. AsMuch /\ Confirms(via[j])
      BY <2>1, <2>3, <2>5 DEF Open
    <3> QED
      BY <1>b, <2>1, <2>2, <2>5, <3>1
  <2>6. CASE oper'[j].status = "FAILED"
    <3>1. Wants("create") /\ Still
      BY <2>1, <2>3, <2>6 DEF Open
    <3> QED
      BY <1>a, <3>1
  <2> QED
    BY <2>4, <2>5, <2>6
<1> QED
  BY <1>1, <1>2, <1>3, <1>4, <1>5, <1>6, <1>7, <1>8, <1>9 DEF RowStep

(* Nobody stops wanting or confirming, and nothing leaves the ledger.      *)
LEMMA KeysGrow ==
  ASSUME IInv, [Next]_vars
  PROVE  /\ Wanted \subseteq Wanted' /\ Confirmed \subseteq Confirmed'
         /\ ledger \subseteq ledger'
<1>1. CASE OtherStep
  <2>1. UNCHANGED <<kind, cand, oper>>
    BY <1>1, RowsElsewhen DEF OtherStep
  <2>2. UNCHANGED <<Wanted, Confirmed>>
    BY <2>1 DEF Wanted, Confirmed
  <2>3. ledger \subseteq ledger'
    BY <1>1 DEF OtherStep, RowStep, Next, Request, Recover, vars, remote, Send, Hear,
      StorageFails, Serve, Start, ListOperations, Serving, RecoverCandidate, RecoverOperation,
      Crash
  <2> QED
    BY <2>2, <2>3
<1>2. CASE \E j \in Job : RowStep(j)
  BY <1>2, RowStepMaps, RowsElsewhere DEF remote
<1> QED
  BY <1>1, <1>2 DEF OtherStep

(* Every step keeps the content of what the service does not have.         *)
LEMMA StepScrubbed == IInv /\ [Next]_vars => ScrubbedIsStored'
<1> SUFFICES ASSUME IInv, [Next]_vars PROVE ScrubbedIsStored'
  OBVIOUS
<1> DEFINE Scrubbed(j) == cand[j].decision = "APPROVED" /\ ~cand[j].content =>
                            cand[j].memory = <<cand[j].memory[1], j>> /\ cand[j].memory \in ledger
<1>0. /\ TypeOK /\ StageOK /\ AnswerOK /\ RequestOK /\ ledger \subseteq ledger'
      /\ \A i \in Job : Scrubbed(i)
  BY KeysGrow DEF IInv, ScrubbedIsStored
<1>1. CASE OtherStep
  <2>1. UNCHANGED cand
    BY <1>1, RowsElsewhen DEF OtherStep
  <2> QED
    BY <1>0, <2>1 DEF ScrubbedIsStored
<1>2. ASSUME NEW j \in Job, RowStep(j) PROVE ScrubbedIsStored'
  <2>1. \A i \in Job \ {j} : Scrubbed(i)'
    BY <1>0, <1>2, RowsElsewhere DEF SameRows
  <2>2. Scrubbed(j)'
    <3>0. Scrubbed(j)
      BY <1>0
    <3>1. CASE Remember(j)
      BY <1>0, <3>1, RememberRow
    <3>2. CASE \/ (\E m \in Memory : Supersede(j, m) \/ Forget(j, m))
               \/ SaveRejected(j) \/ SaveSupersede(j) \/ RecordOperation(j)
      <4>1. UNCHANGED cand
        BY <3>2 DEF Supersede, Forget, SaveRejected, SaveSupersede, RecordOperation, rows
      <4> QED
        BY <1>0, <3>0, <4>1
    <3>3. CASE Decide(j)
      <4>1. cand[j].content
        BY <1>0, <3>3 DEF Decide, StageOK, Stage
      <4> QED
        BY <1>0, <3>3, <4>1, DecideRow
    <3>4. CASE SaveReplacement(j)
      BY <1>0, <3>4, ReplacementRow
    <3>5. CASE RecordCreate(j) \/ RecordReplacement(j)
      <4>1. /\ via[j] \in {"create", "supersede"} /\ cand' = Outcome(j)
            /\ res[j] = "ok" => <<via[j], j>> \in ledger
        BY <1>0, <3>5 DEF RecordCreate, RecordReplacement, RequestOK, RequestFits, AnswerOK,
          AnswerTrue, At
      <4>2. \/ /\ res[j] = "ok" /\ cand'[j].memory = <<via[j], j>>
            \/ /\ cand'[j].decision = cand[j].decision /\ cand'[j].memory = cand[j].memory
               /\ cand'[j].content <=> cand[j].content
        BY <1>0, <4>1, OutcomeRow
      <4> QED
        BY <1>0, <3>0, <4>1, <4>2
    <3> QED
      BY <1>2, <3>1, <3>2, <3>3, <3>4, <3>5 DEF RowStep
  <2> QED
    BY <2>1, <2>2 DEF ScrubbedIsStored
<1> QED
  BY <1>1, <1>2 DEF OtherStep

(* Every step keeps requests wanted and open.                              *)
LEMMA StepRequest == IInv /\ [Next]_vars => RequestOK'
<1> SUFFICES ASSUME IInv, [Next]_vars PROVE RequestOK'
  OBVIOUS
<1>0. /\ TypeOK /\ StageOK /\ RowOK /\ RequestOK /\ ListOK /\ Wanted \subseteq Wanted'
  BY KeysGrow DEF IInv
<1> USE DEF RequestFits, Outstanding, InFlight, At, Goto
<1>1. ASSUME NEW j \in Job, RowStep(j) PROVE RequestOK'
  <2>1. \A i \in Job \ {j} : RequestFits(i)'
    BY <1>0, <1>1, RowsElsewhere DEF RequestOK, SameRows, Refused, recovery
  <2>2. RequestFits(j)'
    <3>1. CASE pc'[j] \in {"new", "decide", "asked", "operation", "rejected", "idle"}
      BY <3>1
    <3>2. CASE Decide(j)
      <4>1. kind'[j] = "remember"
        BY <1>0, <3>2 DEF Decide, StageOK, Stage
      <4>2. \/ cand'[j].decision = "APPROVED" /\ pc'[j] = "send" /\ via'[j] = "create"
            \/ pc'[j] = "idle"
        BY <1>0, <3>2, DecideRow DEF TypeOK
      <4>3. cand'[j].decision = "APPROVED" => <<"create", j>> \in Wanted'
        BY KeySetsAfter DEF WantedBy, How
      <4> QED
        BY <4>1, <4>2, <4>3
    <3>3. CASE \E m \in Memory : Forget(j, m)
      <4>1. /\ kind'[j] = "forget" /\ oper'[j].status = "PENDING"
            /\ pc'[j] = "send" /\ via'[j] = "forget"
        BY <1>0, <3>3 DEF Forget, TypeOK
      <4>2. <<"forget", j>> \in Wanted'
        BY <4>1, KeySetsAfter DEF WantedBy, How
      <4> QED
        BY <4>1, <4>2 DEF Open, Refused
    <3>4. CASE SaveSupersede(j)
      <4>1. /\ kind'[j] = "supersede" /\ oper'[j].status = "PENDING"
            /\ pc'[j] = "send" /\ via'[j] = "supersede" /\ cand'[j].content
        BY <1>0, <3>4 DEF SaveSupersede, StageOK, Stage, TypeOK
      <4>2. <<"supersede", j>> \in Wanted'
        BY <4>1, KeySetsAfter DEF WantedBy, How
      <4> QED
        BY <4>1, <4>2 DEF Open, Refused
    <3>5. CASE RecordOperation(j)
      <4>1. /\ RequestFits(j) /\ pc[j] = "answered" /\ UNCHANGED <<cand, via>>
            /\ \/ via[j] = "supersede" /\ pc'[j] = "copy"
               \/ pc'[j] = "idle"
        BY <1>0, <3>5 DEF RecordOperation, RequestOK, TypeOK
      <4> QED
        BY <1>0, <4>1
    <3>6. CASE \/ Remember(j) \/ (\E m \in Memory : Supersede(j, m)) \/ SaveReplacement(j)
               \/ SaveRejected(j) \/ RecordCreate(j) \/ RecordReplacement(j)
      <4>1. pc'[j] \in {"decide", "asked", "operation", "rejected", "idle"}
        BY <1>0, <3>6 DEF Remember, Supersede, SaveReplacement, SaveRejected, RecordCreate,
          RecordReplacement, TypeOK
      <4> QED
        BY <3>1, <4>1
    <3> QED
      BY <1>1, <3>2, <3>3, <3>4, <3>5, <3>6 DEF RowStep
  <2> QED
    BY <2>1, <2>2 DEF RequestOK
<1>2. CASE OtherStep
  <2>1. /\ UNCHANGED <<kind, cand, oper, Wanted>>
        /\ \A i \in Job : Refused(i)' <=> Refused(i)
    BY <1>2, RowsElsewhen DEF OtherStep, Wanted, Refused
  <2>2. ASSUME NEW j \in Job, Send(j) \/ Hear(j) PROVE RequestOK'
    <3>1. /\ UNCHANGED <<via, phase>>
          /\ \E step \in {"waiting", "answered"} : pc' = [pc EXCEPT ![j] = step]
          /\ InFlight(j)
      BY <2>2 DEF Send, Hear, recovery
    <3> QED
      BY <1>0, <2>1, <3>1 DEF RequestOK, TypeOK
  <2>3. ASSUME NEW j \in Job, RecoverCandidate(j) PROVE RequestOK'
    <3>1. /\ phase' = phase /\ phase = "candidates" /\ j \in todo
          /\ \/ pc' = [pc EXCEPT ![j] = "send"] /\ via' = [via EXCEPT ![j] = "create"]
             \/ UNCHANGED <<pc, via>>
      BY <2>3 DEF RecoverCandidate
    <3>2. <<"create", j>> \in Wanted'
      BY <1>0, <2>1, <3>1, KeySets DEF ListOK, WantedBy, How
    <3>5. CASE pc' = pc /\ via' = via
      BY <1>0, <2>1, <3>1, <3>5 DEF RequestOK
    <3>6. CASE pc' = [pc EXCEPT ![j] = "send"] /\ via' = [via EXCEPT ![j] = "create"]
      <4>1. ASSUME NEW i \in Job \ {j} PROVE RequestFits(i)'
        <5>1. pc'[i] = pc[i] /\ via'[i] = via[i] /\ RequestFits(i)
          BY <1>0, <3>6 DEF RequestOK, TypeOK
        <5> QED
          BY <1>0, <2>1, <3>1, <5>1
      <4>2. pc'[j] = "send" /\ via'[j] = "create"
        BY <1>0, <3>6 DEF TypeOK
      <4>3. RequestFits(j)'
        BY <2>1, <3>1, <3>2, <4>2
      <4> QED
        BY <4>1, <4>3 DEF RequestOK
    <3> QED
      BY <3>1, <3>5, <3>6
  <2>4. ASSUME NEW j \in Job, RecoverOperation(j) PROVE RequestOK'
    <3>1. /\ phase' = phase /\ oper[j].status \in Open
          /\ \/ /\ pc' = [pc EXCEPT ![j] = "send"] /\ via' = [via EXCEPT ![j] = kind[j]]
                /\ MayRetry(j)
             \/ UNCHANGED <<pc, via>>
      BY <1>0, <2>4 DEF RecoverOperation, ListOK
    <3>2. kind[j] \in {"supersede", "forget"}
      BY <1>0, <3>1 DEF RowOK, RowsAgree, Open
    <3>3. <<kind[j], j>> \in Wanted'
      BY <2>1, <3>1, <3>2, KeySets DEF WantedBy, How, Open
    <3>4. MayRetry(j) => ~Refused(j) /\ (kind[j] = "supersede" => cand[j].content)
      BY DEF MayRetry, Replayable, Refused
    <3>5. CASE pc' = pc /\ via' = via
      BY <1>0, <2>1, <3>1, <3>5 DEF RequestOK
    <3>6. CASE pc' = [pc EXCEPT ![j] = "send"] /\ via' = [via EXCEPT ![j] = kind[j]] /\ MayRetry(j)
      <4>1. ASSUME NEW i \in Job \ {j} PROVE RequestFits(i)'
        <5>1. pc'[i] = pc[i] /\ via'[i] = via[i] /\ RequestFits(i)
          BY <1>0, <3>6 DEF RequestOK, TypeOK
        <5> QED
          BY <1>0, <2>1, <3>1, <5>1
      <4>2. pc'[j] = "send" /\ via'[j] = kind[j]
        BY <1>0, <3>6 DEF TypeOK
      <4>3. RequestFits(j)'
        BY <2>1, <3>1, <3>2, <3>3, <3>4, <3>6, <4>2
      <4> QED
        BY <4>1, <4>3 DEF RequestOK
    <3> QED
      BY <3>1, <3>5, <3>6
  <2>5. ASSUME NEW j \in Job, StorageFails(j) PROVE RequestOK'
    <3>1. /\ UNCHANGED via
          /\ \/ pc' = [pc EXCEPT ![j] = "idle"] /\ phase' = phase
             \/ AllIdle
      BY <2>5 DEF StorageFails, recovery
    <3>2. \A i \in Job : \/ pc'[i] = pc[i] /\ phase' = phase
                         \/ pc'[i] \in {"new", "idle"}
      BY <1>0, <3>1 DEF TypeOK, AllIdle
    <3> QED
      BY <1>0, <2>1, <3>1, <3>2 DEF RequestOK
  <2>6. CASE Crash
    BY <1>0, <2>6 DEF Crash, AllIdle, RequestOK, TypeOK
  <2>7. CASE Start \/ ListOperations \/ Serving
    <3>1. UNCHANGED <<pc, via>> /\ Busy = {}
      BY <1>0, <2>7 DEF Start, ListOperations, Serving, work, ListOK
    <3> QED
      BY <3>1 DEF RequestOK, Busy
  <2>8. CASE UNCHANGED vars \/ \E k \in Key : Serve(k)
    <3>1. UNCHANGED <<pc, via, phase>>
      BY <2>8 DEF vars, work, recovery, Serve
    <3> QED
      BY <1>0, <2>1, <3>1 DEF RequestOK
  <2> QED
    BY <1>2, <2>2, <2>3, <2>4, <2>5, <2>6, <2>7, <2>8 DEF OtherStep, RowStep, Next, Request,
      Recover
<1> QED
  BY <1>1, <1>2 DEF OtherStep

(* Every step keeps answers true.                                          *)
LEMMA StepAnswer == IInv /\ [Next]_vars => AnswerOK'
<1> SUFFICES ASSUME IInv, [Next]_vars PROVE AnswerOK'
  OBVIOUS
<1>0. TypeOK /\ RequestOK /\ AnswerOK /\ ledger \subseteq ledger'
  BY KeysGrow DEF IInv
<1> USE DEF AnswerTrue, At, Goto
<1>1. ASSUME NEW j \in Job, RowStep(j) PROVE AnswerOK'
  <2>0. UNCHANGED <<res, wire, ledger>>
    BY <1>1, RowsElsewhere DEF remote
  <2>1. \A i \in Job \ {j} : AnswerTrue(i)'
    BY <1>0, <1>1, <2>0, RowsElsewhere DEF AnswerOK, SameRows
  <2>2. AnswerTrue(j)'
    <3>1. CASE RecordOperation(j)
      <4>1. /\ AnswerTrue(j) /\ pc[j] = "answered" /\ via' = via
            /\ pc'[j] \in {"copy", "idle"}
        BY <1>0, <3>1 DEF RecordOperation, AnswerOK, TypeOK
      <4>2. res[j] = "ok" => oper'[j].status = "SUCCEEDED"
        BY <1>0, <3>1, OperationRow
      <4> QED
        BY <2>0, <4>1, <4>2
    <3>2. CASE ~RecordOperation(j)
      <4>1. pc'[j] \in {"decide", "asked", "operation", "rejected", "send", "idle"}
        BY <1>0, <1>1, <3>2 DEF RowStep, Remember, Supersede, Forget, Decide, SaveReplacement,
          SaveRejected, SaveSupersede, RecordCreate, RecordReplacement, TypeOK
      <4> QED
        BY <4>1
    <3> QED
      BY <3>1, <3>2
  <2> QED
    BY <2>1, <2>2 DEF AnswerOK
<1>2. CASE OtherStep
  <2>1. UNCHANGED oper
    BY <1>2, RowsElsewhen DEF OtherStep
  <2>2. ASSUME NEW j \in Job, Send(j) PROVE AnswerOK'
    <3>1. /\ UNCHANGED <<via, ledger>> /\ wire' = wire \cup {<<via[j], j>>}
          /\ pc' = [pc EXCEPT ![j] = "waiting"] /\ res' = [res EXCEPT ![j] = "none"]
      BY <2>2 DEF Send
    <3> QED
      BY <1>0, <2>1, <3>1 DEF AnswerOK, TypeOK
  <2>3. ASSUME NEW j \in Job, Hear(j) PROVE AnswerOK'
    <3>1. /\ UNCHANGED <<via, ledger, wire>> /\ pc[j] = "waiting"
          /\ pc' = [pc EXCEPT ![j] = "answered"]
          /\ res' = res \/ \E said \in {"unavailable", "garbled"} : res' = [res EXCEPT ![j] = said]
      BY <2>3 DEF Hear, remote
    <3> QED
      BY <1>0, <2>1, <3>1 DEF AnswerOK, TypeOK
  <2>4. ASSUME NEW k \in Key, Serve(k) PROVE AnswerOK'
    <3>1. UNCHANGED <<pc, via>> /\ k \in wire /\ wire' = wire \ {k}
      BY <2>4 DEF Serve
    <3>2. PICK j \in Job : k[2] = j /\ k = <<k[1], j>>
      BY DEF Key
    <3>3. \/ /\ k \in ledger' /\ ledger' = ledger \cup {k}
             /\ res' = [res EXCEPT ![j] = IF pc[j] = "waiting" /\ via[j] = k[1] THEN "ok" ELSE @]
          \/ /\ k \notin ledger /\ ledger' = ledger
             /\ res' = [res EXCEPT ![j] = IF pc[j] = "waiting" /\ via[j] = k[1] THEN "refused" ELSE @]
      BY <2>4, <3>2 DEF Serve, Answered
    <3>4. ASSUME NEW i \in Job, i # j \/ via[i] # k[1] PROVE AnswerTrue(i)'
      <4>1. res'[i] = res[i] /\ <<via[i], i>> # k
        BY <1>0, <3>2, <3>3, <3>4 DEF TypeOK
      <4> QED
        BY <1>0, <2>1, <3>1, <3>3, <4>1 DEF AnswerOK
    <3>5. ASSUME via[j] = k[1] PROVE AnswerTrue(j)'
      <4>1. <<via[j], j>> = k
        BY <3>2, <3>5
      <4>2. CASE pc[j] = "waiting"
        BY <1>0, <3>1, <3>3, <3>5, <4>1, <4>2 DEF TypeOK
      <4>3. CASE pc[j] # "waiting"
        BY <1>0, <2>1, <3>1, <3>3, <4>1, <4>3 DEF AnswerOK, TypeOK
      <4> QED
        BY <4>2, <4>3
    <3> QED
      BY <3>4, <3>5 DEF AnswerOK
  <2>5. ASSUME NEW j \in Job, RecoverCandidate(j) \/ RecoverOperation(j) PROVE AnswerOK'
    <3>1. /\ UNCHANGED <<res, ledger, wire>>
          /\ \/ pc' = [pc EXCEPT ![j] = "send"] /\ \A i \in Job \ {j} : via'[i] = via[i]
             \/ UNCHANGED <<pc, via>>
      BY <1>0, <2>5 DEF RecoverCandidate, RecoverOperation, remote, TypeOK
    <3> QED
      BY <1>0, <2>1, <3>1 DEF AnswerOK, TypeOK
  <2>6. ASSUME NEW j \in Job, StorageFails(j) PROVE AnswerOK'
    <3>1. UNCHANGED <<via, res, ledger, wire>> /\ (pc' = [pc EXCEPT ![j] = "idle"] \/ AllIdle)
      BY <2>6 DEF StorageFails, remote
    <3> QED
      BY <1>0, <2>1, <3>1 DEF AnswerOK, TypeOK, AllIdle
  <2>7. CASE Crash
    BY <2>7 DEF Crash, AllIdle, AnswerOK
  <2>8. CASE Start \/ ListOperations \/ Serving \/ UNCHANGED vars
    <3>1. UNCHANGED <<pc, via, res, ledger, wire>>
      BY <2>8 DEF Start, ListOperations, Serving, vars, work, remote
    <3> QED
      BY <1>0, <2>1, <3>1 DEF AnswerOK
  <2> QED
    BY <1>2, <2>2, <2>3, <2>4, <2>5, <2>6, <2>7, <2>8 DEF OtherStep, RowStep, Next, Request,
      Recover
<1> QED
  BY <1>1, <1>2 DEF OtherStep

(* Every step keeps the wire and the ledger within what rows want, and     *)
(* refused operations out of both.                                         *)
LEMMA StepWire == IInv /\ [Next]_vars => WireOK'
<1> SUFFICES ASSUME IInv, [Next]_vars PROVE WireOK'
  OBVIOUS
<1>0. /\ TypeOK /\ StageOK /\ RowOK /\ RequestOK /\ AnswerOK /\ WireOK
      /\ Wanted \subseteq Wanted'
  BY KeysGrow DEF IInv
<1>1. ASSUME NEW j \in Job, RowStep(j) PROVE WireOK'
  <2>0. UNCHANGED <<wire, ledger, res>>
    BY <1>1, RowsElsewhere DEF remote
  <2>1. wire' \subseteq Wanted' /\ ledger' \subseteq Wanted' /\ Confirmed' \subseteq ledger'
    BY <1>0, <1>1, <2>0, RowStepMaps DEF WireOK
  <2>2. \A i \in Job \ {j} : Refused(i)' => <<kind'[i], i>> \notin ledger' \cup wire'
    BY <1>0, <1>1, <2>0, RowsElsewhere DEF WireOK, Refused, SameRows
  <2>3. Refused(j)' => <<kind'[j], j>> \notin ledger' \cup wire'
    <3> USE DEF Refused
    <3>1. CASE Remember(j) \/ (\E m \in Memory : Supersede(j, m))
      <4>1. oper'[j] = NoOperation
        BY <1>0, <3>1 DEF Remember, Supersede, StageOK, Stage, At, rows
      <4> QED
        BY <4>1 DEF NoOperation
    <3>2. CASE (\E m \in Memory : Forget(j, m)) \/ SaveSupersede(j)
      <4>1. oper'[j].status = "PENDING"
        BY <1>0, <3>2 DEF Forget, SaveSupersede, TypeOK
      <4> QED
        BY <4>1
    <3>3. CASE SaveRejected(j)
      <4>1. kind'[j] = kind[j] /\ kind[j] = "supersede" /\ oper[j] = NoOperation
        BY <1>0, <3>3 DEF SaveRejected, StageOK, Stage, At
      <4>2. <<"supersede", j>> \notin Wanted
        BY <4>1, KeySets DEF WantedBy, How, NoOperation
      <4> QED
        BY <1>0, <2>0, <4>1, <4>2 DEF WireOK
    <3>4. CASE RecordOperation(j)
      <4>1. /\ kind' = kind /\ via[j] # "create" /\ pc[j] = "answered"
            /\ <<via[j], j>> \in Wanted
        BY <1>0, <3>4 DEF RecordOperation, RequestOK, RequestFits, Outstanding, InFlight, At
      <4>2. kind[j] = via[j]
        BY <1>0, <4>1, KeySets DEF WantedBy, How, TypeOK
      <4>3. Refused(j)' => res[j] = "refused"
        BY <1>0, <3>4, OperationRow
      <4> QED
        BY <1>0, <2>0, <4>1, <4>2, <4>3 DEF AnswerOK, AnswerTrue
    <3>5. CASE Decide(j) \/ SaveReplacement(j) \/ RecordCreate(j) \/ RecordReplacement(j)
      <4>1. UNCHANGED <<kind, oper>>
        BY <3>5 DEF Decide, SaveReplacement, RecordCreate, RecordReplacement
      <4> QED
        BY <1>0, <2>0, <4>1 DEF WireOK
    <3> QED
      BY <1>1, <3>1, <3>2, <3>3, <3>4, <3>5 DEF RowStep
  <2> QED
    BY <2>1, <2>2, <2>3 DEF WireOK
<1>2. CASE OtherStep
  <2>1. UNCHANGED <<kind, cand, oper>>
    BY <1>2, RowsElsewhen DEF OtherStep
  <2>2. /\ UNCHANGED <<Wanted, Confirmed, kind>>
        /\ \A i \in Job : Refused(i)' <=> Refused(i)
    BY <2>1 DEF Wanted, Confirmed, Refused
  <2>3. ASSUME NEW j \in Job, Send(j) PROVE WireOK'
    <3>1. ledger' = ledger /\ wire' = wire \cup {<<via[j], j>>} /\ pc[j] = "send"
      BY <2>3 DEF Send, At
    <3>2. <<via[j], j>> \in Wanted
      BY <1>0, <3>1 DEF RequestOK, RequestFits, Outstanding, InFlight
    <3>3. ASSUME NEW i \in Job, Refused(i) PROVE <<kind[i], i>> # <<via[j], j>>
      <4>1. kind[i] \in {"supersede", "forget"}
        BY <1>0, <3>3 DEF RowOK, RowsAgree, Refused
      <4>2. i = j => via[j] = "create"
        BY <1>0, <3>1, <3>3 DEF RequestOK, RequestFits, InFlight
      <4> QED
        BY <4>1, <4>2
    <3> QED
      BY <1>0, <2>2, <3>1, <3>2, <3>3 DEF WireOK
  <2>4. ASSUME NEW k \in Key, Serve(k) PROVE WireOK'
    <3>1. k \in wire /\ wire' = wire \ {k} /\ (ledger' = ledger \/ ledger' = ledger \cup {k})
      BY <2>4 DEF Serve
    <3> QED
      BY <1>0, <2>2, <3>1 DEF WireOK
  <2>5. CASE UNCHANGED <<wire, ledger>>
    BY <1>0, <2>2, <2>5 DEF WireOK
  <2> QED
    BY <1>2, <2>3, <2>4, <2>5 DEF OtherStep, RowStep, Next, Request, Recover, vars, remote, Hear,
      StorageFails, Start, ListOperations, Serving, RecoverCandidate, RecoverOperation, Crash
<1> QED
  BY <1>1, <1>2 DEF OtherStep

(* The intent that a step of a request moves is at work, or new.           *)
LEMMA AtWork ==
  ASSUME IInv, NEW j \in Job, RowStep(j) \/ Send(j) \/ Hear(j)
  PROVE  /\ pc[j] # "idle" /\ j \notin todo /\ phase # "down"
         /\ UNCHANGED recovery
<1>1. UNCHANGED recovery
  BY RowsElsewhere DEF Send, Hear
<1>2. pc[j] # "idle" /\ (pc[j] = "new" => phase = "up")
  BY DEF RowStep, Remember, Supersede, Forget, Decide, SaveReplacement, SaveRejected,
    SaveSupersede, RecordCreate, RecordOperation, RecordReplacement, Send, Hear, At
<1>3. pc[j] # "new" => phase # "down"
  BY <1>2 DEF IInv, ListOK, Busy
<1> QED
  BY <1>1, <1>2, <1>3 DEF IInv, ListOK, At

(* Every step begins one intent at most.                                   *)
LEMMA StepFew == IInv /\ [Next]_vars => FewOK'
<1> SUFFICES ASSUME IInv, [Next]_vars PROVE FewOK'
  OBVIOUS
<1> DEFINE B == {i \in Job : pc[i] # "new"}
<1>1. SUFFICES \E j : {i \in Job : pc'[i] # "new"} \subseteq B \cup {j}
  <2>1. ASSUME NEW j PROVE IsFiniteSet(B \cup {j})
    BY FS_AddElement DEF IInv, FewOK
  <2>2. PICK j : {i \in Job : pc'[i] # "new"} \subseteq B \cup {j}
    BY <1>1
  <2> QED
    BY <2>1, <2>2, FS_Subset DEF FewOK
<1>2. CASE \E j \in Job : RowStep(j)
  BY <1>2, RowsElsewhere
<1>3. ASSUME NEW j \in Job, NEW step, pc' = [pc EXCEPT ![j] = step]
      PROVE  {i \in Job : pc'[i] # "new"} \subseteq B \cup {j}
  BY <1>3 DEF IInv, TypeOK
<1>4. CASE AllIdle \/ UNCHANGED pc
  BY <1>4 DEF AllIdle
<1>5. ASSUME NEW j \in Job,
             \/ Send(j) \/ Hear(j) \/ StorageFails(j) \/ RecoverCandidate(j) \/ RecoverOperation(j)
      PROVE  AllIdle \/ UNCHANGED pc \/ \E step : pc' = [pc EXCEPT ![j] = step]
  BY <1>5 DEF Send, Hear, StorageFails, RecoverCandidate, RecoverOperation, Goto
<1>6. CASE \/ Start \/ ListOperations \/ Serving \/ Crash \/ UNCHANGED vars
           \/ \E k \in Key : Serve(k)
  BY <1>4, <1>6 DEF Start, ListOperations, Serving, Crash, vars, work, Serve
<1> QED
  BY <1>2, <1>3, <1>4, <1>5, <1>6 DEF RowStep, Next, Request, Recover

(* What is open has begun.                                                 *)
LEMMA OpenHasBegun ==
  ASSUME StageOK, NEW j \in Job, j \in OpenCandidates \/ j \in OpenOperations
  PROVE  pc[j] # "new"
BY DEF StageOK, Stage, At, NoCandidate, NoOperation, OpenCandidates, OpenOperations, Open

(* A list that leaves a row out is full, and all on it are older.          *)
LEMMA PageIsFirst ==
  ASSUME StageOK, FewOK, NEW open \in {OpenCandidates, OpenOperations},
         NEW page \in SUBSET open, IsPage(page, open), NEW j \in open \ page
  PROVE  OffPage(page, j)
<1>1. open \subseteq {i \in Job : pc[i] # "new"}
  BY OpenHasBegun DEF OpenCandidates, OpenOperations
<1>2. IsFiniteSet(open)
  BY <1>1, FS_Subset DEF FewOK
<1>3. Cardinality(page) # Cardinality(open)
  BY <1>2, FS_Subset
<1>4. page \X {j} \subseteq page \X (open \ page)
  OBVIOUS
<1> QED
  BY <1>3, <1>4 DEF IsPage, Least, OffPage

(* Every step keeps recovery alone with its list.                          *)
LEMMA StepList == IInv /\ [Next]_vars => ListOK'
<1> SUFFICES ASSUME IInv, [Next]_vars PROVE ListOK'
  OBVIOUS
<1>0. TypeOK /\ StageOK /\ ListOK
  BY DEF IInv
<1>1. ASSUME NEW j \in Job, RowStep(j) PROVE ListOK'
  <2>1. /\ \A i \in Job \ {j} : SameRows(i) /\ pc'[i] = pc[i]
        /\ UNCHANGED <<phase, todo>> /\ j \notin todo /\ phase # "down"
    BY <1>1, RowsElsewhere, AtWork DEF recovery
  <2>2. \A i \in todo : i \in Job \ {j}
    BY <1>0, <2>1 DEF TypeOK
  <2> QED
    BY <1>0, <2>1, <2>2 DEF ListOK, SameRows, At
<1>2. CASE OtherStep
  <2>1. UNCHANGED <<cand, oper>>
    BY <1>2, RowsElsewhen DEF OtherStep
  <2>2. ASSUME NEW j \in Job, Send(j) \/ Hear(j) PROVE ListOK'
    <3>1. /\ \A i \in Job \ {j} : pc'[i] = pc[i]
          /\ UNCHANGED <<phase, todo>> /\ j \notin todo /\ phase # "down"
      BY <1>0, <2>2, AtWork DEF Send, Hear, Goto, TypeOK, recovery
    <3> QED
      BY <1>0, <2>1, <3>1 DEF ListOK, At, TypeOK
  <2>3. CASE /\ phase' \in {"down", "up"} /\ todo' = {} /\ AllIdle
    BY <1>0, <2>3 DEF ListOK, AllIdle, Busy, TypeOK
  <2>4. ASSUME NEW j \in Job, StorageFails(j), phase = "up" PROVE ListOK'
    <3>1. UNCHANGED recovery /\ Goto(j, "idle")
      BY <2>4 DEF StorageFails
    <3> QED
      BY <1>0, <2>1, <2>4, <3>1 DEF ListOK, recovery
  <2>5. ASSUME NEW j \in Job, RecoverCandidate(j) \/ RecoverOperation(j) PROVE ListOK'
    <3>1. /\ \A i \in Job \ {j} : pc'[i] = pc[i]
          /\ phase' = phase /\ phase \in {"candidates", "operations"} /\ todo' = todo \ {j}
      BY <1>0, <2>5 DEF RecoverCandidate, RecoverOperation, Goto, TypeOK
    <3> QED
      BY <1>0, <2>1, <3>1 DEF ListOK, At, TypeOK
  <2>6. CASE Start
    <3>1. /\ phase' = "candidates" /\ UNCHANGED <<pc, cand>> /\ Busy = {}
          /\ todo' \subseteq OpenCandidates
      BY <1>0, <2>6 DEF Start, work, rows, ListOK
    <3>2. \A j \in todo' : j \in Job /\ cand[j].decision = "APPROVED" /\ pc[j] # "new"
      BY <1>0, <3>1, OpenHasBegun DEF OpenCandidates
    <3> QED
      BY <3>1, <3>2 DEF ListOK, Busy, At
  <2>7. CASE ListOperations
    <3>1. /\ phase' = "operations" /\ UNCHANGED <<pc, oper>> /\ Busy = {}
          /\ todo' \subseteq OpenOperations
      BY <1>0, <2>7 DEF ListOperations, work, rows
    <3>2. \A j \in todo' : j \in Job /\ oper[j].status \in Open /\ pc[j] # "new"
      BY <1>0, <3>1, OpenHasBegun DEF OpenOperations
    <3> QED
      BY <3>1, <3>2 DEF ListOK, Busy, At
  <2>8. CASE Serving
    BY <1>0, <2>8 DEF Serving, ListOK, work
  <2>9. CASE UNCHANGED vars \/ \E k \in Key : Serve(k)
    <3>1. UNCHANGED <<pc, phase, todo>>
      BY <2>9 DEF vars, work, recovery, Serve
    <3> QED
      BY <1>0, <2>1, <3>1 DEF ListOK, Busy, At
  <2>10. CASE Crash
    BY <2>3, <2>10 DEF Crash
  <2>11. ASSUME NEW j \in Job, StorageFails(j), phase # "up" PROVE ListOK'
    BY <2>3, <2>11 DEF StorageFails
  <2> QED
    BY <1>2, <2>2, <2>4, <2>5, <2>6, <2>7, <2>8, <2>9, <2>10, <2>11 DEF OtherStep, RowStep,
      Next, Request, Recover
<1> QED
  BY <1>1, <1>2 DEF OtherStep

(* Every step keeps what is open on recovery's list, or asked for.         *)
LEMMA StepListed == IInv /\ [Next]_vars => ListedOK'
<1> SUFFICES ASSUME IInv, [Next]_vars PROVE ListedOK'
  OBVIOUS
<1>0. /\ TypeOK /\ StageOK /\ RowOK /\ RequestOK /\ ListOK /\ FewOK /\ ListedOK
      /\ ScrubbedIsStored
  BY DEF IInv
<1> USE DEF Listed, InFlight
<1>1. ASSUME NEW j \in Job, RowStep(j) PROVE ListedOK'
  <2>1. /\ \A i \in Job \ {j} : Listed(i)'
        /\ UNCHANGED <<phase, todo, missed, res>> /\ j \notin todo /\ Listed(j)
    BY <1>0, <1>1, RowsElsewhere, AtWork DEF ListedOK, SameRows, recovery
  <2>2. Listed(j)'
    <3>1. CASE pc[j] \in {"new", "decide", "asked", "operation", "rejected"}
      <4>1. phase = "up"
        BY <1>0, <1>1, <3>1 DEF RowStep, Remember, Supersede, Forget, Decide, SaveReplacement,
          SaveRejected, SaveSupersede, RecordCreate, RecordOperation, RecordReplacement, At,
          StageOK, Stage
      <4> QED
        BY <2>1, <4>1
    <3>2. CASE RecordCreate(j)
      <4>1. /\ pc[j] = "answered" /\ via[j] = "create" /\ oper' = oper /\ cand' = Outcome(j)
        BY <3>2 DEF RecordCreate, At
      <4>2. /\ cand'[j].status \in {"SUCCEEDED", "FAILED"}
            /\ cand'[j].memory \in {<<"create", j>>, cand[j].memory}
        BY <1>0, <4>1, OutcomeRow
      <4> QED
        BY <2>1, <4>1, <4>2
    <3>3. CASE RecordOperation(j)
      <4>1. /\ pc[j] = "answered" /\ via[j] # "create" /\ cand' = cand
        BY <3>3 DEF RecordOperation, At
      <4>2. oper'[j].status \in {"SUCCEEDED", "FAILED"}
        BY <1>0, <3>3, OperationRow
      <4> QED
        BY <2>1, <4>1, <4>2
    <3>4. CASE RecordReplacement(j)
      <4>1. /\ pc[j] = "copy" /\ via[j] = "supersede" /\ oper' = oper /\ cand' = Outcome(j)
            /\ cand[j].memory = Nowhere
        BY <1>0, <3>4 DEF RecordReplacement, RequestOK, RequestFits, Outstanding, RowOK,
          RowsAgree, At
      <4>2. cand'[j].status \in {"SUCCEEDED", "FAILED"}
        BY <1>0, <4>1, OutcomeRow
      <4>3. <<"create", j>> # Nowhere
        BY MemoryAssumption DEF Nowhere
      <4> QED
        BY <2>1, <4>1, <4>2, <4>3
    <3> QED
      BY <1>1, <3>1, <3>2, <3>3, <3>4 DEF RowStep, Remember, Supersede, Forget, Decide,
        SaveReplacement, SaveRejected, SaveSupersede, At
  <2> QED
    BY <2>1, <2>2 DEF ListedOK
<1>2. CASE OtherStep
  <2>1. UNCHANGED <<cand, oper>>
    BY <1>2, RowsElsewhen DEF OtherStep
  <2>2. ASSUME NEW j \in Job, Send(j) \/ Hear(j) PROVE ListedOK'
    <3>1. /\ pc[j] \in {"send", "waiting"} /\ UNCHANGED <<via, phase, todo, missed>>
          /\ \E step \in {"waiting", "answered"} : pc' = [pc EXCEPT ![j] = step]
      BY <2>2 DEF Send, Hear, Goto, At, recovery
    <3>2. \A i \in Job : InFlight(i) => InFlight(i)'
      BY <1>0, <3>1 DEF TypeOK, InFlight, Busy
    <3> QED
      BY <1>0, <2>1, <3>1, <3>2 DEF ListedOK
  <2>3. CASE phase' \in {"down", "up"}
    BY <2>3 DEF ListedOK
  <2>4. ASSUME NEW j \in Job, RecoverCandidate(j) PROVE ListedOK'
    <3>1. /\ phase' = phase /\ phase = "candidates" /\ todo' = todo \ {j} /\ missed' = missed
          /\ \/ pc' = [pc EXCEPT ![j] = "send"] /\ via' = [via EXCEPT ![j] = "create"]
             \/ UNCHANGED <<pc, via>> /\ cand[j].status # "PENDING"
      BY <2>4 DEF RecoverCandidate, Goto, Replayable
    <3>2. ASSUME NEW i \in Job \ {j} PROVE Listed(i)'
      <4>1. pc'[i] = pc[i] /\ via'[i] = via[i] /\ (i \in todo => i \in todo')
        BY <1>0, <3>1 DEF TypeOK
      <4> QED
        BY <1>0, <2>1, <3>1, <4>1 DEF ListedOK
    <3>3. Listed(j)'
      BY <1>0, <2>1, <3>1 DEF ListedOK, TypeOK
    <3> QED
      BY <3>2, <3>3 DEF ListedOK
  <2>5. ASSUME NEW j \in Job, RecoverOperation(j) PROVE ListedOK'
    <3>1. /\ phase' = phase /\ phase = "operations" /\ todo' = todo \ {j} /\ missed' = missed
          /\ oper[j].status \in Open
          /\ \/ pc' = [pc EXCEPT ![j] = "send"] /\ via' = [via EXCEPT ![j] = kind[j]]
             \/ UNCHANGED <<pc, via>> /\ ~MayRetry(j)
      BY <1>0, <2>5 DEF RecoverOperation, Goto, ListOK
    <3>2. kind[j] \in {"supersede", "forget"}
      BY <1>0, <3>1 DEF RowOK, RowsAgree, Open
    <3>3. ~MayRetry(j) /\ oper[j].status = "PENDING" => cand[j].memory = <<"create", j>>
      <4>1. SUFFICES ASSUME ~MayRetry(j), oper[j].status = "PENDING"
                     PROVE  cand[j].memory = <<"create", j>>
        OBVIOUS
      <4>2. kind[j] = "supersede" /\ ~cand[j].content /\ cand[j].decision = "APPROVED"
        BY <1>0, <3>2, <4>1 DEF MayRetry, Replayable, RowOK, RowsAgree
      <4>3. cand[j].memory = <<cand[j].memory[1], j>> /\ cand[j].memory \in ledger
        BY <1>0, <4>2 DEF ScrubbedIsStored
      <4>4. cand[j].memory # <<"supersede", j>>
        BY <1>0, <4>1 DEF RowOK, RowsAgree
      <4>5. cand[j].memory \in Memory
        BY <1>0 DEF TypeOK
      <4>6. cand[j].memory[1] \in {"create", "supersede"}
        BY <4>5 DEF Memory, Old, Nowhere
      <4> QED
        BY <4>3, <4>4, <4>6
    <3>4. ASSUME NEW i \in Job \ {j} PROVE Listed(i)'
      <4>1. pc'[i] = pc[i] /\ via'[i] = via[i] /\ (i \in todo => i \in todo')
        BY <1>0, <3>1 DEF TypeOK
      <4> QED
        BY <1>0, <2>1, <3>1, <4>1 DEF ListedOK
    <3>5. Listed(j)'
      BY <1>0, <2>1, <3>1, <3>2, <3>3 DEF ListedOK, TypeOK
    <3> QED
      BY <3>4, <3>5 DEF ListedOK
  <2>6. ASSUME NEW j \in Job, StorageFails(j), phase = "up" PROVE phase' = "up"
    BY <2>6 DEF StorageFails, recovery
  <2>7. CASE Start
    <3>1. PICK page \in SUBSET OpenCandidates :
            /\ IsPage(page, OpenCandidates) /\ todo' = page /\ phase' = "candidates"
            /\ missed' = {"candidate"} \X {j \in OpenCandidates \ page : OffPage(page, j)}
      BY <2>7 DEF Start
    <3>2. \A j \in OpenCandidates \ page : OffPage(page, j)
      BY <1>0, <3>1, PageIsFirst
    <3> QED
      BY <2>1, <3>1, <3>2 DEF ListedOK, OpenCandidates, Open
  <2>8. CASE ListOperations
    <3>1. PICK page \in SUBSET OpenOperations :
            /\ IsPage(page, OpenOperations) /\ todo' = page
            /\ phase = "candidates" /\ phase' = "operations" /\ todo = {} /\ Busy = {}
            /\ missed' = missed \cup
                 ({"operation"} \X {j \in OpenOperations \ page : OffPage(page, j)})
      BY <2>8 DEF ListOperations
    <3>2. \A j \in OpenOperations \ page : OffPage(page, j)
      BY <1>0, <3>1, PageIsFirst
    <3>3. \A j \in Job : oper[j].status = "PENDING" => j \in todo' \/ <<"operation", j>> \in missed'
      BY <3>1, <3>2 DEF OpenOperations, Open
    <3> QED
      BY <1>0, <2>1, <3>1, <3>3 DEF ListedOK, Busy
  <2>9. CASE UNCHANGED vars \/ \E k \in Key : Serve(k)
    <3>1. UNCHANGED <<pc, via, phase, todo, missed>>
      BY <2>9 DEF vars, work, recovery, Serve
    <3> QED
      BY <1>0, <2>1, <3>1 DEF ListedOK
  <2> QED
    BY <1>2, <2>2, <2>3, <2>4, <2>5, <2>6, <2>7, <2>8, <2>9 DEF OtherStep, RowStep, Next,
      Request, Recover, Crash, StorageFails, Serving
<1> QED
  BY <1>1, <1>2 DEF OtherStep

(* The invariant holds in every reachable state.                           *)
THEOREM WritesInvariance == Spec => []IInv
<1>1. IInv /\ [Next]_vars => IInv'
  BY StepTyped, StepStage, StepRow, StepRequest, StepAnswer, StepWire, StepList, StepFew,
    StepListed, StepScrubbed DEF IInv
<1> QED
  BY InitIInv, <1>1, PTL DEF Spec

(* Intents are in order: content goes only when the service has it, and    *)
(* what the service refused has no effect (MemoryOrchestrator).            *)
THEOREM IntentsStayInOrder == Spec => []IntentsInOrder
<1>1. IInv => IntentsInOrder
  BY DEF IInv, IntentsInOrder, RefusedHasNoEffect, WireOK, Refused
<1> QED
  BY WritesInvariance, <1>1, PTL

(* Recovery settles all that was open, and on its lists, before the Core   *)
(* serves anybody, and only it asks for a memory of a Supersede's          *)
(* replacement.                                                            *)
THEOREM RecoveryAlwaysConverges == Spec => RecoveryConverges
<1>1. ASSUME IInv, Serving, NEW j \in Job
      PROVE  /\ cand[j].decision = "APPROVED" /\ <<"candidate", j>> \notin missed =>
                  cand[j].status # "PENDING"
             /\ oper[j].status = "PENDING" /\ <<"operation", j>> \notin missed =>
                  cand[j].memory = <<"create", j>>
  BY <1>1 DEF IInv, ListedOK, Listed, InFlight, Serving, Busy
<1>2. ASSUME IInv, [Next]_vars, NEW j \in Job, <<"create", j>> \in wire' \ wire
      PROVE  kind[j] = "remember" \/ phase = "candidates"
  <2>1. Send(j)
    <3>1. ASSUME NEW i \in Job, Send(i) PROVE i = j
      BY <1>2, <3>1 DEF Send
    <3>2. CASE \E i \in Job : RowStep(i)
      BY <1>2, <3>2, RowsElsewhere DEF remote
    <3> QED
      BY <1>2, <3>1, <3>2 DEF RowStep, Next, Request, Recover, vars, remote, Hear, Serve,
        StorageFails, Start, ListOperations, Serving, RecoverCandidate, RecoverOperation, Crash
  <2>2. via[j] = "create" /\ pc[j] = "send"
    BY <1>2, <2>1 DEF Send, At
  <2> QED
    BY <1>2, <2>2 DEF IInv, RequestOK, RequestFits, At
<1>3. IInv /\ [Next]_vars =>
        [Serving => \A j \in Job :
           /\ cand[j].decision = "APPROVED" /\ <<"candidate", j>> \notin missed =>
                cand[j].status # "PENDING"
           /\ oper[j].status = "PENDING" /\ <<"operation", j>> \notin missed =>
                cand[j].memory = <<"create", j>>]_vars
  BY <1>1
<1>4. IInv /\ [Next]_vars =>
        [\A j \in Job : <<"create", j>> \in wire' \ wire =>
           kind[j] = "remember" \/ phase = "candidates"]_vars
  BY <1>2
<1> QED
  BY WritesInvariance, <1>3, <1>4, PTL DEF Spec, RecoveryConverges, RecoverySettles,
    SupersedeRememberedOnlyInRecovery

(* MemoryOrchestrator implements a converging write: a row wants it before *)
(* it is sent, it takes effect at most once, and the row confirms it only  *)
(* afterwards.                                                             *)
THEOREM WritesConverge == Spec => ImplementsConvergingWrites
<1>1. Init => Writes!Init
  BY MemoryAssumption DEF Init, Writes!Init, Wanted, Confirmed, Key, NoCandidate, NoOperation,
    Nowhere
<1>2. IInv /\ [Next]_vars => [Writes!Next]_<<Wanted, ledger, Confirmed>>
  <2> SUFFICES ASSUME IInv, [Next]_vars PROVE [Writes!Next]_<<Wanted, ledger, Confirmed>>
    OBVIOUS
  <2> USE DEF Writes!Next, Writes!Want, Writes!Effect, Writes!Confirm
  <2>1. ASSUME NEW j \in Job, RowStep(j) PROVE [Writes!Next]_<<Wanted, ledger, Confirmed>>
    <3>1. UNCHANGED ledger /\ ledger \subseteq Key
      BY <2>1, RowsElsewhere DEF remote, IInv, TypeOK
    <3> QED
      BY <2>1, <3>1, RowStepMaps
  <2>2. CASE OtherStep
    <3>1. UNCHANGED <<Wanted, Confirmed>>
      <4>1. UNCHANGED <<kind, cand, oper>>
        BY <2>2, RowsElsewhen DEF OtherStep
      <4> QED
        BY <4>1 DEF Wanted, Confirmed
    <3>2. ASSUME NEW k \in Key, Serve(k)
          PROVE  ledger' = ledger \/ (k \in Wanted /\ ledger' = ledger \cup {k})
      <4>1. k \in wire /\ (ledger' = ledger \/ ledger' = ledger \cup {k})
        BY <3>2 DEF Serve
      <4> QED
        BY <4>1 DEF IInv, WireOK
    <3>3. CASE UNCHANGED ledger
      BY <3>1, <3>3
    <3> QED
      BY <2>2, <3>1, <3>2, <3>3 DEF OtherStep, RowStep, Next, Request, Recover, vars, remote,
        Send, Hear, StorageFails, Start, ListOperations, Serving, RecoverCandidate,
        RecoverOperation, Crash
  <2> QED
    BY <2>1, <2>2 DEF OtherStep
<1> QED
  BY WritesInvariance, <1>1, <1>2, PTL DEF Spec, ImplementsConvergingWrites, Writes!Spec
==============================================================================
