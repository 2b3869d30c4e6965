------------------------- MODULE ToolExecutionProofs -------------------------
(***************************************************************************)
(* Theorems about ToolExecution, for every set of callers, calls, grants   *)
(* and confirmations and every number of faults.                           *)
(***************************************************************************)
EXTENDS ToolExecution, TLAPS

(* What a caller holds in its locals, by where it is.                      *)
LocalsOK ==
  \A p \in Caller :
    /\ op[p].pc \in Inside \cup {"acquire", "reload"} => op[p].call \in Call
    /\ op[p].pc \in {"issue", "resolve", "withdraw", "park"} =>
         op[p].conf \in Conf /\ conf[op[p].conf].status # "NONE"
    /\ op[p].pc \in {"resolve", "withdraw"} =>
         op[p].grant \in Grant /\ grant[op[p].grant].issuer = op[p].conf
    /\ op[p].pc \in {"consume", "start", "dispatch", "finish"} => op[p].grant \in Grant
    /\ op[p].pc = "park" => conf[op[p].conf].call = op[p].call
    /\ op[p].grant # None => grant[op[p].grant].status # "NONE"

(* What the rows refer to is stored.                                       *)
RowsOK ==
  /\ \A g \in Grant : grant[g].status # "NONE" =>
       grant[g].issuer \in Conf /\ conf[grant[g].issuer].status # "NONE"
  /\ \A k \in Conf : conf[k].status # "NONE" => conf[k].call \in Call

(* What the caller inside invoke knows of its call: no effect yet, until   *)
(* it dispatches.                                                          *)
ProgressOK ==
  \A p \in Caller :
    /\ op[p].pc \in Inside \ {"dispatch", "finish"} =>
         row[op[p].call].status \in {"ABSENT", "QUEUED", "WAITING_CONFIRMATION"}
    /\ op[p].pc = "dispatch" =>
         row[op[p].call].status = "RUNNING" /\ effects[op[p].call] = << >>
    /\ op[p].pc = "finish" =>
         row[op[p].call].status \in {"RUNNING", "SUCCEEDED"} /\ Len(effects[op[p].call]) = 1

(* What it knows of its grant: the scope is the call's, and a ONE_SHOT     *)
(* grant it has consumed stands behind no effect yet.                      *)
ScopeOK ==
  \A p \in Caller, g \in Grant :
    op[p].pc \in {"consume", "start", "dispatch"} /\ op[p].grant = g =>
      ScopeOf[IssuedFor(g)] = ScopeOf[op[p].call]

SpentOK ==
  \A p \in Caller, g \in Grant :
    op[p].pc \in {"start", "dispatch"} /\ op[p].grant = g /\ IsOneShot(g) =>
      grant[g].status = "CONSUMED" /\ Used(g) = {}

UnissuedUnused == \A g \in Grant : grant[g].status = "NONE" => Used(g) = {}

IInv ==
  /\ TypeOK
  /\ LockHeld
  /\ LocalsOK
  /\ RowsOK
  /\ ProgressOK
  /\ EffectMatchesRecord
  /\ ScopeOK
  /\ SpentOK
  /\ UnissuedUnused
  /\ OneShotSpentOnce
  /\ ParkedCallIsConfirmable
  /\ NoOrphanAuthority

------------------------------------------------------------------------------
(* Helpers: what an update leaves typed, and what it keeps.                *)

LEMMA MoveTyped ==
  ASSUME op \in [Caller -> Op], NEW p \in Caller, NEW l \in PC, NEW c \in Call \cup {None},
         NEW g \in Grant \cup {None}, NEW k \in Conf \cup {None}, Move(p, l, c, g, k)
  PROVE  op' \in [Caller -> Op]
  BY DEF Move, Op

LEMMA GotoTyped ==
  ASSUME op \in [Caller -> Op], NEW p \in Caller, NEW l \in PC, Goto(p, l)
  PROVE  op' \in [Caller -> Op]
<1>1. op[p].call \in Call \cup {None} /\ op[p].grant \in Grant \cup {None}
      /\ op[p].conf \in Conf \cup {None}
  BY DEF Op
<1> QED
  BY <1>1, MoveTyped DEF Goto

LEMMA IdleTyped ==
  ASSUME op \in [Caller -> Op], NEW p \in Caller, op' = [op EXCEPT ![p] = Idle]
  PROVE  op' \in [Caller -> Op]
  BY DEF Op, Idle, PC

LEMMA RowTyped ==
  ASSUME row \in [Call -> CallRow], NEW c \in Call, NEW s \in RowStatus,
         NEW k \in Conf \cup {None}, SaveCall(c, s, k)
  PROVE  row' \in [Call -> CallRow]
  BY DEF SaveCall, CallRow

LEMMA GrantTyped ==
  ASSUME grant \in [Grant -> GrantRow], NEW g \in Grant, NEW s \in GrantStatus,
         NEW k \in Conf \cup {None}, SaveGrant(g, s, k)
  PROVE  grant' \in [Grant -> GrantRow]
  BY DEF SaveGrant, GrantRow

LEMMA ConfTyped ==
  ASSUME conf \in [Conf -> ConfRow], NEW k \in Conf, NEW s \in ConfStatus,
         NEW c \in Call \cup {None}, NEW g \in Grant \cup {None}, SaveConf(k, s, c, g)
  PROVE  conf' \in [Conf -> ConfRow]
  BY DEF SaveConf, ConfRow

LEMMA UsedFrame ==
  effects' = effects => \A g \in Grant : Used(g)' = Used(g)
  BY DEF Used

LEMMA UsedAppend ==
  ASSUME effects \in [Call -> Seq(Grant)], NEW c \in Call, NEW g \in Grant,
         effects[c] = << >>, effects' = [effects EXCEPT ![c] = Append(@, g)]
  PROVE  /\ Used(g)' = Used(g) \cup {c}
         /\ \A h \in Grant : h # g => Used(h)' = Used(h)
<1>1. effects'[c] = <<g>>
  OBVIOUS
<1>2. \A d \in Call : d # c => effects'[d] = effects[d]
  OBVIOUS
<1> QED
  BY <1>1, <1>2 DEF Used

LEMMA RevokedKeeps ==
  ASSUME grant \in [Grant -> GrantRow], NEW g \in Grant, Revoked(g)
  PROVE  /\ grant'[g].status # "ACTIVE"
         /\ \A h \in Grant : /\ grant'[h].issuer = grant[h].issuer
                             /\ grant'[h].status = "NONE" <=> grant[h].status = "NONE"
                             /\ grant'[h].status = "CONSUMED" <=> grant[h].status = "CONSUMED"
                             /\ grant'[h].status = "ACTIVE" => grant[h].status = "ACTIVE"
<1>1. CASE grant[g].status = "ACTIVE"
  BY <1>1 DEF Revoked, SaveGrant
<1>2. CASE grant[g].status # "ACTIVE"
  BY <1>2 DEF Revoked
<1> QED
  BY <1>1, <1>2

LEMMA IssuedFrame ==
  UNCHANGED <<grant, conf>> =>
    \A g \in Grant : IssuedFor(g)' = IssuedFor(g) /\ IsOneShot(g)' = IsOneShot(g)
  BY DEF IssuedFor, IsOneShot

(* A conjunct none of whose variables changes is kept.                     *)
LEMMA Frame ==
  IInv =>
    /\ UNCHANGED <<lock, op>> => LockHeld'
    /\ UNCHANGED <<op, grant, conf>> => LocalsOK'
    /\ UNCHANGED <<grant, conf>> => RowsOK'
    /\ UNCHANGED <<op, row, effects>> => ProgressOK'
    /\ UNCHANGED <<row, effects>> => EffectMatchesRecord'
    /\ UNCHANGED <<op, grant, conf>> => ScopeOK'
    /\ UNCHANGED <<op, grant, conf, effects>> => SpentOK'
    /\ UNCHANGED <<grant, effects>> => UnissuedUnused'
    /\ UNCHANGED <<grant, conf, effects>> => OneShotSpentOnce'
    /\ UNCHANGED <<row, conf>> => ParkedCallIsConfirmable'
    /\ UNCHANGED <<op, grant, conf, faults>> => NoOrphanAuthority'
<1>1. IInv /\ UNCHANGED <<lock, op>> => LockHeld'
  BY DEF IInv, LockHeld
<1>2. IInv /\ UNCHANGED <<op, grant, conf>> => LocalsOK'
  BY DEF IInv, LocalsOK
<1>3. IInv /\ UNCHANGED <<grant, conf>> => RowsOK'
  BY DEF IInv, RowsOK
<1>4. IInv /\ UNCHANGED <<op, row, effects>> => ProgressOK'
  BY DEF IInv, ProgressOK
<1>5. IInv /\ UNCHANGED <<row, effects>> => EffectMatchesRecord'
  BY DEF IInv, EffectMatchesRecord
<1>6. IInv /\ UNCHANGED <<op, grant, conf>> => ScopeOK'
  BY DEF IInv, ScopeOK, IssuedFor
<1>7. IInv /\ UNCHANGED <<op, grant, conf, effects>> => SpentOK'
  BY DEF IInv, SpentOK, IsOneShot, IssuedFor, Used
<1>8. IInv /\ UNCHANGED <<grant, effects>> => UnissuedUnused'
  BY DEF IInv, UnissuedUnused, Used
<1>9. IInv /\ UNCHANGED <<grant, conf, effects>> => OneShotSpentOnce'
  BY DEF IInv, OneShotSpentOnce, IsOneShot, IssuedFor, Used
<1>10. IInv /\ UNCHANGED <<row, conf>> => ParkedCallIsConfirmable'
  BY DEF IInv, ParkedCallIsConfirmable
<1>11. IInv /\ UNCHANGED <<op, grant, conf, faults>> => NoOrphanAuthority'
  BY DEF IInv, NoOrphanAuthority
<1> QED
  BY <1>1, <1>2, <1>3, <1>4, <1>5, <1>6, <1>7, <1>8, <1>9, <1>10, <1>11

(* A step after which nobody else is about to start keeps SpentOK: what a  *)
(* grant was issued for stands, and a CONSUMED one stays so.               *)
LEMMA SpentKept ==
  ASSUME IInv, effects' = effects,
         \A q \in Caller : op'[q].pc \in {"start", "dispatch"} =>
           op[q].pc \in {"start", "dispatch"} /\ op'[q].grant = op[q].grant,
         \A g \in Grant : grant[g].status # "NONE" => IsOneShot(g)' = IsOneShot(g),
         \A g \in Grant : grant[g].status = "CONSUMED" => grant'[g].status = "CONSUMED"
  PROVE  SpentOK'
<1> SUFFICES ASSUME NEW q \in Caller, NEW g \in Grant, op'[q].pc \in {"start", "dispatch"},
                    op'[q].grant = g, IsOneShot(g)'
             PROVE  grant'[g].status = "CONSUMED" /\ Used(g)' = {}
  BY DEF SpentOK
<1>1. op[q].pc \in {"start", "dispatch"} /\ op[q].grant = g
  OBVIOUS
<1>2. grant[g].status # "NONE"
  <2>1. None \notin Grant
    BY ExecutionAssumption
  <2> QED
    BY <1>1, <2>1 DEF IInv, LocalsOK
<1>3. IsOneShot(g)
  BY <1>2
<1>4. grant[g].status = "CONSUMED" /\ Used(g) = {}
  BY <1>1, <1>3 DEF IInv, SpentOK
<1> QED
  BY <1>4, UsedFrame

(* A step keeps the invariant: one step of the proof per action, and under *)
(* it one per conjunct that the action can disturb.                        *)
LEMMA StepPreservesIInv == IInv /\ [Next]_vars => IInv'
<1> SUFFICES ASSUME IInv, [Next]_vars PROVE IInv'
  OBVIOUS
<1>t. /\ op \in [Caller -> Op]
      /\ row \in [Call -> CallRow]
      /\ grant \in [Grant -> GrantRow]
      /\ conf \in [Conf -> ConfRow]
      /\ effects \in [Call -> Seq(Grant)]
      /\ faults \in 0 .. MaxFaults /\ MaxFaults \in Nat
      /\ lock \in Caller \cup {None}
  BY ExecutionAssumption DEF IInv, TypeOK
<1>o. \A q \in Caller : op[q].grant \in Grant \cup {None}
  BY <1>t DEF Op
<1>n. None \notin Caller \cup Call \cup Grant \cup Conf
  BY ExecutionAssumption
<1>i. /\ LockHeld /\ LocalsOK /\ RowsOK /\ ProgressOK /\ EffectMatchesRecord /\ ScopeOK
      /\ SpentOK /\ UnissuedUnused /\ OneShotSpentOnce /\ ParkedCallIsConfirmable
      /\ NoOrphanAuthority
  BY DEF IInv
<1>1. ASSUME NEW p \in Caller, Answer(p) PROVE IInv'
  <2>1. UNCHANGED <<row, grant, conf, effects, faults>>
    BY <1>1 DEF Answer
  <2>3. op' \in [Caller -> Op]
    BY <1>1, <1>t, IdleTyped DEF Answer, Return
  <2>5. TypeOK'
    BY <1>t, <2>1, <2>3, <1>1 DEF TypeOK, Answer, Return
  <2>7. LockHeld'
    BY <1>1, <2>1, <1>n, <1>i DEF Answer, Return, LockHeld, Inside, Idle
  <2>8. LocalsOK'
    BY <1>1, <2>1, <1>n, <1>i
      DEF Answer, Return, LocalsOK, RowsOK, Inside, Idle
  <2>10. ProgressOK'
    BY <1>1, <2>1, <1>n, <1>i
      DEF Answer, Return, ProgressOK, LocalsOK, LockHeld, EffectMatchesRecord,
          Inside, Settled, Idle, CallRow, RowStatus
  <2>12. ScopeOK'
    BY <1>1, <2>1, <1>i, IssuedFrame DEF Answer, Return, ScopeOK, Idle
  <2>13. SpentOK'
    BY <1>1, <2>1, <1>i, UsedFrame, IssuedFrame
      DEF Answer, Return, SpentOK, Idle
  <2>17. NoOrphanAuthority'
    BY <1>1, <2>1, <1>n, <1>i
      DEF Answer, Return, NoOrphanAuthority, LocalsOK, RowsOK, Idle
  <2> QED
    BY <2>5, <2>7, <2>8, <2>10, <2>12, <2>13, <2>17, <2>1, Frame DEF IInv
<1>2. ASSUME NEW p \in Caller, Enter(p) PROVE IInv'
  <2>1. UNCHANGED <<row, grant, conf, effects, faults>>
    BY <1>2 DEF Enter
  <2>2. op[p].call \in Call
    BY <1>2, <1>i DEF Enter, LocalsOK, RowsOK
  <2>3. op' \in [Caller -> Op]
    BY <1>2, <1>t, GotoTyped DEF Enter, PC, Inside
  <2>5. TypeOK'
    BY <1>t, <2>1, <2>3, <1>2 DEF TypeOK, Enter
  <2>7. LockHeld'
    BY <1>2, <2>1, <1>t, <1>n, <1>i
      DEF Enter, Goto, Move, Answered, LockHeld, Inside, Idle
  <2>8. LocalsOK'
    BY <1>2, <2>1, <1>t, <1>n, <1>i
      DEF Enter, Goto, Move, Answered, LocalsOK, RowsOK, Inside, Idle
  <2>10. ProgressOK'
    BY <1>2, <2>1, <1>t, <1>n, <1>i
      DEF Enter, Goto, Move, Answered, ProgressOK, LocalsOK, LockHeld,
          EffectMatchesRecord, Inside, Settled, Idle, CallRow, RowStatus
  <2>12. ScopeOK'
    BY <1>2, <2>1, <1>t, <1>i, IssuedFrame
      DEF Enter, Goto, Move, Answered, ScopeOK, Idle
  <2>13. SpentOK'
    BY <1>2, <2>1, <1>t, <1>i, UsedFrame, IssuedFrame
      DEF Enter, Goto, Move, Answered, SpentOK, Idle
  <2>17. NoOrphanAuthority'
    BY <1>2, <2>1, <1>t, <1>n, <1>i
      DEF Enter, Goto, Move, Answered, NoOrphanAuthority, LocalsOK, RowsOK,
          Idle
  <2> QED
    BY <2>5, <2>7, <2>8, <2>10, <2>12, <2>13, <2>17, <2>1, Frame DEF IInv
<1>3. ASSUME NEW p \in Caller, Evaluate(p) PROVE IInv'
  <2>1. UNCHANGED <<lock, row, grant, conf, effects, faults>>
    BY <1>3 DEF Evaluate
  <2>3. op' \in [Caller -> Op]
    BY <1>3, <1>t, GotoTyped DEF Evaluate, Decision, PC, Inside
  <2>2. /\ op'[p].pc \in {"consume", "refuse", "confirm"}
        /\ op'[p].pc = "consume" => op[p].grant \in Grant
    <3>1. op[p].grant \in Grant \cup {None}
      BY <1>t DEF Op
    <3> QED
      BY <1>3, <1>t, <3>1 DEF Evaluate, Goto, Move, Decision
  <2>5. TypeOK'
    BY <1>t, <2>1, <2>3 DEF TypeOK
  <2>7. LockHeld'
    BY <1>3, <2>1, <1>t, <1>n, <1>i
      DEF Evaluate, Goto, Move, Decision, Matches, LockHeld, Inside, Idle
  <2>8. LocalsOK'
    BY <1>3, <2>1, <2>2, <1>t, <1>o, <1>i
      DEF Evaluate, Goto, Move, LocalsOK, Inside
  <2>10. ProgressOK'
    BY <1>3, <2>1, <1>t, <1>n, <1>i
      DEF Evaluate, Goto, Move, Decision, Matches, ProgressOK, LocalsOK,
          LockHeld, EffectMatchesRecord, Inside, Settled, Idle, CallRow,
          RowStatus
  <2>12. ScopeOK'
    <3>1. ASSUME NEW q \in Caller, NEW g \in Grant,
                 op'[q].pc \in {"consume", "start", "dispatch"}, op'[q].grant = g
          PROVE  ScopeOf[IssuedFor(g)] = ScopeOf[op'[q].call]
      <4>1. CASE q = p
        BY <1>3, <3>1, <4>1 DEF Evaluate, Decision, Matches, Goto, Move
      <4>2. CASE q # p
        BY <1>3, <1>i, <3>1, <4>2 DEF Evaluate, Goto, Move, ScopeOK
      <4> QED
        BY <4>1, <4>2
    <3> QED
      BY <3>1, <2>1, IssuedFrame DEF ScopeOK
  <2>13. SpentOK'
    BY <1>3, <2>1, <1>t, <1>i, UsedFrame, IssuedFrame
      DEF Evaluate, Goto, Move, Decision, Matches, SpentOK, Idle
  <2>17. NoOrphanAuthority'
    BY <1>3, <2>1, <1>t, <1>n, <1>i
      DEF Evaluate, Goto, Move, Decision, Matches, NoOrphanAuthority, LocalsOK,
          RowsOK, Idle
  <2> QED
    BY <2>5, <2>7, <2>8, <2>10, <2>12, <2>13, <2>17, <2>1, Frame DEF IInv
<1>4. ASSUME NEW p \in Caller, AskConfirmation(p) PROVE IInv'
  <2>0. PICK k \in Conf :
          /\ op[p].pc = "confirm" /\ conf[k].status = "NONE"
          /\ SaveConf(k, "PENDING", op[p].call, None)
          /\ Move(p, "park", op[p].call, None, k)
          /\ UNCHANGED <<lock, row, grant, effects, faults>>
    BY <1>4 DEF AskConfirmation, FreshConf
  <2>1. UNCHANGED <<lock, row, grant, effects, faults>>
    BY <2>0
  <2>2. op[p].call \in Call
    BY <2>0, <1>i DEF LocalsOK, RowsOK, Inside
  <2>3. op' \in [Caller -> Op]
    BY <2>0, <2>2, <1>t, MoveTyped DEF PC, Inside
  <2>4. conf' \in [Conf -> ConfRow]
    BY <2>0, <2>2, <1>t, ConfTyped DEF ConfStatus
  <2>5. TypeOK'
    BY <1>t, <2>1, <2>3, <2>4 DEF TypeOK
  <2>6. \A h \in Grant : grant[h].status # "NONE" =>
          IssuedFor(h)' = IssuedFor(h) /\ IsOneShot(h)' = IsOneShot(h)
    BY <2>0, <2>1, <1>t, <1>i DEF SaveConf, IssuedFor, IsOneShot, RowsOK
  <2>7. LockHeld'
    BY <2>0, <2>1, <1>t, <1>n, <1>i DEF Move, SaveConf, LockHeld, Inside, Idle
  <2>8. LocalsOK'
    BY <2>0, <2>1, <1>t, <1>n, <1>i
      DEF Move, SaveConf, LocalsOK, RowsOK, Inside, Idle
  <2>9. RowsOK'
    BY <2>0, <2>1, <1>t, <1>n, <1>i
      DEF Move, SaveConf, RowsOK, LocalsOK, Inside
  <2>10. ProgressOK'
    BY <2>0, <2>1, <1>t, <1>n, <1>i
      DEF Move, SaveConf, ProgressOK, LocalsOK, LockHeld, EffectMatchesRecord,
          Inside, Settled, Idle, CallRow, RowStatus
  <2>12. ScopeOK'
    BY <2>0, <2>1, <1>t, <1>n, <1>i, <2>6
      DEF Move, SaveConf, ScopeOK, Idle, LocalsOK
  <2>13. SpentOK'
    <3>1. \A q \in Caller : op'[q].pc \in {"start", "dispatch"} =>
            op[q].pc \in {"start", "dispatch"} /\ op'[q].grant = op[q].grant
      BY <2>0, <1>t DEF Move
    <3> QED
      BY <3>1, <2>1, <2>6, SpentKept
  <2>15. OneShotSpentOnce'
    BY <2>0, <2>1, <1>t, <1>n, <1>i, UsedFrame, <2>6
      DEF Move, SaveConf, OneShotSpentOnce
  <2>16. ParkedCallIsConfirmable'
    BY <2>0, <2>1, <1>t, <1>n, <1>i
      DEF Move, SaveConf, ParkedCallIsConfirmable, LocalsOK, Inside
  <2>17. NoOrphanAuthority'
    BY <2>0, <2>1, <1>t, <1>n, <1>i
      DEF Move, SaveConf, NoOrphanAuthority, LocalsOK, RowsOK, Idle
  <2> QED
    BY <2>5, <2>7, <2>8, <2>9, <2>10, <2>12, <2>13, <2>15, <2>16, <2>17, <2>1,
       Frame DEF IInv
<1>5. ASSUME NEW p \in Caller, Park(p) PROVE IInv'
  <2>1. UNCHANGED <<grant, conf, effects, faults>>
    BY <1>5 DEF Park
  <2>2. op[p].call \in Call /\ op[p].conf \in Conf
    BY <1>5, <1>i DEF Park, LocalsOK, RowsOK
  <2>3. op' \in [Caller -> Op]
    BY <1>5, <1>t, IdleTyped DEF Park, Return
  <2>4. row' \in [Call -> CallRow]
    BY <1>5, <2>2, <1>t, RowTyped DEF Park, RowStatus, Settled
  <2>5. TypeOK'
    BY <1>t, <2>1, <2>3, <2>4, <1>5 DEF TypeOK, Park, Return
  <2>7. LockHeld'
    BY <1>5, <2>1, <1>t, <1>n, <1>i
      DEF Park, Return, SaveCall, LockHeld, Inside, Idle
  <2>8. LocalsOK'
    BY <1>5, <2>1, <1>t, <1>n, <1>i
      DEF Park, Return, SaveCall, LocalsOK, RowsOK, Inside, Idle
  <2>10. ProgressOK'
    BY <1>5, <2>1, <1>t, <1>n, <1>i
      DEF Park, Return, SaveCall, ProgressOK, LocalsOK, LockHeld,
          EffectMatchesRecord, Inside, Settled, Idle, CallRow, RowStatus
  <2>11. EffectMatchesRecord'
    BY <1>5, <2>1, <1>t, <1>n, <1>i
      DEF Park, Return, SaveCall, EffectMatchesRecord, ProgressOK, LocalsOK,
          Inside, Settled
  <2>12. ScopeOK'
    BY <1>5, <2>1, <1>t, <1>i, IssuedFrame
      DEF Park, Return, SaveCall, ScopeOK, Idle
  <2>13. SpentOK'
    BY <1>5, <2>1, <1>t, <1>i, UsedFrame, IssuedFrame
      DEF Park, Return, SaveCall, SpentOK, Idle
  <2>16. ParkedCallIsConfirmable'
    BY <1>5, <2>1, <1>t, <1>n, <1>i
      DEF Park, Return, SaveCall, ParkedCallIsConfirmable, LocalsOK, Inside
  <2>17. NoOrphanAuthority'
    BY <1>5, <2>1, <1>t, <1>n, <1>i
      DEF Park, Return, SaveCall, NoOrphanAuthority, LocalsOK, RowsOK, Idle
  <2> QED
    BY <2>5, <2>7, <2>8, <2>10, <2>11, <2>12, <2>13, <2>16, <2>17, <2>1, Frame
      DEF IInv
<1>6. ASSUME NEW p \in Caller, Refuse(p) PROVE IInv'
  <2>1. UNCHANGED <<grant, conf, effects, faults>>
    BY <1>6 DEF Refuse
  <2>2. op[p].call \in Call
    BY <1>6, <1>i DEF Refuse, LocalsOK, RowsOK, Inside
  <2>3. op' \in [Caller -> Op]
    BY <1>6, <1>t, IdleTyped DEF Refuse, Return
  <2>4. row' \in [Call -> CallRow]
    BY <1>6, <2>2, <1>t, RowTyped DEF Refuse, RowStatus, Settled
  <2>5. TypeOK'
    BY <1>t, <2>1, <2>3, <2>4, <1>6 DEF TypeOK, Refuse, Return
  <2>7. LockHeld'
    BY <1>6, <2>1, <1>t, <1>n, <1>i
      DEF Refuse, Return, SaveCall, LockHeld, Inside, Idle
  <2>8. LocalsOK'
    BY <1>6, <2>1, <1>t, <1>n, <1>i
      DEF Refuse, Return, SaveCall, LocalsOK, RowsOK, Inside, Idle
  <2>10. ProgressOK'
    BY <1>6, <2>1, <1>t, <1>n, <1>i
      DEF Refuse, Return, SaveCall, ProgressOK, LocalsOK, LockHeld,
          EffectMatchesRecord, Inside, Settled, Idle, CallRow, RowStatus
  <2>11. EffectMatchesRecord'
    BY <1>6, <2>1, <1>t, <1>n, <1>i
      DEF Refuse, Return, SaveCall, EffectMatchesRecord, ProgressOK, LocalsOK,
          Inside, Settled
  <2>12. ScopeOK'
    BY <1>6, <2>1, <1>t, <1>i, IssuedFrame
      DEF Refuse, Return, SaveCall, ScopeOK, Idle
  <2>13. SpentOK'
    BY <1>6, <2>1, <1>t, <1>i, UsedFrame, IssuedFrame
      DEF Refuse, Return, SaveCall, SpentOK, Idle
  <2>16. ParkedCallIsConfirmable'
    BY <1>6, <2>1, <1>t, <1>n, <1>i
      DEF Refuse, Return, SaveCall, ParkedCallIsConfirmable, LocalsOK, Inside
  <2>17. NoOrphanAuthority'
    BY <1>6, <2>1, <1>t, <1>n, <1>i
      DEF Refuse, Return, SaveCall, NoOrphanAuthority, LocalsOK, RowsOK, Idle
  <2> QED
    BY <2>5, <2>7, <2>8, <2>10, <2>11, <2>12, <2>13, <2>16, <2>17, <2>1, Frame
      DEF IInv
<1>7. ASSUME NEW p \in Caller, Reuse(p) PROVE IInv'
  <2>1. UNCHANGED <<lock, row, grant, conf, effects, faults>>
    BY <1>7 DEF Reuse
  <2>3. op' \in [Caller -> Op]
    BY <1>7, <1>t, GotoTyped DEF Reuse, PC, Inside
  <2>5. TypeOK'
    BY <1>t, <2>1, <2>3 DEF TypeOK
  <2>7. LockHeld'
    BY <1>7, <2>1, <1>n, <1>i DEF Reuse, Goto, Move, LockHeld, Inside, Idle
  <2>8. LocalsOK'
    BY <1>7, <2>1, <1>n, <1>i
      DEF Reuse, Goto, Move, LocalsOK, RowsOK, Inside, Idle
  <2>10. ProgressOK'
    BY <1>7, <2>1, <1>n, <1>i
      DEF Reuse, Goto, Move, ProgressOK, LocalsOK, LockHeld,
          EffectMatchesRecord, Inside, Settled, Idle, CallRow, RowStatus
  <2>12. ScopeOK'
    BY <1>7, <2>1, <1>i, IssuedFrame DEF Reuse, Goto, Move, ScopeOK, Idle
  <2>13. SpentOK'
    BY <1>7, <2>1, <1>i, UsedFrame, IssuedFrame
      DEF Reuse, Goto, Move, SpentOK, Idle
  <2>17. NoOrphanAuthority'
    BY <1>7, <2>1, <1>n, <1>i
      DEF Reuse, Goto, Move, NoOrphanAuthority, LocalsOK, RowsOK, Idle
  <2> QED
    BY <2>5, <2>7, <2>8, <2>10, <2>12, <2>13, <2>17, <2>1, Frame DEF IInv
<1>8. ASSUME NEW p \in Caller, Consume(p) PROVE IInv'
  <2>1. UNCHANGED <<lock, row, conf, effects, faults>>
    BY <1>8 DEF Consume
  <2>2. op[p].grant \in Grant /\ grant[op[p].grant].issuer \in Conf
    BY <1>8, <1>i DEF Consume, LocalsOK, RowsOK, Inside
  <2>3. op' \in [Caller -> Op]
    BY <1>8, <1>t, GotoTyped DEF Consume, PC, Inside
  <2>4. grant' \in [Grant -> GrantRow]
    BY <1>8, <2>2, <1>t, GrantTyped DEF Consume, GrantStatus
  <2>5. TypeOK'
    BY <1>t, <2>1, <2>3, <2>4 DEF TypeOK
  <2>6. \A h \in Grant : grant[h].status # "NONE" =>
          IssuedFor(h)' = IssuedFor(h) /\ IsOneShot(h)' = IsOneShot(h)
    BY <1>8, <2>1, <1>t, <1>i
      DEF Consume, SaveGrant, IssuedFor, IsOneShot, RowsOK
  <2>7. LockHeld'
    BY <1>8, <2>1, <1>t, <1>n, <1>i
      DEF Consume, Goto, Move, SaveGrant, LockHeld, Inside, Idle
  <2>8. LocalsOK'
    BY <1>8, <2>1, <1>t, <1>n, <1>i
      DEF Consume, Goto, Move, SaveGrant, LocalsOK, RowsOK, Inside, Idle
  <2>9. RowsOK'
    BY <1>8, <2>1, <1>t, <1>n, <1>i
      DEF Consume, Goto, Move, SaveGrant, RowsOK, LocalsOK, Inside
  <2>10. ProgressOK'
    BY <1>8, <2>1, <1>t, <1>n, <1>i
      DEF Consume, Goto, Move, SaveGrant, ProgressOK, LocalsOK, LockHeld,
          EffectMatchesRecord, Inside, Settled, Idle, CallRow, RowStatus
  <2>12. ScopeOK'
    BY <1>8, <2>1, <1>t, <1>n, <1>i, <2>6
      DEF Consume, Goto, Move, SaveGrant, ScopeOK, Idle, LocalsOK
  <2>13. SpentOK'
    <3>1. grant[op[p].grant].status = "ACTIVE" /\ IsOneShot(op[p].grant)
      BY <1>8 DEF Consume
    <3>2. Used(op[p].grant) = {}
      BY <2>2, <3>1, <1>i DEF OneShotSpentOnce
    <3>3. /\ grant'[op[p].grant].status = "CONSUMED" /\ op'[p].grant = op[p].grant
          /\ \A h \in Grant : h # op[p].grant => grant'[h] = grant[h]
          /\ \A q \in Caller : q # p => op'[q] = op[q]
      BY <1>8, <2>2, <1>t DEF Consume, Goto, Move, SaveGrant
    <3>4. ASSUME NEW q \in Caller, NEW g \in Grant, op'[q].pc \in {"start", "dispatch"},
                 op'[q].grant = g, IsOneShot(g)'
          PROVE  grant'[g].status = "CONSUMED" /\ Used(g)' = {}
      <4>1. CASE g = op[p].grant
        BY <2>1, <3>2, <3>3, <4>1, UsedFrame
      <4>2. CASE g # op[p].grant
        <5>1. q # p /\ op[q].pc \in {"start", "dispatch"} /\ op[q].grant = g
          BY <3>3, <3>4, <4>2
        <5>2. grant[g].status # "NONE"
          BY <5>1, <1>n, <1>i DEF LocalsOK
        <5>3. grant[g].status = "CONSUMED" /\ Used(g) = {}
          BY <5>1, <5>2, <2>6, <3>4, <1>i DEF SpentOK
        <5> QED
          BY <2>1, <3>3, <4>2, <5>3, UsedFrame
      <4> QED
        BY <4>1, <4>2
    <3> QED
      BY <3>4 DEF SpentOK
  <2>14. UnissuedUnused'
    BY <1>8, <2>1, <1>t, <1>n, <1>i, UsedFrame
      DEF Consume, Goto, Move, SaveGrant, UnissuedUnused
  <2>15. OneShotSpentOnce'
    BY <1>8, <2>1, <1>t, <1>n, <1>i, UsedFrame, <2>6
      DEF Consume, Goto, Move, SaveGrant, OneShotSpentOnce
  <2>17. NoOrphanAuthority'
    BY <1>8, <2>1, <1>t, <1>n, <1>i
      DEF Consume, Goto, Move, SaveGrant, NoOrphanAuthority, LocalsOK, RowsOK,
          Idle
  <2> QED
    BY <2>5, <2>7, <2>8, <2>9, <2>10, <2>12, <2>13, <2>14, <2>15, <2>17, <2>1,
       Frame DEF IInv
<1>9. ASSUME NEW p \in Caller, ConsumeLost(p) PROVE IInv'
  <2>1. UNCHANGED <<lock, row, grant, conf, effects, faults>>
    BY <1>9 DEF ConsumeLost
  <2>3. op' \in [Caller -> Op]
    BY <1>9, <1>t, GotoTyped DEF ConsumeLost, PC, Inside
  <2>5. TypeOK'
    BY <1>t, <2>1, <2>3 DEF TypeOK
  <2>7. LockHeld'
    BY <1>9, <2>1, <1>n, <1>i
      DEF ConsumeLost, Goto, Move, LockHeld, Inside, Idle
  <2>8. LocalsOK'
    BY <1>9, <2>1, <1>n, <1>i
      DEF ConsumeLost, Goto, Move, LocalsOK, RowsOK, Inside, Idle
  <2>10. ProgressOK'
    BY <1>9, <2>1, <1>n, <1>i
      DEF ConsumeLost, Goto, Move, ProgressOK, LocalsOK, LockHeld,
          EffectMatchesRecord, Inside, Settled, Idle, CallRow, RowStatus
  <2>12. ScopeOK'
    BY <1>9, <2>1, <1>i, IssuedFrame DEF ConsumeLost, Goto, Move, ScopeOK, Idle
  <2>13. SpentOK'
    BY <1>9, <2>1, <1>i, UsedFrame, IssuedFrame
      DEF ConsumeLost, Goto, Move, SpentOK, Idle
  <2>17. NoOrphanAuthority'
    BY <1>9, <2>1, <1>n, <1>i
      DEF ConsumeLost, Goto, Move, NoOrphanAuthority, LocalsOK, RowsOK, Idle
  <2> QED
    BY <2>5, <2>7, <2>8, <2>10, <2>12, <2>13, <2>17, <2>1, Frame DEF IInv
<1>10. ASSUME NEW p \in Caller, Start(p) PROVE IInv'
  <2>1. UNCHANGED <<lock, grant, conf, effects, faults>>
    BY <1>10 DEF Start
  <2>2. op[p].call \in Call
    BY <1>10, <1>i DEF Start, LocalsOK, RowsOK, Inside
  <2>3. op' \in [Caller -> Op]
    BY <1>10, <1>t, GotoTyped DEF Start, PC, Inside
  <2>4. row' \in [Call -> CallRow]
    BY <1>10, <2>2, <1>t, RowTyped DEF Start, RowStatus, Settled
  <2>5. TypeOK'
    BY <1>t, <2>1, <2>3, <2>4 DEF TypeOK
  <2>7. LockHeld'
    BY <1>10, <2>1, <1>t, <1>n, <1>i
      DEF Start, Goto, Move, SaveCall, LockHeld, Inside, Idle
  <2>8. LocalsOK'
    BY <1>10, <2>1, <1>t, <1>n, <1>i
      DEF Start, Goto, Move, SaveCall, LocalsOK, RowsOK, Inside, Idle
  <2>10. ProgressOK'
    BY <1>10, <2>1, <1>t, <1>n, <1>i
      DEF Start, Goto, Move, SaveCall, ProgressOK, LocalsOK, LockHeld,
          EffectMatchesRecord, Inside, Settled, Idle, CallRow, RowStatus
  <2>11. EffectMatchesRecord'
    BY <1>10, <2>1, <1>t, <1>n, <1>i
      DEF Start, Goto, Move, SaveCall, EffectMatchesRecord, ProgressOK,
          LocalsOK, Inside, Settled
  <2>12. ScopeOK'
    BY <1>10, <2>1, <1>t, <1>i, IssuedFrame
      DEF Start, Goto, Move, SaveCall, ScopeOK, Idle
  <2>13. SpentOK'
    BY <1>10, <2>1, <1>t, <1>i, UsedFrame, IssuedFrame
      DEF Start, Goto, Move, SaveCall, SpentOK, Idle
  <2>16. ParkedCallIsConfirmable'
    BY <1>10, <2>1, <1>t, <1>n, <1>i
      DEF Start, Goto, Move, SaveCall, ParkedCallIsConfirmable, LocalsOK,
          Inside
  <2>17. NoOrphanAuthority'
    BY <1>10, <2>1, <1>t, <1>n, <1>i
      DEF Start, Goto, Move, SaveCall, NoOrphanAuthority, LocalsOK, RowsOK,
          Idle
  <2> QED
    BY <2>5, <2>7, <2>8, <2>10, <2>11, <2>12, <2>13, <2>16, <2>17, <2>1, Frame
      DEF IInv
<1>11. ASSUME NEW p \in Caller, Dispatch(p) PROVE IInv'
  <2>1. UNCHANGED <<lock, row, grant, conf, faults>>
    BY <1>11 DEF Dispatch
  <2>2. op[p].call \in Call
    BY <1>11, <1>i DEF Dispatch, LocalsOK, RowsOK, Inside
  <2>3. op' \in [Caller -> Op]
    BY <1>11, <1>t, GotoTyped DEF Dispatch, PC, Inside
  <2>4. effects' \in [Call -> Seq(Grant)]
    BY <1>11, <2>2, <1>t, <1>i DEF Dispatch, LocalsOK
  <2>6. PICK g \in Grant :
          /\ op[p].grant = g
          /\ Used(g)' = Used(g) \cup {op[p].call}
          /\ \A h \in Grant : h # g => Used(h)' = Used(h)
    <3>1. PICK g \in Grant, c \in Call : op[p].grant = g /\ op[p].call = c
      BY <1>11, <1>i, <2>2 DEF Dispatch, LocalsOK
    <3>2. effects[c] = << >> /\ effects' = [effects EXCEPT ![c] = Append(@, g)]
      BY <1>11, <1>i, <3>1 DEF Dispatch, ProgressOK
    <3>3. Used(g)' = Used(g) \cup {c} /\ \A h \in Grant : h # g => Used(h)' = Used(h)
      BY <1>t, <3>2, UsedAppend
    <3> QED
      BY <3>1, <3>3
  <2>5. TypeOK'
    BY <1>t, <2>1, <2>3, <2>4 DEF TypeOK
  <2>7. LockHeld'
    BY <1>11, <2>1, <1>t, <1>n, <1>i
      DEF Dispatch, Goto, Move, LockHeld, Inside, Idle
  <2>8. LocalsOK'
    BY <1>11, <2>1, <1>t, <1>n, <1>i
      DEF Dispatch, Goto, Move, LocalsOK, RowsOK, Inside, Idle
  <2>10. ProgressOK'
    BY <1>11, <2>1, <1>t, <1>n, <1>i
      DEF Dispatch, Goto, Move, ProgressOK, LocalsOK, LockHeld,
          EffectMatchesRecord, Inside, Settled, Idle, CallRow, RowStatus
  <2>11. EffectMatchesRecord'
    BY <1>11, <2>1, <1>t, <1>n, <1>i
      DEF Dispatch, Goto, Move, EffectMatchesRecord, ProgressOK, LocalsOK,
          Inside, Settled
  <2>12. ScopeOK'
    BY <1>11, <2>1, <1>t, <1>i, IssuedFrame
      DEF Dispatch, Goto, Move, ScopeOK, Idle, Used
  <2>13. SpentOK'
    BY <1>11, <2>1, <2>6, <1>t, <1>i, IssuedFrame
      DEF Dispatch, Goto, Move, SpentOK, LockHeld, Inside
  <2>14. UnissuedUnused'
    BY <1>11, <2>1, <2>6, <1>n, <1>i DEF Dispatch, UnissuedUnused, LocalsOK
  <2>15. OneShotSpentOnce'
    <3>1. ASSUME NEW h \in Grant, grant[h].status # "NONE", IsOneShot(h)
          PROVE  /\ \A c, d \in Used(h)' : c = d
                 /\ grant[h].status # "CONSUMED" => Used(h)' = {}
      <4>1. CASE h = g
        <5>1. grant[h].status = "CONSUMED" /\ Used(h) = {}
          BY <1>11, <1>i, <2>6, <3>1, <4>1 DEF Dispatch, SpentOK
        <5> QED
          BY <2>6, <5>1
      <4>2. CASE h # g
        BY <1>i, <2>6, <3>1, <4>2 DEF OneShotSpentOnce
      <4> QED
        BY <4>1, <4>2
    <3> QED
      BY <3>1, <2>1, IssuedFrame DEF OneShotSpentOnce
  <2>17. NoOrphanAuthority'
    BY <1>11, <2>1, <1>t, <1>n, <1>i
      DEF Dispatch, Goto, Move, NoOrphanAuthority, LocalsOK, RowsOK, Idle
  <2> QED
    BY <2>5, <2>7, <2>8, <2>10, <2>11, <2>12, <2>13, <2>14, <2>15, <2>17, <2>1,
       Frame DEF IInv
<1>12. ASSUME NEW p \in Caller, DispatchFails(p) PROVE IInv'
  <2>1. UNCHANGED <<grant, conf, effects, faults>>
    BY <1>12 DEF DispatchFails
  <2>2. op[p].call \in Call
    BY <1>12, <1>i DEF DispatchFails, LocalsOK, RowsOK, Inside
  <2>3. op' \in [Caller -> Op]
    BY <1>12, <1>t, IdleTyped DEF DispatchFails, Return
  <2>4. row' \in [Call -> CallRow]
    BY <1>12, <2>2, <1>t, RowTyped DEF DispatchFails, RowStatus, Settled
  <2>5. TypeOK'
    BY <1>t, <2>1, <2>3, <2>4, <1>12 DEF TypeOK, DispatchFails, Return
  <2>7. LockHeld'
    BY <1>12, <2>1, <1>t, <1>n, <1>i
      DEF DispatchFails, Return, SaveCall, LockHeld, Inside, Idle
  <2>8. LocalsOK'
    BY <1>12, <2>1, <1>t, <1>n, <1>i
      DEF DispatchFails, Return, SaveCall, LocalsOK, RowsOK, Inside, Idle
  <2>10. ProgressOK'
    BY <1>12, <2>1, <1>t, <1>n, <1>i
      DEF DispatchFails, Return, SaveCall, ProgressOK, LocalsOK, LockHeld,
          EffectMatchesRecord, Inside, Settled, Idle, CallRow, RowStatus
  <2>11. EffectMatchesRecord'
    BY <1>12, <2>1, <1>t, <1>n, <1>i
      DEF DispatchFails, Return, SaveCall, EffectMatchesRecord, ProgressOK,
          LocalsOK, Inside, Settled
  <2>12. ScopeOK'
    BY <1>12, <2>1, <1>t, <1>i, IssuedFrame
      DEF DispatchFails, Return, SaveCall, ScopeOK, Idle
  <2>13. SpentOK'
    BY <1>12, <2>1, <1>t, <1>i, UsedFrame, IssuedFrame
      DEF DispatchFails, Return, SaveCall, SpentOK, Idle
  <2>16. ParkedCallIsConfirmable'
    BY <1>12, <2>1, <1>t, <1>n, <1>i
      DEF DispatchFails, Return, SaveCall, ParkedCallIsConfirmable, LocalsOK,
          Inside
  <2>17. NoOrphanAuthority'
    BY <1>12, <2>1, <1>t, <1>n, <1>i
      DEF DispatchFails, Return, SaveCall, NoOrphanAuthority, LocalsOK, RowsOK,
          Idle
  <2> QED
    BY <2>5, <2>7, <2>8, <2>10, <2>11, <2>12, <2>13, <2>16, <2>17, <2>1, Frame
      DEF IInv
<1>13. ASSUME NEW p \in Caller, Finish(p) PROVE IInv'
  <2>0. PICK s \in {"SUCCEEDED", "FAILED"} : op[p].pc = "finish" /\ SaveCall(op[p].call, s, None)
    BY <1>13 DEF Finish
  <2>1. UNCHANGED <<grant, conf, effects, faults>>
    BY <1>13 DEF Finish
  <2>2. op[p].call \in Call
    BY <1>13, <1>i DEF Finish, LocalsOK, RowsOK, Inside
  <2>3. op' \in [Caller -> Op]
    BY <1>13, <1>t, IdleTyped DEF Finish, Return
  <2>4. row' \in [Call -> CallRow]
    BY <1>13, <2>2, <1>t, RowTyped DEF Finish, RowStatus, Settled
  <2>6. op' = [op EXCEPT ![p] = Idle]
    BY <1>13 DEF Finish, Return
  <2>5. TypeOK'
    BY <1>t, <2>1, <2>3, <2>4, <1>13 DEF TypeOK, Finish, Return
  <2>7. LockHeld'
    BY <1>13, <2>1, <1>t, <1>n, <1>i
      DEF Finish, Return, SaveCall, LockHeld, Inside, Idle
  <2>8. LocalsOK'
    BY <1>13, <2>1, <1>t, <1>n, <1>i
      DEF Finish, Return, SaveCall, LocalsOK, RowsOK, Inside, Idle
  <2>10. ProgressOK'
    BY <1>13, <2>1, <1>t, <1>n, <1>i
      DEF Finish, Return, SaveCall, ProgressOK, LocalsOK, LockHeld,
          EffectMatchesRecord, Inside, Settled, Idle, CallRow, RowStatus
  <2>11. EffectMatchesRecord'
    BY <2>0, <2>1, <2>2, <1>t, <1>n, <1>i
      DEF SaveCall, EffectMatchesRecord, ProgressOK, TypeOK
  <2>12. ScopeOK'
    BY <2>6, <2>1, <1>i, IssuedFrame DEF ScopeOK, Idle
  <2>13. SpentOK'
    BY <1>13, <2>1, <1>t, <1>i, UsedFrame, IssuedFrame
      DEF Finish, Return, SaveCall, SpentOK, Idle
  <2>16. ParkedCallIsConfirmable'
    BY <2>0, <2>1, <2>2, <1>t, <1>n, <1>i DEF SaveCall, ParkedCallIsConfirmable, TypeOK
  <2>17. NoOrphanAuthority'
    BY <1>13, <2>1, <1>t, <1>n, <1>i
      DEF Finish, Return, SaveCall, NoOrphanAuthority, LocalsOK, RowsOK, Idle
  <2> QED
    BY <2>5, <2>7, <2>8, <2>10, <2>11, <2>12, <2>13, <2>16, <2>17, <2>1, Frame
      DEF IInv
<1>14. ASSUME NEW p \in Caller, IssueGrant(p) PROVE IInv'
  <2>0. PICK g \in Grant :
          /\ op[p].pc = "issue" /\ grant[g].status = "NONE"
          /\ SaveGrant(g, "ACTIVE", op[p].conf)
          /\ Move(p, "resolve", None, g, op[p].conf)
          /\ UNCHANGED <<lock, row, conf, effects, faults>>
    BY <1>14 DEF IssueGrant, FreshGrant
  <2>1. UNCHANGED <<lock, row, conf, effects, faults>>
    BY <2>0
  <2>2. op[p].conf \in Conf
    BY <2>0, <1>i DEF LocalsOK, RowsOK
  <2>3. op' \in [Caller -> Op]
    BY <2>0, <2>2, <1>t, MoveTyped DEF PC, Inside
  <2>4. grant' \in [Grant -> GrantRow]
    BY <2>0, <2>2, <1>t, GrantTyped DEF GrantStatus
  <2>5. TypeOK'
    BY <1>t, <2>1, <2>3, <2>4 DEF TypeOK
  <2>6. \A h \in Grant : grant[h].status # "NONE" =>
          IssuedFor(h)' = IssuedFor(h) /\ IsOneShot(h)' = IsOneShot(h)
    BY <2>0, <2>1, <1>t, <1>i DEF SaveGrant, IssuedFor, IsOneShot, RowsOK
  <2>7. LockHeld'
    BY <2>0, <2>1, <1>t, <1>n, <1>i DEF Move, SaveGrant, LockHeld, Inside, Idle
  <2>8. LocalsOK'
    BY <2>0, <2>1, <1>t, <1>n, <1>i
      DEF Move, SaveGrant, LocalsOK, RowsOK, Inside, Idle
  <2>9. RowsOK'
    BY <2>0, <2>1, <1>t, <1>n, <1>i
      DEF Move, SaveGrant, RowsOK, LocalsOK, Inside
  <2>10. ProgressOK'
    BY <2>0, <2>1, <1>t, <1>n, <1>i
      DEF Move, SaveGrant, ProgressOK, LocalsOK, LockHeld, EffectMatchesRecord,
          Inside, Settled, Idle, CallRow, RowStatus
  <2>12. ScopeOK'
    BY <2>0, <2>2, <2>1, <1>t, <1>n, <1>i, <2>6
      DEF Move, SaveGrant, ScopeOK, Idle, LocalsOK
  <2>13. SpentOK'
    <3>1. \A q \in Caller : op'[q].pc \in {"start", "dispatch"} =>
            op[q].pc \in {"start", "dispatch"} /\ op'[q].grant = op[q].grant
      BY <2>0, <1>t DEF Move
    <3>2. \A h \in Grant : grant[h].status = "CONSUMED" => grant'[h].status = "CONSUMED"
      BY <2>0, <1>t DEF SaveGrant
    <3> QED
      BY <3>1, <3>2, <2>1, <2>6, SpentKept
  <2>14. UnissuedUnused'
    BY <2>0, <2>1, <1>t, <1>n, <1>i, UsedFrame
      DEF Move, SaveGrant, UnissuedUnused
  <2>15. OneShotSpentOnce'
    BY <2>0, <2>1, <1>t, <1>n, <1>i, UsedFrame, <2>6
      DEF Move, SaveGrant, OneShotSpentOnce, UnissuedUnused
  <2>17. NoOrphanAuthority'
    BY <2>0, <2>1, <1>t, <1>n, <1>i
      DEF Move, SaveGrant, NoOrphanAuthority, LocalsOK, RowsOK, Idle
  <2> QED
    BY <2>5, <2>7, <2>8, <2>9, <2>10, <2>12, <2>13, <2>14, <2>15, <2>17, <2>1,
       Frame DEF IInv
<1>15. ASSUME NEW p \in Caller, Resolve(p) PROVE IInv'
  <2>1. UNCHANGED <<lock, row, grant, effects, faults>>
    BY <1>15 DEF Resolve
  <2>2. op[p].conf \in Conf /\ op[p].grant \in Grant /\ conf[op[p].conf].call \in Call
    BY <1>15, <1>i DEF Resolve, LocalsOK, RowsOK, Inside
  <2>3. op' \in [Caller -> Op]
    BY <1>15, <2>2, <1>t, MoveTyped DEF Resolve, PC, Inside
  <2>4. conf' \in [Conf -> ConfRow]
    BY <1>15, <2>2, <1>t, ConfTyped DEF Resolve, ConfStatus
  <2>5. TypeOK'
    BY <1>t, <2>1, <2>3, <2>4 DEF TypeOK
  <2>6. \A h \in Grant : grant[h].status # "NONE" =>
          IssuedFor(h)' = IssuedFor(h) /\ IsOneShot(h)' = IsOneShot(h)
    BY <1>15, <2>1, <1>t, <1>i
      DEF Resolve, SaveConf, IssuedFor, IsOneShot, RowsOK
  <2>7. LockHeld'
    BY <1>15, <2>1, <1>t, <1>n, <1>i
      DEF Resolve, Move, SaveConf, LockHeld, Inside, Idle
  <2>8. LocalsOK'
    BY <1>15, <2>1, <1>t, <1>n, <1>i
      DEF Resolve, Move, SaveConf, LocalsOK, RowsOK, Inside, Idle
  <2>9. RowsOK'
    BY <1>15, <2>1, <1>t, <1>n, <1>i
      DEF Resolve, Move, SaveConf, RowsOK, LocalsOK, Inside
  <2>10. ProgressOK'
    BY <1>15, <2>1, <1>t, <1>n, <1>i
      DEF Resolve, Move, SaveConf, ProgressOK, LocalsOK, LockHeld,
          EffectMatchesRecord, Inside, Settled, Idle, CallRow, RowStatus
  <2>12. ScopeOK'
    BY <1>15, <2>1, <1>t, <1>n, <1>i, <2>6
      DEF Resolve, Move, SaveConf, ScopeOK, Idle, LocalsOK
  <2>13. SpentOK'
    <3>1. \A q \in Caller : op'[q].pc \in {"start", "dispatch"} =>
            op[q].pc \in {"start", "dispatch"} /\ op'[q].grant = op[q].grant
      BY <1>15, <1>t DEF Resolve, Move
    <3> QED
      BY <3>1, <2>1, <2>6, SpentKept
  <2>15. OneShotSpentOnce'
    BY <1>15, <2>1, <1>t, <1>n, <1>i, UsedFrame, <2>6
      DEF Resolve, Move, SaveConf, OneShotSpentOnce
  <2>16. ParkedCallIsConfirmable'
    BY <1>15, <2>1, <1>t, <1>n, <1>i
      DEF Resolve, Move, SaveConf, ParkedCallIsConfirmable, LocalsOK, Inside
  <2>17. NoOrphanAuthority'
    BY <1>15, <2>1, <1>t, <1>n, <1>i
      DEF Resolve, Move, SaveConf, NoOrphanAuthority, LocalsOK, RowsOK, Idle
  <2> QED
    BY <2>5, <2>7, <2>8, <2>9, <2>10, <2>12, <2>13, <2>15, <2>16, <2>17, <2>1,
       Frame DEF IInv
<1>16. ASSUME NEW p \in Caller, ResolveLost(p) PROVE IInv'
  <2>1. UNCHANGED <<lock, row, grant, conf, effects, faults>>
    BY <1>16 DEF ResolveLost
  <2>3. op' \in [Caller -> Op]
    BY <1>16, <1>t, GotoTyped DEF ResolveLost, PC
  <2>5. TypeOK'
    BY <1>t, <2>1, <2>3 DEF TypeOK
  <2>7. LockHeld'
    BY <1>16, <2>1, <1>n, <1>i
      DEF ResolveLost, Goto, Move, LockHeld, Inside, Idle
  <2>8. LocalsOK'
    BY <1>16, <2>1, <1>n, <1>i
      DEF ResolveLost, Goto, Move, LocalsOK, RowsOK, Inside, Idle
  <2>10. ProgressOK'
    BY <1>16, <2>1, <1>n, <1>i
      DEF ResolveLost, Goto, Move, ProgressOK, LocalsOK, LockHeld,
          EffectMatchesRecord, Inside, Settled, Idle, CallRow, RowStatus
  <2>12. ScopeOK'
    BY <1>16, <2>1, <1>i, IssuedFrame
      DEF ResolveLost, Goto, Move, ScopeOK, Idle
  <2>13. SpentOK'
    BY <1>16, <2>1, <1>i, UsedFrame, IssuedFrame
      DEF ResolveLost, Goto, Move, SpentOK, Idle
  <2>17. NoOrphanAuthority'
    BY <1>16, <2>1, <1>n, <1>i
      DEF ResolveLost, Goto, Move, NoOrphanAuthority, LocalsOK, RowsOK, Idle
  <2> QED
    BY <2>5, <2>7, <2>8, <2>10, <2>12, <2>13, <2>17, <2>1, Frame DEF IInv
<1>17. ASSUME NEW p \in Caller, Reload(p) PROVE IInv'
  <2>1. UNCHANGED <<lock, row, grant, conf, effects, faults>>
    BY <1>17 DEF Reload
  <2>3. op' \in [Caller -> Op]
    BY <1>17, <1>t, GotoTyped DEF Reload, PC
  <2>5. TypeOK'
    BY <1>t, <2>1, <2>3 DEF TypeOK
  <2>7. LockHeld'
    BY <1>17, <2>1, <1>n, <1>i DEF Reload, Goto, Move, LockHeld, Inside, Idle
  <2>8. LocalsOK'
    BY <1>17, <2>1, <1>n, <1>i
      DEF Reload, Goto, Move, LocalsOK, RowsOK, Inside, Idle
  <2>10. ProgressOK'
    BY <1>17, <2>1, <1>n, <1>i
      DEF Reload, Goto, Move, ProgressOK, LocalsOK, LockHeld,
          EffectMatchesRecord, Inside, Settled, Idle, CallRow, RowStatus
  <2>12. ScopeOK'
    BY <1>17, <2>1, <1>i, IssuedFrame DEF Reload, Goto, Move, ScopeOK, Idle
  <2>13. SpentOK'
    BY <1>17, <2>1, <1>i, UsedFrame, IssuedFrame
      DEF Reload, Goto, Move, SpentOK, Idle
  <2>17. NoOrphanAuthority'
    BY <1>17, <2>1, <1>n, <1>i
      DEF Reload, Goto, Move, NoOrphanAuthority, LocalsOK, RowsOK, Idle
  <2> QED
    BY <2>5, <2>7, <2>8, <2>10, <2>12, <2>13, <2>17, <2>1, Frame DEF IInv
<1>18. ASSUME NEW p \in Caller, ReloadMissing(p) PROVE IInv'
  <2>1. UNCHANGED <<lock, row, grant, conf, effects, faults>>
    BY <1>18 DEF ReloadMissing
  <2>3. op' \in [Caller -> Op]
    BY <1>18, <1>t, IdleTyped DEF ReloadMissing
  <2>5. TypeOK'
    BY <1>t, <2>1, <2>3 DEF TypeOK
  <2>7. LockHeld'
    BY <1>18, <2>1, <1>n, <1>i DEF ReloadMissing, LockHeld, Inside, Idle
  <2>8. LocalsOK'
    BY <1>18, <2>1, <1>n, <1>i
      DEF ReloadMissing, LocalsOK, RowsOK, Inside, Idle
  <2>10. ProgressOK'
    BY <1>18, <2>1, <1>n, <1>i
      DEF ReloadMissing, ProgressOK, LocalsOK, LockHeld, EffectMatchesRecord,
          Inside, Settled, Idle, CallRow, RowStatus
  <2>12. ScopeOK'
    BY <1>18, <2>1, <1>i, IssuedFrame DEF ReloadMissing, ScopeOK, Idle
  <2>13. SpentOK'
    BY <1>18, <2>1, <1>i, UsedFrame, IssuedFrame
      DEF ReloadMissing, SpentOK, Idle
  <2>17. NoOrphanAuthority'
    BY <1>18, <2>1, <1>n, <1>i
      DEF ReloadMissing, NoOrphanAuthority, LocalsOK, RowsOK, Idle
  <2> QED
    BY <2>5, <2>7, <2>8, <2>10, <2>12, <2>13, <2>17, <2>1, Frame DEF IInv
<1>19. ASSUME NEW p \in Caller, WithdrawGrant(p) PROVE IInv'
  <2>1. UNCHANGED <<lock, row, conf, effects, faults>>
    BY <1>19 DEF WithdrawGrant
  <2>2. op[p].grant \in Grant /\ grant[op[p].grant].issuer \in Conf
    BY <1>19, <1>i DEF WithdrawGrant, LocalsOK, RowsOK, Inside
  <2>3. op' \in [Caller -> Op]
    BY <1>19, <1>t, IdleTyped DEF WithdrawGrant
  <2>4. grant' \in [Grant -> GrantRow]
    BY <1>19, <2>2, <1>t, GrantTyped DEF WithdrawGrant, Revoked, GrantStatus
  <2>g. /\ grant'[op[p].grant].status # "ACTIVE"
        /\ \A h \in Grant : /\ grant'[h].issuer = grant[h].issuer
                            /\ grant'[h].status = "NONE" <=> grant[h].status = "NONE"
                            /\ grant'[h].status = "CONSUMED" <=> grant[h].status = "CONSUMED"
                            /\ grant'[h].status = "ACTIVE" => grant[h].status = "ACTIVE"
    BY <1>19, <2>2, <1>t, RevokedKeeps DEF WithdrawGrant
  <2>5. TypeOK'
    BY <1>t, <2>1, <2>3, <2>4 DEF TypeOK
  <2>6. \A h \in Grant : grant[h].status # "NONE" =>
          IssuedFor(h)' = IssuedFor(h) /\ IsOneShot(h)' = IsOneShot(h)
    BY <1>19, <2>g, <2>1, <1>t, <1>i DEF IssuedFor, IsOneShot, RowsOK
  <2>7. LockHeld'
    BY <1>19, <2>g, <2>1, <1>t, <1>n, <1>i
      DEF WithdrawGrant, LockHeld, Inside, Idle
  <2>8. LocalsOK'
    <3>1. op' = [op EXCEPT ![p] = Idle]
      BY <1>19 DEF WithdrawGrant
    <3>2. \A q \in Caller : op[q].grant # None => grant'[op[q].grant].status # "NONE"
      BY <2>g, <1>o, <1>i DEF LocalsOK
    <3>3. \A q \in Caller : op[q].pc \in {"resolve", "withdraw"} =>
            op[q].grant \in Grant /\ grant'[op[q].grant].issuer = op[q].conf
      BY <2>g, <1>i DEF LocalsOK
    <3> QED
      BY <3>1, <3>2, <3>3, <2>1, <1>i DEF LocalsOK, Inside, Idle
  <2>9. RowsOK'
    BY <1>19, <2>g, <2>1, <1>t, <1>n, <1>i
      DEF WithdrawGrant, RowsOK, LocalsOK, Inside
  <2>10. ProgressOK'
    BY <1>19, <2>g, <2>1, <1>t, <1>n, <1>i
      DEF WithdrawGrant, ProgressOK, LocalsOK, LockHeld, EffectMatchesRecord,
          Inside, Settled, Idle, CallRow, RowStatus
  <2>12. ScopeOK'
    BY <1>19, <2>g, <2>1, <1>t, <1>n, <1>i, <2>6
      DEF WithdrawGrant, ScopeOK, Idle, LocalsOK
  <2>13. SpentOK'
    <3>0. op' = [op EXCEPT ![p] = Idle]
      BY <1>19 DEF WithdrawGrant
    <3>1. ASSUME NEW q \in Caller, NEW h \in Grant, op[q].pc \in {"start", "dispatch"},
                 op[q].grant = h, IsOneShot(h)'
          PROVE  grant'[h].status = "CONSUMED" /\ Used(h)' = {}
      <4>1. grant[h].status # "NONE"
        BY <3>1, <1>i, <1>n DEF LocalsOK
      <4> QED
        BY <3>1, <4>1, <2>1, <2>6, <2>g, <1>i, UsedFrame DEF SpentOK
    <3> QED
      BY <3>0, <3>1 DEF SpentOK, Idle
  <2>14. UnissuedUnused'
    BY <1>19, <2>g, <2>1, <1>t, <1>n, <1>i, UsedFrame
      DEF WithdrawGrant, UnissuedUnused
  <2>15. OneShotSpentOnce'
    BY <1>19, <2>g, <2>1, <1>t, <1>n, <1>i, UsedFrame, <2>6
      DEF WithdrawGrant, OneShotSpentOnce
  <2>17. NoOrphanAuthority'
    BY <1>19, <2>g, <2>1, <1>t, <1>n, <1>i
      DEF WithdrawGrant, NoOrphanAuthority, LocalsOK, RowsOK, Idle
  <2> QED
    BY <2>5, <2>7, <2>8, <2>9, <2>10, <2>12, <2>13, <2>14, <2>15, <2>17, <2>1,
       Frame DEF IInv
<1>20. ASSUME NEW p \in Caller, Abort(p) PROVE IInv'
  <2>1. UNCHANGED <<row, grant, conf, effects>>
    BY <1>20 DEF Abort
  <2>3. op' \in [Caller -> Op]
    BY <1>20, <1>t, IdleTyped DEF Abort
  <2>5. TypeOK'
    BY <1>t, <2>1, <2>3, <1>20 DEF TypeOK, Abort
  <2>7. LockHeld'
    BY <1>20, <2>1, <1>t, <1>n, <1>i DEF Abort, LockHeld, Inside, Idle
  <2>8. LocalsOK'
    BY <1>20, <2>1, <1>n, <1>i DEF Abort, LocalsOK, RowsOK, Inside, Idle
  <2>10. ProgressOK'
    BY <1>20, <2>1, <1>n, <1>i
      DEF Abort, ProgressOK, LocalsOK, LockHeld, EffectMatchesRecord, Inside,
          Settled, Idle, CallRow, RowStatus
  <2>12. ScopeOK'
    BY <1>20, <2>1, <1>i, IssuedFrame DEF Abort, ScopeOK, Idle
  <2>13. SpentOK'
    BY <1>20, <2>1, <1>i, UsedFrame, IssuedFrame DEF Abort, SpentOK, Idle
  <2>17. NoOrphanAuthority'
    BY <1>20, <2>1, <1>t, <1>n, <1>i
      DEF Abort, NoOrphanAuthority, LocalsOK, RowsOK, Idle
  <2> QED
    BY <2>5, <2>7, <2>8, <2>10, <2>12, <2>13, <2>17, <2>1, Frame DEF IInv
<1>21. ASSUME NEW p \in Caller, NEW c \in Call, NEW g \in Grant \cup {None}, Submit(p, c, g) PROVE IInv'
  <2>1. UNCHANGED <<lock, row, grant, conf, effects, faults>>
    BY <1>21 DEF Submit
  <2>3. op' \in [Caller -> Op]
    BY <1>21, <1>t, MoveTyped DEF Submit, PC
  <2>5. TypeOK'
    BY <1>t, <2>1, <2>3 DEF TypeOK
  <2>7. LockHeld'
    BY <1>21, <2>1, <1>n, <1>i DEF Submit, Move, LockHeld, Inside, Idle
  <2>8. LocalsOK'
    BY <1>21, <2>1, <1>n, <1>i DEF Submit, Move, LocalsOK, RowsOK, Inside, Idle
  <2>10. ProgressOK'
    BY <1>21, <2>1, <1>n, <1>i
      DEF Submit, Move, ProgressOK, LocalsOK, LockHeld, EffectMatchesRecord,
          Inside, Settled, Idle, CallRow, RowStatus
  <2>12. ScopeOK'
    BY <1>21, <2>1, <1>i, IssuedFrame DEF Submit, Move, ScopeOK, Idle
  <2>13. SpentOK'
    BY <1>21, <2>1, <1>i, UsedFrame, IssuedFrame
      DEF Submit, Move, SpentOK, Idle
  <2>17. NoOrphanAuthority'
    BY <1>21, <2>1, <1>n, <1>i
      DEF Submit, Move, NoOrphanAuthority, LocalsOK, RowsOK, Idle
  <2> QED
    BY <2>5, <2>7, <2>8, <2>10, <2>12, <2>13, <2>17, <2>1, Frame DEF IInv
<1>22. ASSUME NEW p \in Caller, NEW k \in Conf, Approve(p, k) PROVE IInv'
  <2>1. UNCHANGED <<lock, row, grant, conf, effects, faults>>
    BY <1>22 DEF Approve
  <2>3. op' \in [Caller -> Op]
    BY <1>22, <1>t, MoveTyped DEF Approve, PC
  <2>5. TypeOK'
    BY <1>t, <2>1, <2>3 DEF TypeOK
  <2>7. LockHeld'
    BY <1>22, <2>1, <1>n, <1>i DEF Approve, Move, LockHeld, Inside, Idle
  <2>8. LocalsOK'
    BY <1>22, <2>1, <1>n, <1>i
      DEF Approve, Move, LocalsOK, RowsOK, Inside, Idle
  <2>10. ProgressOK'
    BY <1>22, <2>1, <1>n, <1>i
      DEF Approve, Move, ProgressOK, LocalsOK, LockHeld, EffectMatchesRecord,
          Inside, Settled, Idle, CallRow, RowStatus
  <2>12. ScopeOK'
    BY <1>22, <2>1, <1>i, IssuedFrame DEF Approve, Move, ScopeOK, Idle
  <2>13. SpentOK'
    BY <1>22, <2>1, <1>i, UsedFrame, IssuedFrame
      DEF Approve, Move, SpentOK, Idle
  <2>17. NoOrphanAuthority'
    BY <1>22, <2>1, <1>n, <1>i
      DEF Approve, Move, NoOrphanAuthority, LocalsOK, RowsOK, Idle
  <2> QED
    BY <2>5, <2>7, <2>8, <2>10, <2>12, <2>13, <2>17, <2>1, Frame DEF IInv
<1>23. ASSUME NEW k \in Conf, Deny(k) PROVE IInv'
  <2>1. UNCHANGED <<lock, op, row, grant, effects, faults>>
    BY <1>23 DEF Deny
  <2>2. conf[k].call \in Call /\ conf[k].grant \in Grant \cup {None}
    BY <1>23, <1>t, <1>i DEF Deny, LocalsOK, RowsOK, Inside, ConfRow
  <2>4. conf' \in [Conf -> ConfRow]
    BY <1>23, <2>2, <1>t, ConfTyped DEF Deny, ConfStatus
  <2>5. TypeOK'
    BY <1>t, <2>1, <2>4 DEF TypeOK
  <2>6. \A h \in Grant : grant[h].status # "NONE" =>
          IssuedFor(h)' = IssuedFor(h) /\ IsOneShot(h)' = IsOneShot(h)
    BY <1>23, <2>1, <1>i DEF Deny, SaveConf, IssuedFor, IsOneShot, RowsOK
  <2>8. LocalsOK'
    BY <1>23, <2>1, <1>n, <1>i
      DEF Deny, SaveConf, LocalsOK, RowsOK, Inside, Idle
  <2>9. RowsOK'
    BY <1>23, <2>1, <1>n, <1>i DEF Deny, SaveConf, RowsOK, LocalsOK, Inside
  <2>12. ScopeOK'
    BY <2>6, <2>1, <1>i, <1>n DEF ScopeOK, LocalsOK
  <2>13. SpentOK'
    BY <2>6, <2>1, <1>i, <1>n, UsedFrame DEF SpentOK, LocalsOK
  <2>15. OneShotSpentOnce'
    BY <1>23, <2>1, <1>n, <1>i, UsedFrame, <2>6
      DEF Deny, SaveConf, OneShotSpentOnce
  <2>16. ParkedCallIsConfirmable'
    BY <1>23, <2>1, <1>n, <1>i
      DEF Deny, SaveConf, ParkedCallIsConfirmable, LocalsOK, Inside
  <2>17. NoOrphanAuthority'
    BY <1>23, <2>1, <1>n, <1>i
      DEF Deny, SaveConf, NoOrphanAuthority, LocalsOK, RowsOK, Idle
  <2> QED
    BY <2>5, <2>8, <2>9, <2>12, <2>13, <2>15, <2>16, <2>17, <2>1, Frame
      DEF IInv
<1>24. ASSUME NEW g \in Grant, Revoke(g) PROVE IInv'
  <2>1. UNCHANGED <<lock, op, row, conf, effects, faults>>
    BY <1>24 DEF Revoke
  <2>2. grant[g].issuer \in Conf
    BY <1>24, <1>i DEF Revoke, LocalsOK, RowsOK, Inside
  <2>4. grant' \in [Grant -> GrantRow]
    BY <1>24, <2>2, <1>t, GrantTyped DEF Revoke, Revoked, GrantStatus
  <2>g. /\ grant'[g].status # "ACTIVE"
        /\ \A h \in Grant : /\ grant'[h].issuer = grant[h].issuer
                            /\ grant'[h].status = "NONE" <=> grant[h].status = "NONE"
                            /\ grant'[h].status = "CONSUMED" <=> grant[h].status = "CONSUMED"
                            /\ grant'[h].status = "ACTIVE" => grant[h].status = "ACTIVE"
    BY <1>24, <1>t, RevokedKeeps DEF Revoke
  <2>5. TypeOK'
    BY <1>t, <2>1, <2>4 DEF TypeOK
  <2>6. \A h \in Grant : grant[h].status # "NONE" =>
          IssuedFor(h)' = IssuedFor(h) /\ IsOneShot(h)' = IsOneShot(h)
    BY <1>24, <2>g, <2>1, <1>t, <1>i DEF IssuedFor, IsOneShot, RowsOK
  <2>8. LocalsOK'
    BY <2>g, <2>1, <1>o, <1>i DEF LocalsOK
  <2>9. RowsOK'
    BY <1>24, <2>g, <2>1, <1>t, <1>n, <1>i DEF Revoke, RowsOK, LocalsOK, Inside
  <2>12. ScopeOK'
    BY <1>24, <2>1, <1>t, <1>n, <1>i, <2>6 DEF Revoke, ScopeOK, Idle, LocalsOK
  <2>13. SpentOK'
    <3>1. ASSUME NEW q \in Caller, NEW h \in Grant, op[q].pc \in {"start", "dispatch"},
                 op[q].grant = h, IsOneShot(h)'
          PROVE  grant'[h].status = "CONSUMED" /\ Used(h)' = {}
      <4>1. grant[h].status # "NONE"
        BY <3>1, <1>i, <1>n DEF LocalsOK
      <4> QED
        BY <3>1, <4>1, <2>1, <2>6, <2>g, <1>i, UsedFrame DEF SpentOK
    <3> QED
      BY <3>1, <2>1 DEF SpentOK
  <2>14. UnissuedUnused'
    BY <1>24, <2>g, <2>1, <1>t, <1>n, <1>i, UsedFrame
      DEF Revoke, UnissuedUnused
  <2>15. OneShotSpentOnce'
    BY <1>24, <2>g, <2>1, <1>t, <1>n, <1>i, UsedFrame, <2>6
      DEF Revoke, OneShotSpentOnce
  <2>17. NoOrphanAuthority'
    <3>1. ASSUME faults = 0, NEW h \in Grant, grant'[h].status = "ACTIVE"
          PROVE  \/ conf[grant[h].issuer].status = "APPROVED" /\ conf[grant[h].issuer].grant = h
                 \/ \E p \in Caller : op[p].pc \in {"resolve", "withdraw"} /\ op[p].grant = h
      BY <3>1, <2>g, <1>i DEF NoOrphanAuthority
    <3> QED
      BY <3>1, <2>1, <2>g DEF NoOrphanAuthority
  <2> QED
    BY <2>5, <2>8, <2>9, <2>12, <2>13, <2>14, <2>15, <2>17, <2>1, Frame
      DEF IInv
<1>25. ASSUME Crash PROVE IInv'
  <2>1. UNCHANGED <<row, grant, conf, effects>>
    BY <1>25 DEF Crash
  <2>3. op' \in [Caller -> Op]
    BY <1>25 DEF Crash, Op, Idle, PC
  <2>5. TypeOK'
    BY <1>t, <2>1, <2>3, <1>25 DEF TypeOK, Crash
  <2>7. LockHeld'
    BY <1>25, <2>1, <1>n, <1>i DEF Crash, LockHeld, Inside, Idle
  <2>8. LocalsOK'
    BY <1>25, <2>1, <1>n, <1>i DEF Crash, LocalsOK, RowsOK, Inside, Idle
  <2>10. ProgressOK'
    BY <1>25, <2>1, <1>n, <1>i
      DEF Crash, ProgressOK, LocalsOK, LockHeld, EffectMatchesRecord, Inside,
          Settled, Idle, CallRow, RowStatus
  <2>12. ScopeOK'
    BY <1>25, <2>1, <1>i, IssuedFrame DEF Crash, ScopeOK, Idle
  <2>13. SpentOK'
    BY <1>25, <2>1, <1>i, UsedFrame, IssuedFrame DEF Crash, SpentOK, Idle
  <2>17. NoOrphanAuthority'
    BY <1>25, <2>1, <1>t, <1>n, <1>i
      DEF Crash, NoOrphanAuthority, LocalsOK, RowsOK, Idle
  <2> QED
    BY <2>5, <2>7, <2>8, <2>10, <2>12, <2>13, <2>17, <2>1, Frame DEF IInv
<1>26. ASSUME UNCHANGED vars PROVE IInv'
  <2>1. UNCHANGED <<lock, op, row, grant, conf, effects, faults>>
    BY <1>26 DEF vars
  <2>5. TypeOK'
    BY <1>t, <2>1 DEF TypeOK
  <2> QED
    BY <2>5, <2>1, Frame DEF IInv
<1>27. ASSUME NEW p \in Caller, AuditFails(p) PROVE IInv'
  <2>1. UNCHANGED <<lock, op, grant, conf, effects>>
    BY <1>27 DEF AuditFails
  <2>2. op[p].call \in Call
    BY <1>27, <1>i DEF AuditFails, LocalsOK, RowsOK, Inside
  <2>4. row' \in [Call -> CallRow]
    BY <1>27, <2>2, <1>t, RowTyped DEF AuditFails, RowStatus, Settled
  <2>5. TypeOK'
    BY <1>t, <2>1, <2>4, <1>27 DEF TypeOK, AuditFails
  <2>7. LockHeld'
    BY <1>27, <2>1, <1>t, <1>n, <1>i
      DEF AuditFails, SaveCall, LockHeld, Inside, Idle
  <2>8. LocalsOK'
    BY <1>27, <2>1, <1>t, <1>n, <1>i
      DEF AuditFails, SaveCall, LocalsOK, RowsOK, Inside, Idle
  <2>10. ProgressOK'
    BY <1>27, <2>1, <1>t, <1>n, <1>i
      DEF AuditFails, SaveCall, ProgressOK, LocalsOK, LockHeld,
          EffectMatchesRecord, Inside, Settled, Idle, CallRow, RowStatus
  <2>11. EffectMatchesRecord'
    BY <1>27, <2>1, <1>t, <1>n, <1>i
      DEF AuditFails, SaveCall, EffectMatchesRecord, ProgressOK, LocalsOK,
          Inside, Settled
  <2>12. ScopeOK'
    BY <2>1, <1>i, IssuedFrame DEF ScopeOK
  <2>13. SpentOK'
    BY <1>27, <2>1, <1>t, <1>i, UsedFrame, IssuedFrame
      DEF AuditFails, SaveCall, SpentOK, Idle
  <2>16. ParkedCallIsConfirmable'
    BY <1>27, <2>1, <1>t, <1>n, <1>i
      DEF AuditFails, SaveCall, ParkedCallIsConfirmable, LocalsOK, Inside
  <2>17. NoOrphanAuthority'
    BY <1>27, <2>1, <1>t, <1>n, <1>i
      DEF AuditFails, SaveCall, NoOrphanAuthority, LocalsOK, RowsOK, Idle
  <2> QED
    BY <2>5, <2>7, <2>8, <2>10, <2>11, <2>12, <2>13, <2>16, <2>17, <2>1, Frame
      DEF IInv
<1> QED
  BY <1>1, <1>2, <1>3, <1>4, <1>5, <1>6, <1>7, <1>8, <1>9, <1>10, <1>11, <1>12,
     <1>13, <1>14, <1>15, <1>16, <1>17, <1>18, <1>19, <1>20, <1>21, <1>22,
     <1>23, <1>24, <1>25, <1>26, <1>27
    DEF Next, Step, InvokeStep, ApproveStep, Acquire

LEMMA InitIInv == Init => IInv
<1> SUFFICES ASSUME Init PROVE IInv
  OBVIOUS
<1>1. TypeOK
  BY ExecutionAssumption
    DEF Init, TypeOK, Op, PC, Idle, CallRow, GrantRow, ConfRow, RowStatus,
        Settled, GrantStatus, ConfStatus
<1>2. /\ \A p \in Caller : op[p] = Idle
      /\ \A c \in Call : row[c].status \in {"ABSENT", "QUEUED"} /\ effects[c] = << >>
      /\ \A g \in Grant : grant[g].status = "NONE"
      /\ \A k \in Conf : conf[k].status = "NONE"
      /\ lock = None
  BY DEF Init
<1>3. LockHeld /\ LocalsOK /\ RowsOK /\ ProgressOK /\ ScopeOK /\ SpentOK
  BY <1>2, ExecutionAssumption
    DEF LockHeld, LocalsOK, RowsOK, ProgressOK, ScopeOK, SpentOK, Idle, Inside
<1>4. EffectMatchesRecord /\ UnissuedUnused
  BY <1>2 DEF EffectMatchesRecord, UnissuedUnused, Used
<1>5. OneShotSpentOnce /\ ParkedCallIsConfirmable /\ NoOrphanAuthority
  BY <1>2 DEF OneShotSpentOnce, ParkedCallIsConfirmable, NoOrphanAuthority
<1> QED
  BY <1>1, <1>3, <1>4, <1>5 DEF IInv

------------------------------------------------------------------------------
(* Theorems.                                                               *)

(* The strengthened invariant holds in every reachable state.              *)
THEOREM Invariance == Spec => []IInv
<1>1. Init => IInv
  BY InitIInv
<1>2. IInv /\ [Next]_vars => IInv'
  BY StepPreservesIInv
<1> QED
  BY <1>1, <1>2, PTL DEF Spec

(* Every row, local and history stays within its type.                     *)
THEOREM TypeCorrectness == Spec => []TypeOK
<1>1. IInv => TypeOK
  BY DEF IInv
<1> QED
  BY <1>1, Invariance, PTL

(* At most one caller is inside invoke, the one that holds _lock.          *)
THEOREM MutualExclusion == Spec => []LockHeld
<1>1. IInv => LockHeld
  BY DEF IInv
<1> QED
  BY <1>1, Invariance, PTL

(* No call is acted on twice, and what is recorded of it tells whether it  *)
(* was: for any number of callers, duplicates, approvals and faults.       *)
THEOREM EffectsMatchRecords == Spec => []EffectMatchesRecord
<1>1. IInv => EffectMatchesRecord
  BY DEF IInv
<1> QED
  BY <1>1, Invariance, PTL

(* A ONE_SHOT grant never authorizes two effects.                          *)
THEOREM OneShotGrantsSpentOnce == Spec => []OneShotSpentOnce
<1>1. IInv => OneShotSpentOnce
  BY DEF IInv
<1> QED
  BY <1>1, Invariance, PTL

(* Without a fault, an ACTIVE grant has an approved confirmation behind it.*)
THEOREM AuthorityIsAccountedFor == Spec => []NoOrphanAuthority
<1>1. IInv => NoOrphanAuthority
  BY DEF IInv
<1> QED
  BY <1>1, Invariance, PTL

(* A call waiting for confirmation can be confirmed.                       *)
THEOREM ParkedCallsConfirmable == Spec => []ParkedCallIsConfirmable
<1>1. IInv => ParkedCallIsConfirmable
  BY DEF IInv
<1> QED
  BY <1>1, Invariance, PTL

(* Authority is in order at every step of ToolExecution, for all callers,  *)
(* calls, grants and confirmations.                                        *)
THEOREM AuthorityStaysInOrder == Spec => []AuthorityInOrder
<1>1. IInv => AuthorityInOrder
  BY DEF IInv, AuthorityInOrder
<1> QED
  BY <1>1, Invariance, PTL

------------------------------------------------------------------------------
(***************************************************************************)
(* ToolExecution implements AuthorizedExecution: the promise changes only  *)
(* by its own actions.                                                     *)
(***************************************************************************)
authority == <<asked, issued, live>>

(* Rows that stay leave the authority as it is.                            *)
LEMMA AuthorityFrame ==
  ASSUME UNCHANGED <<grant, conf>>
  PROVE  UNCHANGED authority /\ \A g : (IsOneShot(g)' <=> IsOneShot(g))
BY DEF authority, asked, issued, live, FreshConf, FreshGrant, IssuedFor, IsOneShot

(* The grants and confirmations that a caller names are stored.            *)
LEMMA NamedRows ==
  ASSUME IInv
  PROVE  /\ \A p \in Caller : op[p].pc \in {"consume", "start", "dispatch"} =>
              op[p].call \in Call /\ op[p].grant \in Grant \ FreshGrant
         /\ \A g \in Grant \ FreshGrant : IssuedFor(g) \in Call
         /\ \A g \in Grant : issued[g] = IF g \in FreshGrant THEN {} ELSE {IssuedFor(g)}
         /\ live \subseteq Grant \ FreshGrant
<1>1. TypeOK /\ LocalsOK /\ RowsOK /\ None \notin Grant
  BY ExecutionAssumption DEF IInv
<1>2. \A p \in Caller : op[p].pc \in {"consume", "start", "dispatch"} =>
        op[p].call \in Call /\ op[p].grant \in Grant \ FreshGrant
  BY <1>1 DEF LocalsOK, FreshGrant, Inside
<1>3. \A g \in Grant \ FreshGrant : IssuedFor(g) \in Call
  BY <1>1 DEF RowsOK, FreshGrant, IssuedFor
<1> QED
  BY <1>2, <1>3 DEF issued, live, FreshGrant

(* A caller whose step takes or loses no permit leaves the permits.        *)
LEMMA PermitsFrame ==
  ASSUME IInv, NEW p \in Caller, NEW o, op' = [op EXCEPT ![p] = o],
         \A g \in Grant \ FreshGrant : (IsOneShot(g)' <=> IsOneShot(g)),
         p \notin permitted, p \notin permitted'
  PROVE  permits' = permits
<1>1. op \in [Caller -> Op]
  BY DEF IInv, TypeOK
<1>2. \A q \in Caller \ {p} : op'[q] = op[q]
  BY <1>1
<1>3. permitted' = permitted
  <2>1. \A q \in Caller \ {p} : op[q].pc = "consume" =>
          \E g \in Grant \ FreshGrant : op[q].grant = g /\ (IsOneShot(g)' <=> IsOneShot(g))
    BY NamedRows
  <2>2. \A q \in Caller \ {p} : q \in permitted' <=> q \in permitted
    BY <1>2, <2>1 DEF permitted
  <2> QED
    BY <2>2 DEF permitted
<1>4. \A q \in permitted : op'[q] = op[q]
  BY <1>2 DEF permitted
<1> QED
  BY <1>3, <1>4 DEF permits

(* There is one permit at most, that of the caller inside invoke.          *)
LEMMA OnePermit ==
  ASSUME IInv, NEW p \in Caller, op[p].pc \in Inside
  PROVE  /\ \A q \in Caller : op[q].pc \in Inside => q = p
         /\ permitted \subseteq {p}
         /\ p \in permitted => permits = {<<op[p].call, op[p].grant>>}
         /\ p \notin permitted => permits = {}
<1>1. \A q \in Caller : op[q].pc \in Inside => q = p
  BY DEF IInv, LockHeld
<1>2. permitted \subseteq {p}
  BY <1>1 DEF permitted, Inside
<1> QED
  BY <1>1, <1>2 DEF permits

(* The initial state has no authority.                                     *)
LEMMA InitRefines == Init => AE!Init
<1> SUFFICES ASSUME Init PROVE AE!Init
  OBVIOUS
<1>1. FreshConf = Conf /\ FreshGrant = Grant /\ live = {} /\ permitted = {}
  BY DEF Init, FreshConf, FreshGrant, live, permitted, Idle
<1> QED
  BY <1>1 DEF Init, AE!Init, asked, issued, permits

(* Every step maps to one of the promise, or to a stutter.                 *)
LEMMA StepRefines == IInv /\ [Next]_vars => [AE!Next]_(AE!avars)
<1> SUFFICES ASSUME IInv, [Next]_vars PROVE [AE!Next]_(AE!avars)
  OBVIOUS
<1> DEFINE Still == UNCHANGED <<asked, issued, live, permits, effects>>
<1>0. /\ op \in [Caller -> Op] /\ grant \in [Grant -> GrantRow] /\ conf \in [Conf -> ConfRow]
      /\ effects \in [Call -> Seq(Grant)] /\ LocalsOK /\ RowsOK /\ ProgressOK /\ ScopeOK
      /\ EffectMatchesRecord
  BY DEF IInv, TypeOK
<1>s. Still => [AE!Next]_(AE!avars)
  BY DEF AE!avars
(* Steps of a caller that neither write grants or confirmations nor act.   *)
<1>1. ASSUME NEW p \in Caller, NEW o, op' = [op EXCEPT ![p] = o],
             UNCHANGED <<grant, conf, effects>>, p \notin permitted, p \notin permitted'
      PROVE  [AE!Next]_(AE!avars)
  <2>1. UNCHANGED authority /\ \A g : (IsOneShot(g)' <=> IsOneShot(g))
    BY <1>1, AuthorityFrame
  <2>2. permits' = permits
    BY <1>1, <2>1, PermitsFrame
  <2> QED
    BY <1>1, <1>s, <2>1, <2>2 DEF authority
(* Steps that end with permits lost, and nothing else.                     *)
<1>2. ASSUME UNCHANGED <<grant, conf, effects>>, permits' \subseteq permits
      PROVE  [AE!Next]_(AE!avars)
  <2>1. UNCHANGED authority
    BY <1>2, AuthorityFrame
  <2> QED
    BY <1>2, <2>1 DEF authority, AE!Next, AE!Lose
<1>3. ASSUME NEW p \in Caller, Acquire(p) PROVE [AE!Next]_(AE!avars)
  <2>1. op[p].pc = "acquire" /\ UNCHANGED <<grant, conf, effects>> /\ p \notin permitted
    BY <1>3 DEF Acquire, Answer, Enter, permitted
  <2>2. CASE Answer(p)
    <3>1. op' = [op EXCEPT ![p] = Idle]
      BY <2>2 DEF Answer, Return
    <3>2. p \notin permitted'
      BY <1>0, <3>1 DEF permitted, Idle
    <3> QED
      BY <1>1, <2>1, <3>1, <3>2
  <2>3. CASE Enter(p)
    <3>1. \E l \in {"refuse", "evaluate"} : Goto(p, l)
      BY <2>3 DEF Enter
    <3>2. p \notin permitted'
      BY <1>0, <3>1 DEF permitted, Goto, Move
    <3> QED
      BY <1>1, <2>1, <3>1, <3>2 DEF Goto, Move
  <2> QED
    BY <1>3, <2>2, <2>3 DEF Acquire
<1>4. ASSUME NEW p \in Caller, Evaluate(p) PROVE [AE!Next]_(AE!avars)
  <2>0. op[p].pc = "evaluate" /\ UNCHANGED <<grant, conf, effects>>
    BY <1>4 DEF Evaluate
  <2>1. UNCHANGED authority /\ \A g : (IsOneShot(g)' <=> IsOneShot(g))
    BY <2>0, AuthorityFrame
  <2>2. permits = {} /\ p \notin permitted
    BY <2>0, OnePermit DEF permitted, Inside
  <2>3. op' = [op EXCEPT ![p] = [pc |-> Decision(op[p].call, op[p].grant), call |-> op[p].call,
                                 grant |-> op[p].grant, conf |-> op[p].conf]]
    BY <1>4 DEF Evaluate, Goto, Move
  <2>4. CASE /\ Decision(op[p].call, op[p].grant) = "consume"
             /\ ~IsOneShot(op[p].grant)
    <3> DEFINE c == op[p].call
               g == op[p].grant
    <3>1. g # None /\ Matches(g, c)
      BY <2>4 DEF Decision
    <3>2. c \in Call /\ g \in Grant
      BY <1>0, <2>0, <3>1 DEF LocalsOK, Inside, Op
    <3>3. permitted' = {p} /\ op'[p].call = c /\ op'[p].grant = g
      <4>1. \A q \in Caller \ {p} : op'[q] = op[q] /\ op[q].pc \notin Inside
        BY <1>0, <2>0, <2>3, OnePermit DEF Inside
      <4>2. /\ op'[p].pc = "consume" /\ op'[p].call = c /\ op'[p].grant = g
        BY <1>0, <2>3, <2>4
      <4>3. p \in permitted'
        BY <2>1, <2>4, <4>2 DEF permitted
      <4> QED
        BY <4>1, <4>2, <4>3 DEF permitted, Inside
    <3>4. permits' = {<<c, g>>}
      BY <3>3 DEF permits
    <3>5. g \in live /\ issued[g] = {IssuedFor(g)} /\ IssuedFor(g) \notin OneShot
          /\ ScopeOf[IssuedFor(g)] = ScopeOf[c]
      BY <2>4, <3>1, <3>2 DEF Matches, live, issued, FreshGrant, IsOneShot
    <3>6. effects[c] = << >>
      BY <1>0, <2>0, <3>2 DEF ProgressOK, EffectMatchesRecord, Inside
    <3>7. AE!Permit(c, g)
      BY <2>0, <2>1, <2>2, <3>4, <3>5, <3>6 DEF AE!Permit, authority
    <3> QED
      BY <3>2, <3>7 DEF AE!Next
  <2>5. CASE ~(/\ Decision(op[p].call, op[p].grant) = "consume"
               /\ ~IsOneShot(op[p].grant))
    <3>1. p \notin permitted'
      BY <1>0, <2>1, <2>3, <2>5 DEF permitted, Decision
    <3> QED
      BY <1>1, <2>0, <2>2, <2>3, <3>1
  <2> QED
    BY <2>4, <2>5
<1>5. ASSUME NEW p \in Caller, AskConfirmation(p) PROVE [AE!Next]_(AE!avars)
  <2>0. PICK k \in FreshConf : /\ op[p].pc = "confirm"
                               /\ SaveConf(k, "PENDING", op[p].call, None)
                               /\ Move(p, "park", op[p].call, None, k)
                               /\ UNCHANGED <<grant, effects>>
    BY <1>5 DEF AskConfirmation
  <2>1. op[p].call \in Call
    BY <1>0, <2>0 DEF LocalsOK, Inside
  <2>2. /\ \A h \in Conf \ {k} : conf'[h] = conf[h]
        /\ conf'[k].call = op[p].call /\ conf'[k].status = "PENDING" /\ conf[k].status = "NONE"
    BY <1>0, <2>0 DEF SaveConf, FreshConf
  <2>3. asked' = asked \cup {op[p].call}
    BY <2>0, <2>2 DEF asked, FreshConf
  <2>4. /\ \A g \in Grant \ FreshGrant : IssuedFor(g)' = IssuedFor(g)
        /\ FreshGrant' = FreshGrant
    BY <1>0, <2>0, <2>2 DEF IssuedFor, FreshGrant, RowsOK
  <2>5. UNCHANGED <<issued, live>>
    BY <2>0, <2>4 DEF issued, live
  <2>6. permits' = permits
    <3>1. p \notin permitted /\ p \notin permitted'
      BY <1>0, <2>0 DEF permitted, Move
    <3>2. \A g \in Grant \ FreshGrant : (IsOneShot(g)' <=> IsOneShot(g))
      BY <2>4 DEF IsOneShot
    <3> QED
      BY <2>0, <3>1, <3>2, PermitsFrame DEF Move
  <2> QED
    BY <2>0, <2>1, <2>3, <2>5, <2>6 DEF AE!Next, AE!Ask
<1>6. ASSUME NEW p \in Caller, Park(p) \/ Refuse(p) \/ Finish(p) PROVE [AE!Next]_(AE!avars)
  <2>1. /\ op[p].pc \in {"park", "refuse", "finish"} /\ UNCHANGED <<grant, conf, effects>>
        /\ op' = [op EXCEPT ![p] = Idle]
    BY <1>6 DEF Park, Refuse, Finish, Return
  <2>2. p \notin permitted /\ p \notin permitted'
    BY <1>0, <2>1 DEF permitted, Idle
  <2> QED
    BY <1>1, <2>1, <2>2
<1>7. ASSUME NEW p \in Caller, Reuse(p) \/ Start(p) PROVE [AE!Next]_(AE!avars)
  <2>1. /\ op[p].pc \in {"consume", "start"} /\ UNCHANGED <<grant, conf, effects>>
        /\ op[p].pc = "consume" => ~IsOneShot(op[p].grant)
        /\ \E l \in {"start", "dispatch"} : Goto(p, l)
    BY <1>7 DEF Reuse, Start
  <2>2. p \in permitted /\ permits = {<<op[p].call, op[p].grant>>}
    BY <2>1, OnePermit DEF permitted, Inside
  <2>3. /\ op'[p].pc \in {"start", "dispatch"}
        /\ op'[p].call = op[p].call /\ op'[p].grant = op[p].grant
        /\ \A q \in Caller \ {p} : op'[q] = op[q] /\ op[q].pc \notin Inside
    BY <1>0, <2>1, OnePermit DEF Goto, Move, Inside
  <2>4. permitted' = {p}
    BY <2>3 DEF permitted, Inside
  <2>5. permits' = permits
    BY <2>2, <2>3, <2>4 DEF permits
  <2> QED
    BY <1>2, <2>1, <2>5
<1>8. ASSUME NEW p \in Caller, Consume(p) PROVE [AE!Next]_(AE!avars)
  <2> DEFINE c == op[p].call
             g == op[p].grant
  <2>0. /\ op[p].pc = "consume" /\ IsOneShot(g) /\ grant[g].status = "ACTIVE"
        /\ SaveGrant(g, "CONSUMED", grant[g].issuer) /\ Goto(p, "start")
        /\ UNCHANGED <<conf, effects>>
    BY <1>8 DEF Consume
  <2>1. c \in Call /\ g \in Grant \ FreshGrant
    BY <2>0, NamedRows
  <2>2. /\ \A h \in Grant \ {g} : grant'[h] = grant[h]
        /\ grant'[g].status = "CONSUMED" /\ grant'[g].issuer = grant[g].issuer
    BY <1>0, <2>0, <2>1 DEF SaveGrant
  <2>3. live' = live \ {g} /\ g \in live
    BY <2>0, <2>1, <2>2 DEF live
  <2>4. UNCHANGED <<asked, issued>>
    <3>1. FreshGrant' = FreshGrant /\ \A h \in Grant : IssuedFor(h)' = IssuedFor(h)
      BY <2>0, <2>1, <2>2 DEF FreshGrant, IssuedFor
    <3> QED
      BY <2>0, <3>1 DEF asked, issued, FreshConf
  <2>5. permits = {} /\ permits' = {<<c, g>>}
    <3>1. permits = {}
      BY <2>0, OnePermit DEF permitted, Inside
    <3>2. /\ op'[p].pc = "start" /\ op'[p].call = c /\ op'[p].grant = g
          /\ \A q \in Caller \ {p} : op'[q] = op[q] /\ op[q].pc \notin Inside
      BY <1>0, <2>0, OnePermit DEF Goto, Move, Inside
    <3>3. permitted' = {p}
      BY <3>2 DEF permitted, Inside
    <3> QED
      BY <3>1, <3>2, <3>3 DEF permits
  <2>6. /\ issued[g] = {IssuedFor(g)} /\ IssuedFor(g) \in OneShot
        /\ ScopeOf[IssuedFor(g)] = ScopeOf[c]
    BY <1>0, <2>0, <2>1 DEF issued, IsOneShot, ScopeOK
  <2>7. effects[c] = << >>
    BY <1>0, <2>0, <2>1 DEF ProgressOK, EffectMatchesRecord, Inside
  <2>8. AE!Permit(c, g)
    BY <2>0, <2>3, <2>4, <2>5, <2>6, <2>7 DEF AE!Permit
  <2> QED
    BY <2>1, <2>8 DEF AE!Next
<1>9. ASSUME NEW p \in Caller, ConsumeLost(p) PROVE [AE!Next]_(AE!avars)
  <2>1. /\ op[p].pc = "consume" /\ IsOneShot(op[p].grant) /\ UNCHANGED <<grant, conf, effects>>
        /\ Goto(p, "refuse")
    BY <1>9 DEF ConsumeLost
  <2>2. p \notin permitted /\ p \notin permitted'
    BY <1>0, <2>1 DEF permitted, Goto, Move
  <2> QED
    BY <1>1, <2>1, <2>2 DEF Goto, Move
<1>10. ASSUME NEW p \in Caller, Dispatch(p) PROVE [AE!Next]_(AE!avars)
  <2> DEFINE c == op[p].call
             g == op[p].grant
  <2>0. /\ op[p].pc = "dispatch" /\ effects' = [effects EXCEPT ![c] = Append(@, g)]
        /\ Goto(p, "finish") /\ UNCHANGED <<grant, conf>>
    BY <1>10 DEF Dispatch
  <2>1. c \in Call /\ g \in Grant
    BY <2>0, NamedRows
  <2>2. UNCHANGED authority
    BY <2>0, AuthorityFrame
  <2>3. permits = {<<c, g>>}
    BY <2>0, OnePermit DEF permitted, Inside
  <2>4. permits' = {}
    <3>1. /\ op'[p].pc = "finish"
          /\ \A q \in Caller \ {p} : op'[q] = op[q] /\ op[q].pc \notin Inside
      BY <1>0, <2>0, OnePermit DEF Goto, Move, Inside
    <3>2. permitted' = {}
      BY <3>1 DEF permitted, Inside
    <3> QED
      BY <3>2 DEF permits
  <2>5. AE!Act(c, g)
    BY <2>0, <2>2, <2>3, <2>4 DEF AE!Act, authority
  <2> QED
    BY <2>1, <2>5 DEF AE!Next
<1>11. ASSUME NEW p \in Caller, op' = [op EXCEPT ![p] = Idle], UNCHANGED <<grant, conf, effects>>
       PROVE  [AE!Next]_(AE!avars)
  <2>1. op'[p].pc = "idle" /\ \A q \in Caller \ {p} : op'[q] = op[q]
    BY <1>0, <1>11 DEF Idle
  <2>2. \A q \in permitted' : q \in permitted /\ op'[q] = op[q]
    BY <1>11, <2>1, AuthorityFrame DEF permitted
  <2> QED
    BY <1>2, <1>11, <2>2 DEF permits
<1>12. ASSUME NEW p \in Caller, IssueGrant(p) PROVE [AE!Next]_(AE!avars)
  <2>0. PICK g \in FreshGrant : /\ op[p].pc = "issue" /\ SaveGrant(g, "ACTIVE", op[p].conf)
                                /\ Move(p, "resolve", None, g, op[p].conf)
                                /\ UNCHANGED <<conf, effects>>
    BY <1>12 DEF IssueGrant
  <2> DEFINE c == conf[op[p].conf].call
  <2>1. op[p].conf \in Conf /\ conf[op[p].conf].status # "NONE" /\ c \in Call /\ g \in Grant
    BY <1>0, <2>0 DEF LocalsOK, RowsOK, FreshGrant
  <2>2. /\ \A h \in Grant \ {g} : grant'[h] = grant[h]
        /\ grant'[g].status = "ACTIVE" /\ grant'[g].issuer = op[p].conf
        /\ grant[g].status = "NONE"
    BY <1>0, <2>0 DEF SaveGrant, FreshGrant
  <2>3. c \in asked /\ asked' = asked
    BY <2>0, <2>1 DEF asked, FreshConf
  <2>4. issued[g] = {} /\ issued' = [issued EXCEPT ![g] = {c}]
    <3>1. IssuedFor(g)' = c /\ \A h \in Grant \ {g} : IssuedFor(h)' = IssuedFor(h)
      BY <2>0, <2>1, <2>2 DEF IssuedFor
    <3>2. FreshGrant' = FreshGrant \ {g} /\ g \in FreshGrant
      BY <2>0, <2>2 DEF FreshGrant
    <3> QED
      BY <2>1, <3>1, <3>2 DEF issued
  <2>5. live' = live \cup {g}
    BY <2>1, <2>2 DEF live
  <2>6. permits' = permits
    <3>1. p \notin permitted /\ p \notin permitted'
      BY <1>0, <2>0 DEF permitted, Move
    <3>2. \A h \in Grant \ FreshGrant : IssuedFor(h)' = IssuedFor(h)
      BY <2>0, <2>2 DEF IssuedFor, FreshGrant
    <3>3. \A h \in Grant \ FreshGrant : (IsOneShot(h)' <=> IsOneShot(h))
      BY <3>2 DEF IsOneShot
    <3> QED
      BY <2>0, <3>1, <3>3, PermitsFrame DEF Move
  <2>7. AE!Issue(g, c)
    BY <2>0, <2>3, <2>4, <2>5, <2>6 DEF AE!Issue
  <2> QED
    BY <2>1, <2>7 DEF AE!Next
(* A confirmation that is resolved keeps its call.                         *)
<1>13. ASSUME NEW k \in Conf, NEW s \in {"APPROVED", "DENIED"}, NEW g,
              conf[k].status = "PENDING", SaveConf(k, s, conf[k].call, g), UNCHANGED grant
       PROVE  UNCHANGED authority /\ \A h : (IsOneShot(h)' <=> IsOneShot(h))
  <2>1. /\ FreshConf' = FreshConf /\ FreshGrant' = FreshGrant /\ live' = live
        /\ \A h \in Conf : conf'[h].call = conf[h].call
    BY <1>0, <1>13 DEF SaveConf, FreshConf, FreshGrant, live
  <2>2. \A h \in Grant \ FreshGrant : IssuedFor(h)' = IssuedFor(h)
    BY <1>0, <1>13, <2>1 DEF IssuedFor, RowsOK, FreshGrant
  <2>3. UNCHANGED authority
    BY <2>1, <2>2 DEF authority, asked, issued, FreshConf
  <2>4. \A h : IssuedFor(h)' = IssuedFor(h)
    BY <1>0, <1>13, <2>1 DEF IssuedFor, SaveConf
  <2> QED
    BY <2>3, <2>4 DEF IsOneShot
<1>14. ASSUME NEW p \in Caller, Resolve(p) PROVE [AE!Next]_(AE!avars)
  <2>0. /\ op[p].pc = "resolve" /\ conf[op[p].conf].status = "PENDING"
        /\ SaveConf(op[p].conf, "APPROVED", conf[op[p].conf].call, op[p].grant)
        /\ Move(p, "reload", conf[op[p].conf].call, op[p].grant, None)
        /\ UNCHANGED <<grant, effects>>
    BY <1>14 DEF Resolve
  <2>1. op[p].conf \in Conf
    BY <1>0, <2>0 DEF LocalsOK
  <2>2. UNCHANGED authority /\ \A h : (IsOneShot(h)' <=> IsOneShot(h))
    BY <1>13, <2>0, <2>1
  <2>3. p \notin permitted /\ p \notin permitted'
    BY <1>0, <2>0 DEF permitted, Move
  <2>4. permits' = permits
    BY <2>0, <2>2, <2>3, PermitsFrame DEF Move
  <2> QED
    BY <1>s, <2>0, <2>2, <2>4 DEF authority
<1>15. ASSUME NEW p \in Caller, ResolveLost(p) \/ Reload(p) PROVE [AE!Next]_(AE!avars)
  <2>1. /\ op[p].pc \in {"resolve", "reload"} /\ UNCHANGED <<grant, conf, effects>>
        /\ \E l \in {"withdraw", "acquire"} : Goto(p, l)
    BY <1>15 DEF ResolveLost, Reload
  <2>2. p \notin permitted /\ p \notin permitted'
    BY <1>0, <2>1 DEF permitted, Goto, Move
  <2> QED
    BY <1>1, <2>1, <2>2 DEF Goto, Move
(* A grant that is withdrawn stops being live; permits that were taken     *)
(* from it stay.                                                           *)
<1>16. ASSUME NEW g \in Grant, Revoked(g), UNCHANGED <<conf, effects>>
       PROVE  /\ live' = live \ {g} /\ UNCHANGED <<asked, issued>>
              /\ \A h \in Grant : (IsOneShot(h)' <=> IsOneShot(h))
  <2>1. /\ \A h \in Grant : /\ grant'[h].issuer = grant[h].issuer
                            /\ grant'[h].status = "NONE" <=> grant[h].status = "NONE"
                            /\ h # g => grant'[h] = grant[h]
        /\ grant'[g].status # "ACTIVE"
    BY <1>0, <1>16, RevokedKeeps DEF Revoked, SaveGrant
  <2>2. live' = live \ {g}
    BY <2>1 DEF live
  <2>3. FreshGrant' = FreshGrant
    BY <2>1 DEF FreshGrant
  <2>4. \A h \in Grant : IssuedFor(h)' = IssuedFor(h)
    BY <1>16, <2>1 DEF IssuedFor
  <2> QED
    BY <1>16, <2>2, <2>3, <2>4 DEF asked, issued, FreshConf, IsOneShot
<1>17. ASSUME NEW p \in Caller, WithdrawGrant(p) PROVE [AE!Next]_(AE!avars)
  <2>0. /\ op[p].pc = "withdraw" /\ Revoked(op[p].grant) /\ op' = [op EXCEPT ![p] = Idle]
        /\ UNCHANGED <<conf, effects>>
    BY <1>17 DEF WithdrawGrant
  <2>1. op[p].grant \in Grant
    BY <1>0, <2>0 DEF LocalsOK
  <2>2. /\ live' = live \ {op[p].grant} /\ UNCHANGED <<asked, issued>>
        /\ \A h \in Grant : (IsOneShot(h)' <=> IsOneShot(h))
    BY <1>16, <2>0, <2>1
  <2>3. p \notin permitted /\ p \notin permitted'
    BY <1>0, <2>0 DEF permitted, Idle
  <2>4. permits' = permits
    BY <2>0, <2>2, <2>3, NamedRows, PermitsFrame
  <2> QED
    BY <2>0, <2>1, <2>2, <2>4 DEF AE!Next, AE!Withdraw
<1>18. ASSUME NEW g \in Grant, Revoke(g) PROVE [AE!Next]_(AE!avars)
  <2>0. Revoked(g) /\ UNCHANGED <<op, conf, effects>>
    BY <1>18 DEF Revoke
  <2>1. /\ live' = live \ {g} /\ UNCHANGED <<asked, issued>>
        /\ \A h \in Grant : (IsOneShot(h)' <=> IsOneShot(h))
    BY <1>16, <2>0
  <2>2. permitted' = permitted
    BY <2>0, <2>1, NamedRows DEF permitted
  <2>3. permits' = permits
    BY <2>0, <2>2 DEF permits
  <2> QED
    BY <2>0, <2>1, <2>3 DEF AE!Next, AE!Withdraw
<1>19. ASSUME NEW k \in Conf, Deny(k) PROVE [AE!Next]_(AE!avars)
  <2>1. UNCHANGED authority /\ \A h : (IsOneShot(h)' <=> IsOneShot(h))
    BY <1>13, <1>19 DEF Deny
  <2>2. permits' = permits
    BY <1>19, <2>1 DEF Deny, permits, permitted
  <2> QED
    BY <1>s, <1>19, <2>1, <2>2 DEF Deny, authority
<1>20. ASSUME NEW p \in Caller, NEW c \in Call, NEW g \in Grant \cup {None}, Submit(p, c, g)
       PROVE  [AE!Next]_(AE!avars)
  <2>1. op[p].pc = "idle" /\ Move(p, "acquire", c, g, None) /\ UNCHANGED <<grant, conf, effects>>
    BY <1>20 DEF Submit, Idle
  <2>2. p \notin permitted /\ p \notin permitted'
    BY <1>0, <2>1 DEF permitted, Move
  <2> QED
    BY <1>1, <2>1, <2>2 DEF Move
<1>21. ASSUME NEW p \in Caller, NEW k \in Conf, Approve(p, k) PROVE [AE!Next]_(AE!avars)
  <2>1. op[p].pc = "idle" /\ Move(p, "issue", None, None, k) /\ UNCHANGED <<grant, conf, effects>>
    BY <1>21 DEF Approve, Idle
  <2>2. p \notin permitted /\ p \notin permitted'
    BY <1>0, <2>1 DEF permitted, Move
  <2> QED
    BY <1>1, <2>1, <2>2 DEF Move
<1>22. ASSUME Crash PROVE [AE!Next]_(AE!avars)
  <2>1. UNCHANGED <<grant, conf, effects>> /\ permitted' = {}
    BY <1>22 DEF Crash, permitted, Idle
  <2> QED
    BY <1>2, <2>1 DEF permits
<1>23. ASSUME UNCHANGED vars PROVE [AE!Next]_(AE!avars)
  <2>1. permits' = permits
    BY <1>23 DEF vars, permits, permitted, IsOneShot, IssuedFor
  <2> QED
    BY <1>s, <1>23, <2>1, AuthorityFrame DEF vars, authority
<1>24. ASSUME NEW p \in Caller, DispatchFails(p) \/ ReloadMissing(p) \/ Abort(p)
       PROVE  [AE!Next]_(AE!avars)
  BY <1>11, <1>24 DEF DispatchFails, ReloadMissing, Abort, Return
<1>25. ASSUME NEW p \in Caller, AuditFails(p) PROVE [AE!Next]_(AE!avars)
  <2>1. UNCHANGED <<op, grant, conf, effects>>
    BY <1>25 DEF AuditFails
  <2>2. permits' = permits
    BY <2>1 DEF permits, permitted, IsOneShot, IssuedFor
  <2> QED
    BY <1>s, <2>1, <2>2, AuthorityFrame DEF authority
<1> QED
  BY <1>3, <1>4, <1>5, <1>6, <1>7, <1>8, <1>9, <1>10, <1>12, <1>14, <1>15, <1>17, <1>18, <1>19,
     <1>20, <1>21, <1>22, <1>23, <1>24, <1>25 DEF Next, Step, InvokeStep, ApproveStep

(* ExecutionRuntime keeps the promise of the execution layer: a call acts  *)
(* at most once, under a permit taken from a live grant of its scope, and  *)
(* a ONE_SHOT grant gives one permit.                                      *)
THEOREM RuntimeKeepsPromise == Spec => ImplementsAuthorizedExecution
<1>1. Init => AE!Init
  BY InitRefines
<1>2. IInv /\ [Next]_vars => [AE!Next]_(AE!avars)
  BY StepRefines
<1> QED
  BY <1>1, <1>2, Invariance, PTL DEF Spec, ImplementsAuthorizedExecution, AE!Spec
==============================================================================
