--------------------------- MODULE ConversationProofs ---------------------------
(***************************************************************************)
(* Theorems of the two models of a Conversation, for every value of their  *)
(* constants: ConversationTurns, and then RealtimeSession.  The models     *)
(* share no variable; neither proof uses the other.                        *)
(***************************************************************************)
EXTENDS ConversationTurns, RealtimeSession, FiniteSetTheorems, SequenceTheorems, TLAPS

(* --------------------------- ConversationTurns ------------------------- *)

(* Who holds the voice lease is recorded as holding it.                    *)
LeaseHeld == session \in Holding => voiceActive

(* Voice starts only at a count of zero, nobody is counted while it holds  *)
(* the lease, so a request that gets in then drives the count below zero.  *)
CountSpent ==
  session \in Holding => pending <= 0 /\ (Active # {} => pending < 0)

(* text_lock has one holder.                                               *)
OneInside ==
  \A s, t \in Request : pc[s] \in Inside /\ pc[t] \in Inside => s = t

(* A request has no Turn before it persists it.                            *)
NewHasNoTurn ==
  \A t \in Request : pc[t] \in {"idle", "queued", "persist"} => turn[t] = "NONE"

(* No session is synchronised with a revision that is yet to come, and one *)
(* that is being reseeded has reason to.                                   *)
SyncedInPast ==
  /\ synced <= revision
  /\ session = "reseeding" => stale \/ synced < revision

IInv == TypeOK /\ LeaseHeld /\ CountSpent /\ OneInside /\ NewHasNoTurn /\ SyncedInPast

(* The initial state satisfies the invariant.                              *)
LEMMA InitIInv == Init => IInv
<1> SUFFICES ASSUME Init PROVE IInv
  OBVIOUS
<1>1. TypeOK
  <2>1. pc \in [Request -> {"idle", "queued"} \cup Inside \cup Over]
    BY DEF Init
  <2>2. turn \in [Request -> Final \cup {"NONE", "PROCESSING"}]
    BY DEF Init
  <2>3. voiceActive \in BOOLEAN /\ stale \in BOOLEAN
    BY Zenon DEF Init
  <2>4. /\ cut \subseteq Request /\ known \subseteq Request /\ session = "CLOSED"
        /\ pending \in Int /\ revision \in Nat /\ synced \in Nat
        /\ talks \in 0 .. MaxTalks /\ faults \in 0 .. MaxFaults
    BY BoundAssumption DEF Init
  <2> QED
    BY <2>1, <2>2, <2>3, <2>4 DEF TypeOK
<1>2. LeaseHeld /\ CountSpent
  BY DEF Init, LeaseHeld, CountSpent, Holding
<1>3. OneInside /\ NewHasNoTurn /\ SyncedInPast
  BY DEF Init, OneInside, NewHasNoTurn, SyncedInPast, Inside
<1> QED
  BY <1>1, <1>2, <1>3 DEF IInv

(* Every step keeps the types.                                             *)
LEMMA StepTyped == TypeOK /\ [Next]_vars => TypeOK'
<1> SUFFICES ASSUME TypeOK, [Next]_vars PROVE TypeOK'
  OBVIOUS
<1> USE BoundAssumption DEF TypeOK, Goto, Write, Fault, texts, voice
<1>1. ASSUME NEW t \in Request, Arrive(t) PROVE TypeOK'
  BY <1>1 DEF Arrive, Inside
<1>2. ASSUME NEW t \in Request, TextStep(t) PROVE TypeOK'
  <2>1. CASE Granted(t) \/ Persist(t) \/ Audited(t) \/ Load(t) \/ Leave(t)
    BY <2>1 DEF Granted, Persist, AfterPersist, Audited, Load, Leave, Inside, Over
  <2>2. CASE \E status \in {"COMPLETED", "FAILED"} : Finalize(t, status)
    BY <2>2 DEF Finalize, Final, Inside
  <2>3. CASE Interrupted(t)
    BY <2>3 DEF Interrupted, Raised, TakeBack, Final, Over
  <2> QED
    BY <1>2, <2>1, <2>2, <2>3 DEF TextStep
<1>3. ASSUME NEW t \in Request, TextFault(t) PROVE TypeOK'
  <2>1. CASE GiveUp(t) \/ Raise(t) \/ Cancel(t)
    BY <2>1 DEF GiveUp, Raise, Cancel, Raised, TakeBack, Inside, Over
  <2>2. CASE \E status \in {"COMPLETED", "FAILED"} : CancelInCommit(t, status)
    BY <2>2 DEF CancelInCommit, Raised, TakeBack, Final, Inside, Over
  <2> QED
    BY <1>3, <2>1, <2>2 DEF TextFault
<1>4. ASSUME VoiceStep PROVE TypeOK'
  <2>1. voiceActive' \in BOOLEAN /\ stale' \in BOOLEAN
    BY <1>4, Zenon DEF VoiceStep, OpenSession, LoadTurns, ReadRevision, Opened, OpenFails,
      StartInteraction, BargeIn, Check, Started, StartFails, ResponseCompleted, Retire,
      CloseSession
  <2>2. /\ UNCHANGED <<pc, turn, cut, pending>>
        /\ revision' \in Nat /\ synced' \in Nat /\ known' \subseteq Request
        /\ session' \in {"CLOSED", "IDLE"} \cup Holding
        /\ talks' \in 0 .. MaxTalks /\ faults' \in 0 .. MaxFaults
    <3>1. CASE OpenSession \/ LoadTurns \/ ReadRevision
      BY <3>1 DEF OpenSession, LoadTurns, ReadRevision, Holding, Completed
    <3>2. CASE Opened \/ OpenFails \/ StartInteraction \/ BargeIn
      BY <3>2 DEF Opened, OpenFails, StartInteraction, BargeIn, Holding
    <3>3. CASE Check \/ Started \/ StartFails
      BY <3>3 DEF Check, Started, StartFails, Holding
    <3>4. CASE ResponseCompleted \/ Retire \/ CloseSession
      BY <3>4 DEF ResponseCompleted, Retire, CloseSession
    <3> QED
      BY <1>4, <3>1, <3>2, <3>3, <3>4 DEF VoiceStep
  <2> QED
    BY <2>1, <2>2
<1>5. ASSUME Crash PROVE TypeOK'
  <2>1. pc' \in [Request -> {"idle", "queued"} \cup Inside \cup Over]
    BY <1>5 DEF Crash, Over
  <2>2. voiceActive' \in BOOLEAN /\ stale' \in BOOLEAN
    BY <1>5, Zenon DEF Crash
  <2>3. /\ UNCHANGED <<turn, cut, talks>>
        /\ revision' \in Nat /\ synced' \in Nat /\ known' \subseteq Request
        /\ pending' \in Int /\ session' = "CLOSED" /\ faults' \in 0 .. MaxFaults
    BY <1>5 DEF Crash
  <2> QED
    BY <2>1, <2>2, <2>3
<1>6. ASSUME UNCHANGED vars PROVE TypeOK'
  BY <1>6 DEF vars
<1> QED
  BY <1>1, <1>2, <1>3, <1>4, <1>5, <1>6 DEF Next

RequestStep(t) == Arrive(t) \/ TextStep(t) \/ TextFault(t)

(* A step of one request moves that request alone and leaves voice alone;  *)
(* it gets inside only when nobody is, and out of the queue it takes one   *)
(* off the count.                                                          *)
LEMMA RequestMoves ==
  ASSUME TypeOK, NEW t \in Request, RequestStep(t)
  PROVE  /\ \A s \in Request \ {t} : pc'[s] = pc[s] /\ turn'[s] = turn[s]
         /\ revision <= revision'
         /\ pc'[t] \in Inside => pc[t] \in Inside \/ Active = {}
         /\ UNCHANGED voice
         /\ pc'[t] \in {"idle", "queued", "persist"}
              => pc[t] \in {"idle", "queued"} /\ turn'[t] = turn[t]
         /\ voiceActive /\ pending <= 0
              => /\ pending' <= pending
                 /\ pc'[t] \in Inside /\ pc[t] \notin Inside => pending' < 0
<1> USE DEF TypeOK, Goto, Write, Inside, texts
<1>1. CASE Arrive(t)
  BY <1>1 DEF Arrive, LockFree, Active
<1>2. CASE Granted(t)
  BY <1>2 DEF Granted
<1>3. CASE Persist(t) \/ Audited(t) \/ Load(t) \/ Leave(t)
  BY <1>3 DEF Persist, AfterPersist, Audited, Load, Leave
<1>4. CASE \E status \in {"COMPLETED", "FAILED"} : Finalize(t, status)
  BY <1>4 DEF Finalize
<1>5. CASE Interrupted(t)
  BY <1>5 DEF Interrupted, Raised, TakeBack
<1>6. CASE GiveUp(t) \/ Raise(t) \/ Cancel(t)
  BY <1>6 DEF GiveUp, Raise, Cancel, Raised, TakeBack
<1>7. CASE \E status \in {"COMPLETED", "FAILED"} : CancelInCommit(t, status)
  BY <1>7 DEF CancelInCommit, Raised, TakeBack
<1> QED
  BY <1>1, <1>2, <1>3, <1>4, <1>5, <1>6, <1>7 DEF RequestStep, TextStep, TextFault

(* A step of the session leaves the requests and their count alone; it     *)
(* comes to hold the lease only at a count of zero with nobody inside.     *)
LEMMA VoiceMoves ==
  ASSUME TypeOK, VoiceStep
  PROVE  /\ pc' = pc /\ turn' = turn /\ pending' = pending
         /\ session' \in Holding
              => session \in Holding \/ (Active = {} /\ pending = 0)
BY DEF TypeOK, VoiceStep, OpenSession, LoadTurns, ReadRevision, Opened, OpenFails,
  StartInteraction, BargeIn, Check, Started, StartFails, ResponseCompleted, Retire,
  CloseSession, MayTalk, Holding, texts

(* The invariant is inductive.                                             *)
LEMMA StepIInv == IInv /\ [Next]_vars => IInv'
<1> SUFFICES ASSUME IInv, [Next]_vars PROVE IInv'
  OBVIOUS
<1>0. TypeOK /\ TypeOK'
  BY StepTyped DEF IInv
<1>1. ASSUME NEW t \in Request, RequestStep(t) PROVE IInv'
  <2>1. LeaseHeld'
    BY <1>0, <1>1, RequestMoves DEF IInv, LeaseHeld, voice
  <2>2. CountSpent'
    BY <1>0, <1>1, RequestMoves DEF IInv, LeaseHeld, CountSpent, Active, voice, TypeOK
  <2>3. OneInside'
    BY <1>0, <1>1, RequestMoves DEF IInv, OneInside, Active
  <2>4. NewHasNoTurn' /\ SyncedInPast'
    BY <1>0, <1>1, RequestMoves DEF IInv, NewHasNoTurn, SyncedInPast, voice, TypeOK
  <2> QED
    BY <1>0, <2>1, <2>2, <2>3, <2>4 DEF IInv
<1>2. ASSUME VoiceStep PROVE IInv'
  <2>1. LeaseHeld'
    BY <1>0, <1>2 DEF IInv, LeaseHeld, TypeOK, VoiceStep, OpenSession, LoadTurns, ReadRevision,
      Opened, OpenFails, StartInteraction, BargeIn, Check, Started, StartFails,
      ResponseCompleted, Retire, CloseSession, Holding
  <2>2. CountSpent'
    <3>1. Active' = Active
      BY <1>0, <1>2, VoiceMoves DEF Active
    <3> QED
      BY <1>0, <1>2, <3>1, VoiceMoves DEF IInv, CountSpent, TypeOK
  <2>3. OneInside' /\ NewHasNoTurn'
    BY <1>0, <1>2, VoiceMoves DEF IInv, OneInside, NewHasNoTurn
  <2>4. SyncedInPast'
    <3> USE <1>0, <1>2 DEF IInv, SyncedInPast, TypeOK, texts
    <3>1. CASE Check
      BY <3>1 DEF Check
    <3>2. CASE OpenSession \/ LoadTurns \/ ReadRevision \/ Opened \/ OpenFails
      BY <3>2 DEF OpenSession, LoadTurns, ReadRevision, Opened, OpenFails
    <3>3. CASE StartInteraction \/ BargeIn \/ Started \/ StartFails
      BY <3>3 DEF StartInteraction, BargeIn, Started, StartFails
    <3>4. CASE ResponseCompleted \/ Retire \/ CloseSession
      BY <3>4 DEF ResponseCompleted, Retire, CloseSession
    <3> QED
      BY <3>1, <3>2, <3>3, <3>4 DEF VoiceStep
  <2> QED
    BY <1>0, <2>1, <2>2, <2>3, <2>4 DEF IInv
<1>3. ASSUME Crash PROVE IInv'
  BY <1>0, <1>3 DEF Crash, IInv, TypeOK, LeaseHeld, CountSpent, OneInside, NewHasNoTurn,
    SyncedInPast, Inside, Holding
<1>4. ASSUME UNCHANGED vars PROVE IInv'
  BY <1>4 DEF vars, texts, voice, IInv, TypeOK, LeaseHeld, CountSpent, OneInside,
    NewHasNoTurn, SyncedInPast, Active
<1> QED
  BY <1>1, <1>2, <1>3, <1>4 DEF Next, RequestStep

(* The invariant holds throughout.                                         *)
THEOREM TurnsInvariance == Spec => []IInv
<1> QED
  BY InitIInv, StepIInv, PTL DEF Spec

(* The variables keep their types.                                         *)
THEOREM TurnsTyped == Spec => []TypeOK
<1>1. IInv => TypeOK
  BY DEF IInv
<1> QED
  BY <1>1, TurnsInvariance, PTL

(* While the count of waiting requests is right, text and voice exclude    *)
(* each other: with voice inside, a request that is inside too has driven  *)
(* the count below zero, which no queue has.                               *)
THEOREM VoiceExcluded == Spec => []VoiceExcludesText
<1>1. IInv => VoiceExcludesText
  <2>1. Cardinality(Queue) \in Nat
    BY RequestAssumption, FS_Subset, FS_CardinalityType DEF Queue
  <2> QED
    BY <2>1 DEF IInv, TypeOK, CountSpent, VoiceExcludesText, CountIsRight, NeverBoth
<1> QED
  BY <1>1, TurnsInvariance, PTL

(* A final Turn is never rewritten: what writes a Turn requires that it is *)
(* PROCESSING, but for Persist, which no request reaches with a Turn.      *)
THEOREM FinalTurnStays == Spec => TurnIsFinal
<1>1. ASSUME IInv, [Next]_vars, NEW t \in Request, turn[t] \in Final
      PROVE  turn'[t] = turn[t]
  <2> USE <1>1 DEF IInv, TypeOK, NewHasNoTurn, Final, Goto, Write, texts
  <2>1. ASSUME NEW s \in Request, RequestStep(s) PROVE turn'[t] = turn[t]
    <3>1. CASE s # t
      BY <2>1, <3>1, RequestMoves
    <3>2. CASE s = t
      BY <2>1, <3>2 DEF RequestStep, TextStep, TextFault, Arrive, Granted, Persist, Audited,
        Load, Finalize, Leave, Interrupted, Raised, GiveUp, Raise, Cancel, CancelInCommit
    <3> QED
      BY <3>1, <3>2
  <2>2. CASE VoiceStep
    BY <2>2, VoiceMoves
  <2>3. CASE Crash \/ UNCHANGED vars
    BY <2>3 DEF Crash, vars
  <2> QED
    BY <2>1, <2>2, <2>3 DEF Next, RequestStep
<1>2. IInv /\ [Next]_vars =>
        [\A t \in Request : turn[t] \in Final => turn'[t] = turn[t]]_vars
  BY <1>1
<1> QED
  BY <1>2, TurnsInvariance, PTL DEF Spec, TurnIsFinal

(* While a request works from the Turns it loaded no other completes one:  *)
(* it is the only one inside, and whoever completes a Turn is inside.      *)
THEOREM ContextStays == Spec => ContextStaysPut
<1>1. ASSUME IInv, [Next]_vars, NEW t \in Request, pc[t] = "work", pc'[t] = "work"
      PROVE  Completed' = Completed
  <2> USE <1>1 DEF IInv, TypeOK, NewHasNoTurn, OneInside, Inside, Goto, Write, texts
  <2>1. ASSUME NEW s \in Request, RequestStep(s) PROVE Completed' = Completed
    <3>1. CASE s = t
      BY <2>1, <3>1 DEF RequestStep, TextStep, TextFault, Arrive, Granted, Persist, AfterPersist,
        Audited, Load, Finalize, Leave, Interrupted, Raised, GiveUp, Raise, Cancel,
        CancelInCommit
    <3>2. CASE s # t
      <4>1. pc[s] \notin Inside
        BY <3>2
      <4>2. UNCHANGED turn
        BY <2>1, <4>1 DEF RequestStep, TextStep, TextFault, Arrive, Granted, Persist, Audited,
          Load, Finalize, Leave, Interrupted, GiveUp, Raise, Cancel, CancelInCommit
      <4> QED
        BY <4>2 DEF Completed
    <3> QED
      BY <3>1, <3>2
  <2>2. CASE VoiceStep
    BY <2>2, VoiceMoves DEF Completed
  <2>3. CASE Crash \/ UNCHANGED vars
    BY <2>3 DEF Crash, vars, Completed
  <2> QED
    BY <2>1, <2>2, <2>3 DEF Next, RequestStep
<1>2. IInv /\ [Next]_vars =>
        [\A t \in Request : pc[t] = "work" /\ pc'[t] = "work" => Completed' = Completed]_vars
  BY <1>1
<1> QED
  BY <1>2, TurnsInvariance, PTL DEF Spec, ContextStaysPut

(* A voice provider falls behind unnoticed only in an overlap: outside one *)
(* a Turn is completed when no session holds the lease, and the revision   *)
(* then leaves the one the session synchronised with.                      *)
THEOREM VoiceLags == Spec => VoiceLagsOnlyInOverlap
<1>1. ASSUME IInv, [Next]_vars, InSync, NeverBoth PROVE InSync'
  <2> USE <1>1 DEF IInv, TypeOK, InSync
  <2>1. ASSUME NEW t \in Request, RequestStep(t) PROVE InSync'
    <3>1. UNCHANGED voice
      BY <2>1, RequestMoves
    <3>2. CASE Completed' \ cut' \subseteq Completed \ cut /\ UNCHANGED revision
      BY <3>1, <3>2 DEF voice
    <3>3. CASE Finalize(t, "COMPLETED")
      <4>1. Active # {} /\ revision' = revision + 1
        BY <3>3 DEF Finalize, Active, Inside
      <4> QED
        BY <3>1, <4>1 DEF voice, SyncedInPast, NeverBoth, Holding
    <3>4. \/ Finalize(t, "COMPLETED")
          \/ Completed' \ cut' \subseteq Completed \ cut /\ UNCHANGED revision
      <4> USE DEF Completed, Goto, Write, texts
      <4>1. CASE Arrive(t) \/ Granted(t) \/ Audited(t) \/ Load(t) \/ Leave(t)
        BY <4>1 DEF Arrive, Granted, Audited, Load, Leave
      <4>2. CASE Persist(t) \/ Interrupted(t)
        BY <4>2 DEF Persist, Interrupted
      <4>3. CASE Finalize(t, "FAILED")
        BY <4>3 DEF Finalize
      <4>4. CASE TextFault(t)
        <5>1. CASE GiveUp(t) \/ Raise(t) \/ Cancel(t)
          BY <5>1 DEF GiveUp, Raise, Cancel
        <5>2. ASSUME NEW status, CancelInCommit(t, status)
              PROVE  Completed' \ cut' \subseteq Completed \ cut /\ UNCHANGED revision
          BY <5>2 DEF CancelInCommit
        <5> QED
          BY <4>4, <5>1, <5>2 DEF TextFault
      <4> QED
        BY <2>1, <4>1, <4>2, <4>3, <4>4 DEF RequestStep, TextStep
    <3> QED
      BY <3>2, <3>3, <3>4
  <2>2. CASE VoiceStep
    <3>1. Completed' \ cut' = Completed \ cut
      BY <2>2, VoiceMoves DEF Completed, VoiceStep, OpenSession, LoadTurns, ReadRevision,
        Opened, OpenFails, StartInteraction, BargeIn, Check, Started, StartFails,
        ResponseCompleted, Retire, CloseSession, texts
    <3>2. CASE OpenSession \/ LoadTurns \/ ReadRevision \/ Opened \/ OpenFails
      BY <3>1, <3>2 DEF OpenSession, LoadTurns, ReadRevision, Opened, OpenFails, texts
    <3>3. CASE StartInteraction \/ BargeIn \/ Check \/ Started \/ StartFails
      BY <3>1, <3>3 DEF StartInteraction, BargeIn, Check, Started, StartFails, SyncedInPast,
        texts
    <3>4. CASE ResponseCompleted \/ Retire \/ CloseSession
      BY <3>1, <3>4 DEF ResponseCompleted, Retire, CloseSession, texts
    <3> QED
      BY <2>2, <3>2, <3>3, <3>4 DEF VoiceStep
  <2>3. CASE Crash \/ UNCHANGED vars
    BY <2>3 DEF Crash, vars, texts, voice, Completed
  <2> QED
    BY <2>1, <2>2, <2>3 DEF Next, RequestStep
<1>2. IInv /\ [Next]_vars => [InSync /\ ~InSync' => ~NeverBoth]_vars
  BY <1>1
<1> QED
  BY <1>2, TurnsInvariance, PTL DEF Spec, VoiceLagsOnlyInOverlap

(* The queue is finite, and its count follows one arrival or departure.    *)
LEMMA QueueCounts ==
  ASSUME TypeOK
  PROVE  /\ IsFiniteSet(Queue) /\ Cardinality(Queue) \in Nat
         /\ Cardinality(Queue) = 0 <=> Queue = {}
         /\ \A t \in Queue : Cardinality(Queue \ {t}) = Cardinality(Queue) - 1
         /\ \A t \in Request \ Queue : Cardinality(Queue \cup {t}) = Cardinality(Queue) + 1
<1>1. IsFiniteSet(Queue)
  BY RequestAssumption, FS_Subset DEF Queue
<1> QED
  BY <1>1, FS_CardinalityType, FS_EmptySet, FS_RemoveElement, FS_AddElement

(* Only a request that raises inside, while another waits, loses count:    *)
(* who joins or leaves the queue is counted, and with nobody waiting the   *)
(* count is zero and has nothing to take back.                             *)
THEOREM CountLost == Spec => OnlyARaiseLosesCount
<1> DEFINE ARaise == \E t \in Request : pc[t] \in Inside /\ pc'[t] = "raised" /\ Queue # {}
<1>1. ASSUME IInv, [Next]_vars, CountIsRight PROVE CountIsRight' \/ ARaise
  <2> USE <1>1 DEF IInv, TypeOK, CountIsRight, Goto, texts
  <2>1. ASSUME NEW t \in Request, RequestStep(t) PROVE CountIsRight' \/ ARaise
    <3>1. CASE Arrive(t)
      <4>1. CASE LockFree
        <5>1. Queue' = Queue /\ pending' = pending
          BY <3>1, <4>1 DEF Arrive, Queue
        <5> QED
          BY <5>1
      <4>2. CASE ~LockFree
        <5>1. Queue' = Queue \cup {t} /\ t \notin Queue /\ pending' = pending + 1
          BY <3>1, <4>2 DEF Arrive, Queue
        <5> QED
          BY <5>1, QueueCounts
      <4> QED
        BY <4>1, <4>2
    <3>2. CASE Granted(t)
      <4>1. Queue' = Queue \ {t} /\ t \in Queue /\ pending' = pending - 1
        BY <3>2 DEF Granted, Queue
      <4> QED
        BY <4>1, QueueCounts
    <3>3. CASE GiveUp(t)
      <4>1. Queue' = Queue \ {t} /\ t \in Queue /\ pending' = TakeBack
        BY <3>3 DEF GiveUp, Queue
      <4> QED
        BY <4>1, QueueCounts DEF TakeBack
    <3>4. CASE pc[t] \in Inside /\ Queue' = Queue /\ pending' = pending
      BY <3>4
    <3>5. CASE pc[t] \in Inside /\ Queue' = Queue /\ Raised(t)
      <4>1. CASE Queue = {}
        BY <3>5, <4>1, QueueCounts DEF Raised, TakeBack
      <4>2. CASE Queue # {}
        BY <3>5, <4>2 DEF Raised
      <4> QED
        BY <4>1, <4>2
    <3>6. CASE \/ Persist(t) \/ Audited(t) \/ Load(t) \/ Leave(t) \/ Cancel(t)
               \/ \E status \in {"COMPLETED", "FAILED"} : Finalize(t, status)
      BY <3>4, <3>6 DEF Persist, AfterPersist, Audited, Load, Leave, Cancel, Finalize, Queue,
        Inside
    <3>7. CASE \/ Interrupted(t) \/ Raise(t)
               \/ \E status \in {"COMPLETED", "FAILED"} : CancelInCommit(t, status)
      BY <3>4, <3>5, <3>7 DEF Interrupted, Raise, CancelInCommit, Raised, Queue, Inside
    <3> QED
      BY <2>1, <3>1, <3>2, <3>3, <3>6, <3>7 DEF RequestStep, TextStep, TextFault
  <2>2. CASE VoiceStep
    BY <2>2, VoiceMoves DEF Queue
  <2>3. CASE Crash
    <3>1. Queue' = {} /\ pending' = 0
      BY <2>3 DEF Crash, Queue
    <3> QED
      BY <3>1, FS_EmptySet
  <2>4. CASE UNCHANGED vars
    BY <2>4 DEF vars, Queue
  <2> QED
    BY <2>1, <2>2, <2>3, <2>4 DEF Next, RequestStep
<1>2. IInv /\ [Next]_vars =>
        [CountIsRight /\ ~CountIsRight'
           => \E t \in Request : /\ pc[t] \in Inside /\ pc'[t] = "raised"
                                 /\ Queue # {}]_vars
  BY <1>1
<1> QED
  BY <1>2, TurnsInvariance, PTL DEF Spec, OnlyARaiseLosesCount

(* Text and voice stay apart, and every record typed, for any number of    *)
(* requests, interactions and faults.                                      *)
THEOREM TextAndVoiceStayApart == Spec => []TextAndVoiceApart
<1>1. TypeOK /\ VoiceExcludesText <=> TextAndVoiceApart
  BY DEF TextAndVoiceApart
<1> QED
  BY <1>1, TurnsTyped, VoiceExcluded, PTL

(* The order of the Conversation is kept through every interleaving.       *)
THEOREM OrderStays == Spec => OrderIsKept
BY CountLost, ContextStays, FinalTurnStays, VoiceLags, PTL DEF OrderIsKept

(* ---------------------------- RealtimeSession -------------------------- *)

(* The steps of transitions, by their rank: within a program they increase, *)
(* but for the two pieces of news of a user's words.                       *)
Rank ==
  [interrupt |-> 1, persist |-> 1, complete |-> 2, end |-> 3, tell |-> 4, news |-> 4,
   count |-> 5, retire |-> 6, dismiss |-> 6, check |-> 7, reseed |-> 7, start |-> 8,
   announce |-> 9, undo |-> 9, fail |-> 10, shut |-> 10, over |-> 11, unlist |-> 12]

StepName == {"interrupt", "persist", "complete", "end", "tell", "news", "count", "retire", "dismiss",
             "check", "reseed", "start", "announce", "undo", "fail", "shut", "over", "unlist"}

Steps(q) == {q[k] : k \in DOMAIN q}

Sorted(q) ==
  \A i, j \in DOMAIN q : i < j => \/ Rank[q[i]] < Rank[q[j]]
                                  \/ q[i] = "news" /\ q[j] = "news"

LEMMA RankTyped == \A x \in StepName : Rank[x] \in Nat
BY DEF StepName, Rank

LEMMA EmptyProgram == Steps(<<>>) = {} /\ Sorted(<<>>) /\ <<>> \in Seq(StepName)
BY DEF Steps, Sorted

LEMMA StepsTyped ==
  ASSUME NEW q \in Seq(StepName)
  PROVE  Steps(q) \subseteq StepName /\ (q = <<>> <=> Steps(q) = {})
<1>1. Len(q) \in Nat /\ DOMAIN q = 1 .. Len(q) /\ \A k \in 1 .. Len(q) : q[k] \in StepName
  OBVIOUS
<1>2. ASSUME q # <<>> PROVE Steps(q) # {}
  <2>1. 1 \in DOMAIN q
    BY <1>1, <1>2, EmptySeq
  <2> QED
    BY <2>1 DEF Steps
<1>3. Steps(q) \subseteq StepName
  BY <1>1 DEF Steps
<1> QED
  BY <1>2, <1>3, EmptyProgram

LEMMA TailSteps ==
  ASSUME NEW q \in Seq(StepName), q # <<>>, Sorted(q)
  PROVE  /\ Tail(q) \in Seq(StepName) /\ Sorted(Tail(q)) /\ Head(q) \in Steps(q)
         /\ Head(q) # "news" => Steps(Tail(q)) = Steps(q) \ {Head(q)}
         /\ Steps(Tail(q)) \subseteq Steps(q) /\ Steps(q) \subseteq Steps(Tail(q)) \cup {Head(q)}
         /\ Len(q) = 1 <=> Tail(q) = <<>>
         /\ \A x \in Steps(q) : \/ x = Head(q) \/ Rank[Head(q)] < Rank[x]
<1>1. /\ Tail(q) \in Seq(StepName) /\ Len(q) \in Nat \ {0} /\ Len(Tail(q)) = Len(q) - 1
      /\ DOMAIN q = 1 .. Len(q) /\ DOMAIN Tail(q) = 1 .. Len(q) - 1
      /\ \A k \in 1 .. Len(q) - 1 : Tail(q)[k] = q[k + 1]
      /\ Head(q) = q[1] /\ \A k \in 1 .. Len(q) : q[k] \in StepName
  OBVIOUS
<1>2. Sorted(Tail(q))
  BY <1>1 DEF Sorted
<1>3. Head(q) \in Steps(q)
  BY <1>1 DEF Steps
<1>4. Steps(Tail(q)) \subseteq Steps(q)
  BY <1>1 DEF Steps
<1>5. Steps(q) \subseteq Steps(Tail(q)) \cup {Head(q)}
  <2> SUFFICES ASSUME NEW k \in 1 .. Len(q), k # 1 PROVE q[k] \in Steps(Tail(q))
    BY <1>1 DEF Steps
  <2>1. k - 1 \in DOMAIN Tail(q) /\ Tail(q)[k - 1] = q[k]
    BY <1>1
  <2> QED
    BY <2>1 DEF Steps
<1>6. \A k \in 1 .. Len(q) : k # 1 => Rank[q[1]] < Rank[q[k]] \/ (q[1] = "news" /\ q[k] = "news")
  BY <1>1 DEF Sorted
<1>7. \A x \in Steps(q) : \/ x = Head(q) \/ Rank[Head(q)] < Rank[x]
  BY <1>1, <1>6 DEF Steps
<1>8. ASSUME Head(q) # "news" PROVE Head(q) \notin Steps(Tail(q))
  <2> SUFFICES ASSUME NEW k \in 1 .. Len(q) - 1, Tail(q)[k] = Head(q) PROVE FALSE
    BY <1>1 DEF Steps
  <2>1. q[k + 1] = q[1] /\ k + 1 \in 1 .. Len(q) /\ k + 1 # 1
    BY <1>1
  <2>2. Rank[q[1]] < Rank[q[1]]
    BY <1>1, <1>6, <1>8, <2>1
  <2>3. Rank[q[1]] \in Nat
    BY <1>1, RankTyped
  <2> QED
    BY <2>2, <2>3
<1>9. Len(q) = 1 <=> Tail(q) = <<>>
  BY <1>1, EmptySeq, Len(Tail(q)) = 0 <=> Tail(q) = <<>>
<1> QED
  BY <1>1, <1>2, <1>3, <1>4, <1>5, <1>7, <1>8, <1>9

LEMMA ConcatSteps ==
  ASSUME NEW p \in Seq(StepName), NEW q \in Seq(StepName), Sorted(p), Sorted(q),
         \A x \in Steps(p), y \in Steps(q) : Rank[x] < Rank[y]
  PROVE  p \o q \in Seq(StepName) /\ Sorted(p \o q) /\ Steps(p \o q) = Steps(p) \cup Steps(q)
<1>1. /\ p \o q \in Seq(StepName) /\ Len(p) \in Nat /\ Len(q) \in Nat /\ Len(p \o q) = Len(p) + Len(q)
      /\ DOMAIN p = 1 .. Len(p) /\ DOMAIN q = 1 .. Len(q) /\ DOMAIN (p \o q) = 1 .. Len(p) + Len(q)
      /\ \A k \in 1 .. Len(p) + Len(q) :
           (p \o q)[k] = IF k <= Len(p) THEN p[k] ELSE q[k - Len(p)]
  OBVIOUS
<1>2. Steps(p \o q) \subseteq Steps(p) \cup Steps(q)
  BY <1>1 DEF Steps
<1>3. Steps(p) \subseteq Steps(p \o q)
  BY <1>1 DEF Steps
<1>4. Steps(q) \subseteq Steps(p \o q)
  <2> SUFFICES ASSUME NEW k \in 1 .. Len(q) PROVE q[k] \in Steps(p \o q)
    BY <1>1 DEF Steps
  <2>1. k + Len(p) \in 1 .. Len(p) + Len(q) /\ (p \o q)[k + Len(p)] = q[k]
    BY <1>1
  <2> QED
    BY <2>1, <1>1 DEF Steps
<1>5. Sorted(p \o q)
  <2> SUFFICES ASSUME NEW i \in 1 .. Len(p) + Len(q), NEW j \in 1 .. Len(p) + Len(q), i < j
               PROVE  \/ Rank[(p \o q)[i]] < Rank[(p \o q)[j]]
                      \/ (p \o q)[i] = "news" /\ (p \o q)[j] = "news"
    BY <1>1 DEF Sorted
  <2>1. CASE j <= Len(p)
    BY <2>1, <1>1 DEF Sorted
  <2>2. CASE i > Len(p)
    <3>1. i - Len(p) \in 1 .. Len(q) /\ j - Len(p) \in 1 .. Len(q) /\ i - Len(p) < j - Len(p)
      BY <2>2, <1>1
    <3> QED
      BY <2>2, <3>1, <1>1 DEF Sorted
  <2>3. CASE i <= Len(p) /\ j > Len(p)
    <3>1. (p \o q)[i] \in Steps(p) /\ (p \o q)[j] \in Steps(q)
      BY <2>3, <1>1 DEF Steps
    <3> QED
      BY <3>1
  <2> QED
    BY <2>1, <2>2, <2>3, <1>1
<1> QED
  BY <1>1, <1>2, <1>3, <1>4, <1>5

(* A program of the given steps.                                           *)
Good(q, S) == q \in Seq(StepName) /\ Sorted(q) /\ Steps(q) = S

LEMMA NoSteps == Good(<<>>, {})
BY EmptyProgram DEF Good

LEMMA OneStep == \A a \in StepName : Good(<<a>>, {a})
BY DEF Good, Steps, Sorted

LEMMA Joined ==
  ASSUME NEW p, NEW q, NEW S, NEW T, Good(p, S), Good(q, T),
         \A x \in S, y \in T : Rank[x] < Rank[y]
  PROVE  Good(p \o q, S \cup T)
BY ConcatSteps DEF Good

LEMMA TwoSteps == \A a, b \in StepName : Rank[a] < Rank[b] => Good(<<a, b>>, {a, b})
BY DEF Good, Steps, Sorted

LEMMA ThreeSteps ==
  \A a, b, c \in StepName : Rank[a] < Rank[b] /\ Rank[b] < Rank[c] => Good(<<a, b, c>>, {a, b, c})
<1>1. ASSUME NEW a \in StepName, NEW b \in StepName, NEW c \in StepName, Rank[a] < Rank[b], Rank[b] < Rank[c]
      PROVE  Good(<<a, b, c>>, {a, b, c})
  <2>1. Rank[a] < Rank[c]
    BY <1>1, RankTyped
  <2>2. Steps(<<a, b, c>>) = {a, b, c}
    BY DEF Steps
  <2> QED
    BY <1>1, <2>1, <2>2 DEF Good, Sorted
<1> QED
  BY <1>1

LEMMA FourSteps ==
  ASSUME NEW a \in StepName, NEW b \in StepName, NEW c \in StepName, NEW d \in StepName,
         Rank[a] < Rank[b], Rank[b] < Rank[c], Rank[c] < Rank[d]
  PROVE  Good(<<a, b, c, d>>, {a, b, c, d})
<1>1. Rank[a] < Rank[c] /\ Rank[a] < Rank[d] /\ Rank[b] < Rank[d]
  BY RankTyped
<1>2. Steps(<<a, b, c, d>>) = {a, b, c, d}
  BY DEF Steps
<1> QED
  BY <1>1, <1>2 DEF Good, Sorted

-----------------------------------------------------------------------------
(* The inductive invariant.  Due are the steps that the holder of          *)
(* voice_transition has left.                                              *)
Due  == Steps(op.todo)
Mine == ses[op.s]

Event == {"news", "ended", "over"} \X (0 .. MaxInteractions)

SesSet ==
  [state : Live \cup {"none", "CLOSED", "FAILED"}, active : 0 .. MaxInteractions,
   committed : BOOLEAN, said : BOOLEAN, provider : BOOLEAN,
   consumer : {"none", "reading", "failing", "ending", "dead"},
   serving : SUBSET Talk, retired : Seq(Talk), stale : BOOLEAN, queue : Seq(Event),
   over : BOOLEAN, stopped : BOOLEAN,
   closing : {"no", "asked", "running", "unlisting", "done"}]

ConSet ==
  [at : {"new", "opening", "registered", "open", "leaving", "gone"},
   cmd : {"none", "start", "cancel", "interrupt"}, id : 0 .. MaxInteractions, committed : BOOLEAN]

OpSet ==
  [s : Session, by : {"client", "close", "consumer"}, to : {"none", "INTERRUPTED", "FAILED"},
   todo : Seq(StepName)]

Bounded(r) == Len(r.queue) <= QueueLimit /\ Len(r.retired) <= RetiredLimit

SesOK   == ses \in [Session -> SesSet] /\ \A x \in Session : Bounded(ses[x])
ConOK   == con \in [Session -> ConSet]
OpOK    == op \in OpSet /\ Sorted(op.todo)
TurnsOK == voiceTurn \in [Talk -> Terminal \cup {"none", "PROCESSING"}]
RestOK ==
  /\ entry \in Session \cup {"none"} /\ gate \in Session \cup {"none"}
  /\ lease \in BOOLEAN /\ text \in BOOLEAN
  /\ interactions \in 0 .. MaxInteractions /\ failures \in 0 .. MaxErrors /\ errors \in 0 .. MaxErrors

Typed == SesOK /\ ConOK /\ OpOK /\ TurnsOK /\ RestOK

(* Which steps belong to whom, and which come with which.                  *)
ByClient   == {"interrupt", "retire", "check", "reseed", "start", "announce", "undo"}
ByConsumer == {"persist", "news", "complete", "count", "fail", "unlist"}

ProgramOK ==
  /\ Due \cap ByClient # {} => op.by = "client"
  /\ Due \cap ByConsumer # {} => op.by = "consumer"
  /\ "shut" \in Due => op.by = "close"
  /\ Due \cap {"dismiss", "over"} # {} => op.by # "client"
  /\ Due \cap {"persist", "news"} # {} => Due \subseteq {"persist", "news"}
  /\ "undo" \in Due => Due = {"undo"}
  /\ Due \cap {"check", "reseed"} # {} => "start" \in Due
  /\ "start" \in Due => "announce" \in Due
  /\ {"retire", "announce"} \subseteq Due => "start" \in Due
  /\ "interrupt" \in Due => "retire" \in Due
  /\ Due \cap {"end", "complete"} # {} => Due \cap {"retire", "dismiss"} # {}
  /\ "complete" \in Due => "dismiss" \in Due /\ "end" \notin Due
  /\ "end" \in Due => op.to \in {"INTERRUPTED", "FAILED"}

(* What the steps that are due may rely on, in their session.              *)
TurnDue ==
  /\ Due \cap {"retire", "dismiss"} # {} => Mine.active # 0
  /\ Due \cap {"retire", "dismiss"} # {} /\ Due \cap {"end", "complete"} = {}
       => voiceTurn[Mine.active] # "PROCESSING"
  /\ "complete" \in Due => voiceTurn[Mine.active] = "PROCESSING" /\ Mine.said
  /\ "persist" \in Due => Mine.active # 0 /\ voiceTurn[Mine.active] = "none"
StartDue ==
  /\ "start" \in Due => interactions < MaxInteractions /\ ("retire" \in Due \/ Mine.active = 0)
  /\ Due \cap {"announce", "undo"} # {} => Mine.state \in Live
  /\ "announce" \in Due /\ "start" \notin Due => Mine.active # 0 /\ voiceTurn[Mine.active] = "none"
  /\ "undo" \in Due => Mine.active = 0 \/ voiceTurn[Mine.active] = "none"
EndDue ==
  /\ Due \cap {"fail", "shut"} # {} /\ "dismiss" \notin Due => Mine.active = 0
  /\ "over" \in Due /\ Due \cap {"fail", "shut"} = {} => Mine.state \in {"CLOSED", "FAILED"}
  /\ "unlist" \in Due /\ "fail" \notin Due => Mine.state = "FAILED"
  /\ Due # {} => Mine.state # "none"
  /\ Due # {} /\ op.by = "client" => con[op.s].at \notin {"new", "opening", "registered"}

(* A session and its connection; who opens a session holds the gate.       *)
Opening == {"opening", "registered"}

SessionOK(x) ==
  /\ ses[x].active # 0 <=> ses[x].state = "ACTIVE"
  /\ ses[x].active <= interactions
  /\ ses[x].state = "none" => ses[x].closing = "no" /\ ~ses[x].provider
  /\ ses[x].closing \in {"unlisting", "done"} => ses[x].state \notin Live \/ errors > 0
  /\ con[x].at \in {"new", "opening"} => ses[x].state = "none"
  /\ con[x].at \in {"registered", "open"} => ses[x].state # "none"
  /\ con[x].at \in Opening \cup {"new"} => ses[x].active = 0
  /\ con[x].at \in Opening <=> gate = x
  /\ con[x].at = "opening" => entry = "none"
  /\ con[x].cmd # "none" => con[x].at = "open"

FreshOK == \A i \in Talk : i > interactions => voiceTurn[i] = "none"

(* One holder of the lease at most, and the lease is taken.                *)
Holds(x) ==
  \/ con[x].at \in Opening
  \/ ses[x].active # 0
  \/ op.s = x /\ Due \cap {"announce", "undo"} # {}

LeaseOK ==
  /\ \A x \in Session : Holds(x) => lease
  /\ \A x, y \in Session : Holds(x) /\ Holds(y) => x = y

(* The lease, while it is taken, has a holder; only an undone start may    *)
(* lose it.                                                                *)
LeaseHasHolder == lease => \E x \in Session : Holds(x)
LeaseKept == LeaseHasHolder /\ ~At("undo") => LeaseHasHolder'

SessionsOK == \A x \in Session : SessionOK(x)

RealtimeInv ==
  /\ Typed /\ ProgramOK /\ TurnDue /\ StartDue /\ EndDue
  /\ SessionsOK /\ FreshOK /\ TurnAttended /\ LeaseOK

-----------------------------------------------------------------------------
(* The program of a transition as its steps are taken.                     *)
LEMMA NoOpTyped ==
  ASSUME RealtimeAssumption
  PROVE  NoOp \in OpSet /\ NoOp.todo = <<>> /\ NoOp.by = "client"
<1>1. (CHOOSE s \in Session : TRUE) \in Session
  BY DEF RealtimeAssumption
<1> QED
  BY <1>1, EmptyProgram DEF NoOp, OpSet

LEMMA RunningDue == ASSUME OpOK PROVE (Running <=> Due # {}) /\ Due \subseteq StepName
BY StepsTyped DEF OpOK, OpSet, Running, Due

LEMMA NextDue ==
  ASSUME OpOK, NEW x, At(x)
  PROVE  /\ x \in Due /\ x \in StepName /\ Running
         /\ \A y \in Due : y = x \/ Rank[x] < Rank[y]
<1>1. op.todo \in Seq(StepName) /\ op.todo # <<>> /\ Sorted(op.todo) /\ Head(op.todo) = x
  BY DEF OpOK, OpSet, At, Running
<1> QED
  BY <1>1, TailSteps, StepsTyped DEF Due, At

LEMMA Continues ==
  ASSUME RealtimeAssumption, OpOK, NEW x, At(x), Continue
  PROVE  /\ OpOK'
         /\ x # "news" => Due' = Due \ {x}
         /\ Due' \subseteq Due /\ Due \subseteq Due' \cup {x}
         /\ Due' # {} => op'.s = op.s /\ op'.by = op.by /\ op'.to = op.to
         /\ Len(op.todo) = 1 <=> Due' = {}
<1>1. op.todo \in Seq(StepName) /\ op.todo # <<>> /\ Sorted(op.todo) /\ Head(op.todo) = x
  BY DEF OpOK, OpSet, At, Running
<1>2. /\ Tail(op.todo) \in Seq(StepName) /\ Sorted(Tail(op.todo))
      /\ x # "news" => Steps(Tail(op.todo)) = Due \ {x}
      /\ Steps(Tail(op.todo)) \subseteq Due /\ Due \subseteq Steps(Tail(op.todo)) \cup {x}
      /\ Len(op.todo) = 1 <=> Tail(op.todo) = <<>>
  BY <1>1, TailSteps DEF Due
<1>3. Steps(Tail(op.todo)) = {} <=> Tail(op.todo) = <<>>
  BY <1>2, StepsTyped
<1>4. CASE Len(op.todo) = 1
  <2>1. op' = NoOp
    BY <1>4 DEF Continue, Done
  <2>2. OpOK' /\ Due' = {}
    BY <2>1, NoOpTyped, EmptyProgram DEF OpOK, Due
  <2> QED
    BY <1>2, <1>3, <1>4, <2>2
<1>5. CASE Len(op.todo) # 1
  <2>1. op' = [op EXCEPT !.todo = Tail(op.todo)]
    BY <1>5 DEF Continue, Rest
  <2>2. op' \in OpSet /\ op'.todo = Tail(op.todo) /\ op'.s = op.s /\ op'.by = op.by /\ op'.to = op.to
    BY <1>2, <2>1 DEF OpOK, OpSet
  <2>3. OpOK' /\ Due' = Steps(Tail(op.todo))
    BY <1>2, <2>2 DEF OpOK, Due
  <2> QED
    BY <1>2, <1>3, <1>5, <2>2, <2>3
<1> QED
  BY <1>4, <1>5

LEMMA Stops == ASSUME RealtimeAssumption, Done PROVE OpOK' /\ Due' = {} /\ op'.by = "client"
BY NoOpTyped, EmptyProgram DEF Done, OpOK, Due

LEMMA Runs ==
  ASSUME NEW s \in Session, NEW by \in {"client", "close", "consumer"},
         NEW to \in {"none", "INTERRUPTED", "FAILED"}, NEW todo, NEW S,
         Run(s, by, to, todo), Good(todo, S)
  PROVE  OpOK' /\ Due' = S /\ op'.s = s /\ op'.by = by /\ op'.to = to
BY DEF Run, Good, OpOK, OpSet, Due

(* Going on keeps the program one of those that transitions run.           *)
LEMMA ProgramContinues ==
  ASSUME RealtimeAssumption, OpOK, ProgramOK, NEW x, At(x), Continue
  PROVE  ProgramOK'
<1>1. /\ x \in Due /\ \A y \in Due : y = x \/ Rank[x] < Rank[y]
      /\ Due' \subseteq Due /\ (x # "news" => Due' = Due \ {x})
      /\ Due' # {} => op'.by = op.by /\ op'.to = op.to
  BY NextDue, Continues
<1>2. CASE x = "news"
  <2>1. Due' \subseteq {"persist", "news"}
    BY <1>1, <1>2 DEF ProgramOK
  <2>2. Due' # {} => op'.by = "consumer"
    BY <1>1, <1>2 DEF ProgramOK, ByConsumer
  <2> QED
    BY <2>1, <2>2 DEF ProgramOK, ByClient, ByConsumer
<1>3. CASE x # "news"
  <2>1. Due' = Due \ {x}
    BY <1>1, <1>3
  <2>2. /\ x = "start" => "check" \notin Due /\ "reseed" \notin Due /\ "retire" \notin Due
        /\ x = "announce" => "start" \notin Due
        /\ x = "retire" => "interrupt" \notin Due /\ "end" \notin Due /\ "complete" \notin Due
        /\ x = "dismiss" => "end" \notin Due /\ "complete" \notin Due
    BY <1>1 DEF Rank
  <2>3. /\ Due' \cap ByClient # {} => op'.by = "client"
        /\ Due' \cap ByConsumer # {} => op'.by = "consumer"
        /\ "shut" \in Due' => op'.by = "close"
        /\ Due' \cap {"dismiss", "over"} # {} => op'.by # "client"
        /\ "end" \in Due' => op'.to \in {"INTERRUPTED", "FAILED"}
    BY <1>1 DEF ProgramOK
  <2>4. /\ Due' \cap {"persist", "news"} # {} => Due' \subseteq {"persist", "news"}
        /\ "undo" \in Due' => Due' = {"undo"}
        /\ Due' \cap {"check", "reseed"} # {} => "start" \in Due'
        /\ "start" \in Due' => "announce" \in Due'
        /\ {"retire", "announce"} \subseteq Due' => "start" \in Due'
        /\ "interrupt" \in Due' => "retire" \in Due'
    BY <1>1, <2>1, <2>2 DEF ProgramOK
  <2>5. /\ Due' \cap {"end", "complete"} # {} => Due' \cap {"retire", "dismiss"} # {}
        /\ "complete" \in Due' => "dismiss" \in Due' /\ "end" \notin Due'
    BY <1>1, <2>1, <2>2 DEF ProgramOK
  <2> QED
    BY <2>3, <2>4, <2>5 DEF ProgramOK
<1> QED
  BY <1>2, <1>3

LEMMA NothingDue == ASSUME Due = {} PROVE ProgramOK /\ TurnDue /\ StartDue /\ EndDue
BY DEF ProgramOK, TurnDue, StartDue, EndDue

(* One session changes, or one connection.                                 *)
LEMMA OneSession ==
  ASSUME SesOK, NEW s \in Session, NEW r \in SesSet, Bounded(r), ses' = [ses EXCEPT ![s] = r]
  PROVE  SesOK' /\ ses'[s] = r /\ \A x \in Session : x # s => ses'[x] = ses[x]
BY DEF SesOK, Bounded

LEMMA OneConnection ==
  ASSUME ConOK, NEW s \in Session, NEW c \in ConSet, con' = [con EXCEPT ![s] = c]
  PROVE  ConOK' /\ con'[s] = c /\ \A x \in Session : x # s => con'[x] = con[x]
BY DEF ConOK

LEMMA SessionTyped == ASSUME SesOK, NEW s \in Session PROVE ses[s] \in SesSet /\ Bounded(ses[s])
BY DEF SesOK

-----------------------------------------------------------------------------
(* Steps that leave alone what the invariant speaks of.  A connection that *)
(* is not opening its session may go; a session may be asked to close, and *)
(* is past its closing only when it has ended or a write has failed.       *)
SameSession(x) ==
  /\ ses'[x].state = ses[x].state /\ ses'[x].active = ses[x].active
  /\ ses[x].said => ses'[x].said
  /\ ses'[x].provider => ses[x].provider \/ ses[x].state # "none"

SameConnection(x) ==
  /\ con'[x].at = con[x].at \/ (con[x].at \notin Opening /\ con'[x].at \in {"leaving", "gone"})
  /\ con'[x].cmd # "none" => con'[x].at = "open"

ClosingMoves(x) ==
  ses'[x].closing # ses[x].closing =>
    /\ ses[x].state # "none"
    /\ ses'[x].closing \in {"unlisting", "done"} =>
         ses[x].closing \in {"unlisting", "done"} \/ ses[x].state \notin Live \/ errors' > 0

LEMMA QuietSession ==
  ASSUME NEW x \in Session, SessionOK(x), SameSession(x), SameConnection(x), ClosingMoves(x),
         gate' = gate, entry' = entry \/ entry' = "none",
         interactions \in Nat, interactions' = interactions, errors \in Nat, errors' \in Nat, errors' >= errors
  PROVE  SessionOK(x)'
<1> USE DEF SessionOK, SameSession
<1>1. /\ ses'[x].active # 0 <=> ses'[x].state = "ACTIVE"
      /\ ses'[x].active <= interactions'
  OBVIOUS
<1>2. /\ ses'[x].state = "none" => ses'[x].closing = "no" /\ ~ses'[x].provider
      /\ ses'[x].closing \in {"unlisting", "done"} => ses'[x].state \notin Live \/ errors' > 0
  BY DEF ClosingMoves
<1>3. /\ con'[x].at \in {"new", "opening"} => ses'[x].state = "none"
      /\ con'[x].at \in {"registered", "open"} => ses'[x].state # "none"
      /\ con'[x].at \in Opening \cup {"new"} => ses'[x].active = 0
      /\ con'[x].at \in Opening <=> gate' = x
      /\ con'[x].at = "opening" => entry' = "none"
      /\ con'[x].cmd # "none" => con'[x].at = "open"
  BY DEF SameConnection, Opening
<1> QED
  BY <1>1, <1>2, <1>3

LEMMA BoundsAreNumbers ==
  ASSUME RealtimeAssumption, RestOK
  PROVE  interactions \in Nat /\ failures \in Nat /\ errors \in Nat
BY DEF RealtimeAssumption, RestOK

LEMMA QuietSessions ==
  ASSUME RealtimeAssumption, RealtimeInv, RestOK',
         \A x \in Session : SameSession(x) /\ SameConnection(x) /\ ClosingMoves(x),
         UNCHANGED <<voiceTurn, gate, interactions>>, entry' = entry \/ entry' = "none",
         errors' >= errors
  PROVE  SessionsOK' /\ FreshOK' /\ TurnAttended'
<1>1. interactions \in Nat /\ errors \in Nat /\ errors' \in Nat
  BY BoundsAreNumbers DEF RealtimeInv, Typed, RealtimeAssumption, RestOK
<1>2. SessionsOK'
  <2>1. ASSUME NEW x \in Session PROVE SessionOK(x)'
    BY <1>1, <2>1, QuietSession DEF RealtimeInv, SessionsOK
  <2> QED
    BY <2>1 DEF SessionsOK
<1>3. FreshOK'
  BY DEF RealtimeInv, FreshOK
<1>4. TurnAttended'
  BY DEF RealtimeInv, TurnAttended, SameSession
<1> QED
  BY <1>2, <1>3, <1>4

LEMMA QuietDue ==
  ASSUME RealtimeInv, \A x \in Session : SameSession(x) /\ SameConnection(x),
         UNCHANGED <<voiceTurn, op, interactions>>
  PROVE  ProgramOK' /\ TurnDue' /\ StartDue' /\ EndDue'
<1>1. op.s \in Session /\ op' = op /\ Due' = Due
  BY DEF RealtimeInv, Typed, OpOK, OpSet, Due
<1>2. SameSession(op.s) /\ SameConnection(op.s)
  BY <1>1
<1>3. ProgramOK'
  BY <1>1 DEF RealtimeInv, ProgramOK
<1>4. TurnDue'
  BY <1>1, <1>2 DEF RealtimeInv, TurnDue, Mine, SameSession
<1>5. StartDue'
  BY <1>1, <1>2 DEF RealtimeInv, StartDue, Mine, SameSession
<1>6. EndDue'
  BY <1>1, <1>2 DEF RealtimeInv, EndDue, Mine, SameSession, SameConnection, Opening
<1> QED
  BY <1>3, <1>4, <1>5, <1>6

LEMMA QuietLease ==
  ASSUME RealtimeInv, \A x \in Session : SameSession(x) /\ SameConnection(x), lease' = lease,
         \/ op' = op
         \/ Due' \cap {"announce", "undo"} = {}
         \/ op'.s = op.s /\ Due \cap {"announce", "undo"} # {}
  PROVE  LeaseOK'
<1>1. ASSUME NEW x \in Session, Holds(x)' PROVE Holds(x)
  <2>1. CASE con'[x].at \in Opening
    BY <2>1 DEF SameConnection, Holds, Opening
  <2>2. CASE ses'[x].active # 0
    BY <2>2 DEF SameSession, Holds
  <2>3. CASE op'.s = x /\ Due' \cap {"announce", "undo"} # {}
    BY <2>3 DEF Holds, Due
  <2> QED
    BY <1>1, <2>1, <2>2, <2>3 DEF Holds
<1> QED
  BY <1>1 DEF RealtimeInv, LeaseOK

LEMMA HoldersStay ==
  ASSUME RealtimeInv, \A x \in Session : SameSession(x) /\ SameConnection(x), lease' = lease,
         \/ op' = op
         \/ Due \cap {"announce", "undo"} = {}
         \/ op'.s = op.s /\ Due' \cap {"announce", "undo"} # {}
         \/ ses[op.s].active # 0
  PROVE  LeaseKept
<1> SUFFICES ASSUME NEW x \in Session, Holds(x) PROVE \E y \in Session : Holds(y)'
  BY DEF LeaseKept, LeaseHasHolder
<1>1. op.s \in Session
  BY DEF RealtimeInv, Typed, OpOK, OpSet
<1>2. CASE con[x].at \in Opening
  <2>1. con'[x].at \in Opening
    BY <1>2 DEF SameConnection
  <2> QED
    BY <2>1 DEF Holds
<1>3. CASE ses[x].active # 0
  <2>1. ses'[x].active # 0
    BY <1>3 DEF SameSession
  <2> QED
    BY <2>1 DEF Holds
<1>4. CASE op.s = x /\ Due \cap {"announce", "undo"} # {}
  <2>1. CASE ses[op.s].active # 0
    BY <1>1, <1>3, <1>4, <2>1
  <2>2. CASE op'.s = op.s /\ Due' \cap {"announce", "undo"} # {}
    BY <1>4, <2>2 DEF Holds
  <2>3. CASE op' = op
    BY <1>4, <2>3 DEF Holds, Due
  <2> QED
    BY <1>4, <2>1, <2>2, <2>3
<1> QED
  BY <1>2, <1>3, <1>4 DEF Holds

LEMMA Quiet ==
  ASSUME RealtimeAssumption, RealtimeInv, SesOK', ConOK', RestOK',
         \A x \in Session : SameSession(x) /\ SameConnection(x) /\ ClosingMoves(x),
         UNCHANGED <<voiceTurn, gate, op, lease, interactions>>, entry' = entry \/ entry' = "none",
         errors' >= errors
  PROVE  RealtimeInv' /\ LeaseKept
<1>1. Typed'
  BY DEF RealtimeInv, Typed, OpOK, TurnsOK
<1>2. ProgramOK' /\ TurnDue' /\ StartDue' /\ EndDue'
  BY QuietDue
<1>3. SessionsOK' /\ FreshOK' /\ TurnAttended'
  BY QuietSessions
<1>4. LeaseOK'
  BY QuietLease
<1>5. LeaseKept
  BY HoldersStay
<1> QED
  BY <1>1, <1>2, <1>3, <1>4, <1>5 DEF RealtimeInv

-----------------------------------------------------------------------------
(* What is done to the record of one session, and to its connection.       *)
LEMMA EmptyQueue == ASSUME NEW S PROVE <<>> \in Seq(S) /\ Len(<<>>) = 0
BY EmptySeq

LEMMA StoppedTyped ==
  ASSUME RealtimeAssumption, NEW r \in SesSet, Bounded(r)
  PROVE  /\ Stopped(r) \in SesSet /\ Bounded(Stopped(r))
         /\ Stopped(r).state = r.state /\ Stopped(r).active = r.active /\ Stopped(r).said = r.said /\ Stopped(r).provider = r.provider
         /\ Stopped(r).closing = r.closing
<1>1. <<>> \in Seq(Event) /\ Len(<<>>) = 0 /\ 0 <= QueueLimit
  BY EmptyQueue DEF RealtimeAssumption
<1> DEFINE q == Stopped(r)
<1>2. q = [r EXCEPT !.stopped = TRUE, !.queue = <<>>]
  BY DEF Stopped
<1>3. q \in SesSet
  BY <1>1, <1>2 DEF SesSet
<1>4. /\ q.queue = <<>> /\ q.retired = r.retired
      /\ q.state = r.state /\ q.active = r.active /\ q.said = r.said /\ q.provider = r.provider /\ q.closing = r.closing
  BY <1>2 DEF SesSet
<1>5. Bounded(q)
  BY <1>1, <1>4 DEF Bounded
<1> QED
  BY <1>3, <1>4, <1>5

LEMMA AskingTyped ==
  ASSUME NEW r \in SesSet, Bounded(r)
  PROVE  /\ Asking(r) \in SesSet /\ Bounded(Asking(r))
         /\ Asking(r).state = r.state /\ Asking(r).active = r.active /\ Asking(r).said = r.said /\ Asking(r).provider = r.provider
         /\ Asking(r).closing # "no"
         /\ Asking(r).closing = r.closing \/ Asking(r).closing = "asked"
BY DEF Asking, SesSet, Bounded

LEMMA ConnectionsTyped ==
  ASSUME RealtimeAssumption
  PROVE  NoConnection \in ConSet /\ Gone \in ConSet
         /\ Gone.at = "gone" /\ Gone.cmd = "none"
         /\ [NoConnection EXCEPT !.at = "leaving"] \in ConSet
<1>1. 0 \in 0 .. MaxInteractions
  BY DEF RealtimeAssumption
<1> QED
  BY <1>1 DEF NoConnection, Gone, ConSet

LEMMA LeftTyped ==
  ASSUME RealtimeAssumption, ConOK, NEW s \in Session, con' = Left(s)
  PROVE  /\ ConOK' /\ con'[s].at = "leaving" /\ con'[s].cmd = "none"
         /\ \A x \in Session : x # s => con'[x] = con[x]
<1>1. [NoConnection EXCEPT !.at = "leaving"] \in ConSet
  BY ConnectionsTyped
<1>2. con' = [con EXCEPT ![s] = [NoConnection EXCEPT !.at = "leaving"]]
  BY DEF Left
<1>3. [NoConnection EXCEPT !.at = "leaving"].at = "leaving" /\ [NoConnection EXCEPT !.at = "leaving"].cmd = "none"
  BY DEF NoConnection
<1> QED
  BY <1>1, <1>2, <1>3, OneConnection

LEMMA SameElsewhere ==
  ASSUME RealtimeInv, NEW x \in Session
  PROVE  /\ ses'[x] = ses[x] => SameSession(x) /\ ClosingMoves(x)
         /\ con'[x] = con[x] => SameConnection(x)
BY DEF RealtimeInv, SessionsOK, SessionOK, SameSession, ClosingMoves, SameConnection

(* One session changes in what the invariant does not speak of.            *)
LEMMA OneQuiet ==
  ASSUME RealtimeInv, NEW s \in Session, NEW r \in SesSet, Bounded(r), ses' = [ses EXCEPT ![s] = r],
         r.state = ses[s].state, r.active = ses[s].active, ses[s].said => r.said,
         r.provider => ses[s].provider \/ ses[s].state # "none",
         r.closing = ses[s].closing
           \/ (ses[s].state # "none" /\ (r.closing \in {"unlisting", "done"} =>
                ses[s].closing \in {"unlisting", "done"} \/ ses[s].state \notin Live \/ errors' > 0))
  PROVE  SesOK' /\ \A x \in Session : SameSession(x) /\ ClosingMoves(x)
<1>1. SesOK' /\ ses'[s] = r /\ \A x \in Session : x # s => ses'[x] = ses[x]
  BY OneSession DEF RealtimeInv, Typed
<1>2. SameSession(s) /\ ClosingMoves(s)
  BY <1>1 DEF SameSession, ClosingMoves
<1> QED
  BY <1>1, <1>2, SameElsewhere

LEMMA OneGoes ==
  ASSUME RealtimeAssumption, RealtimeInv, NEW s \in Session, NEW c \in ConSet, con' = [con EXCEPT ![s] = c],
         \/ c.at = con[s].at
         \/ con[s].at \notin Opening /\ c.at \in {"leaving", "gone"},
         c.cmd # "none" => c.at = "open"
  PROVE  ConOK' /\ \A x \in Session : SameConnection(x)
<1>1. ConOK' /\ con'[s] = c /\ \A x \in Session : x # s => con'[x] = con[x]
  BY OneConnection DEF RealtimeInv, Typed
<1>2. SameConnection(s)
  BY <1>1 DEF SameConnection
<1> QED
  BY <1>1, <1>2, SameElsewhere

LEMMA NoneChange == ASSUME RealtimeInv PROVE
         /\ ses' = ses => SesOK' /\ \A x \in Session : SameSession(x) /\ ClosingMoves(x)
         /\ con' = con => ConOK' /\ \A x \in Session : SameConnection(x)
BY SameElsewhere DEF RealtimeInv, Typed, SesOK, ConOK

LEMMA LeavesQuietly ==
  ASSUME RealtimeAssumption, RealtimeInv, NEW s \in Session, NEW r \in SesSet, Bounded(r), LeavingAs(s, r),
         r.state = ses[s].state, r.active = ses[s].active, r.said = ses[s].said,
         r.provider = ses[s].provider, r.closing = ses[s].closing, con[s].at \notin Opening, ses[s].state # "none"
  PROVE  /\ SesOK' /\ ConOK'
         /\ \A x \in Session : SameSession(x) /\ SameConnection(x) /\ ClosingMoves(x)
<1> DEFINE q == Asking(Stopped(r))
<1>1. /\ q \in SesSet /\ Bounded(q)
      /\ q.state = ses[s].state /\ q.active = ses[s].active /\ q.said = ses[s].said /\ q.provider = ses[s].provider
      /\ q.closing = ses[s].closing \/ q.closing = "asked"
  BY StoppedTyped, AskingTyped
<1>2. ses' = [ses EXCEPT ![s] = q]
  BY DEF LeavingAs
<1> HIDE DEF q
<1>3. SesOK' /\ \A x \in Session : SameSession(x) /\ ClosingMoves(x)
  BY <1>1, <1>2, OneQuiet
<1>4. [NoConnection EXCEPT !.at = "leaving"] \in ConSet
      /\ con' = [con EXCEPT ![s] = [NoConnection EXCEPT !.at = "leaving"]]
  BY ConnectionsTyped DEF LeavingAs, Left
<1>5. ConOK' /\ \A x \in Session : SameConnection(x)
  BY <1>4, OneGoes DEF NoConnection
<1> QED
  BY <1>3, <1>5

Counted == interactions' = interactions /\ failures' \in 0 .. MaxErrors /\ errors' \in 0 .. MaxErrors /\ errors' >= errors

LEMMA CountsMove ==
  ASSUME RealtimeAssumption, RestOK,
         UNCHANGED counts \/ ProviderFails \/ WriteFails \/ FaultOnClose
  PROVE  Counted /\ (WriteFails => errors' > 0)
<1>1. UNCHANGED counts => Counted
  BY DEF RealtimeAssumption, RestOK, Counted, counts
<1>2. ProviderFails => Counted
  BY DEF RealtimeAssumption, RestOK, Counted, ProviderFails, MayFail
<1>3. WriteFails => Counted /\ errors' > 0
  BY DEF RealtimeAssumption, RestOK, Counted, WriteFails, MayFail
<1>4. FaultOnClose => Counted
  BY <1>1, <1>2 DEF FaultOnClose
<1> QED
  BY <1>1, <1>2, <1>3, <1>4

LEMMA CountedRest ==
  ASSUME RealtimeAssumption, RestOK, Counted, entry' \in Session \cup {"none"}, gate' \in Session \cup {"none"},
         lease' \in BOOLEAN, text' \in BOOLEAN
  PROVE  RestOK'
BY DEF RestOK, Counted

LEMMA OpenStands ==
  ASSUME RealtimeInv, NEW s \in Session
  PROVE  /\ con[s].at = "open" => ses[s].state # "none" /\ con[s].at \notin Opening
         /\ con[s].cmd # "none" => con[s].at = "open"
BY DEF RealtimeInv, SessionsOK, SessionOK, Opening

(* A step that changes neither the transition nor the lease.               *)
LEMMA Aside ==
  ASSUME RealtimeAssumption, RealtimeInv, SesOK', ConOK',
         \A x \in Session : SameSession(x) /\ SameConnection(x) /\ ClosingMoves(x),
         UNCHANGED <<voiceTurn, gate, op, lease>>, entry' = entry \/ entry' = "none", text' \in BOOLEAN,
         UNCHANGED counts \/ ProviderFails
  PROVE  RealtimeInv' /\ LeaseKept
<1>1. RestOK
  BY DEF RealtimeInv, Typed
<1>2. Counted
  BY <1>1, CountsMove
<1>3. RestOK'
  BY <1>1, <1>2, CountedRest DEF RestOK
<1> QED
  BY <1>2, <1>3, Quiet DEF Counted

-----------------------------------------------------------------------------
(* Text, and what happens beside the transitions.                          *)
LEMMA TextPasses == ASSUME RealtimeAssumption, RealtimeInv, TextBegins \/ TextEnds PROVE RealtimeInv' /\ LeaseKept
<1>1. con' = con
  BY DEF TextBegins, TextEnds
<1>2. ConOK' /\ \A x \in Session : SameConnection(x)
  BY <1>1, NoneChange
<1>3. SesOK' /\ \A x \in Session : SameSession(x) /\ ClosingMoves(x)
  <2>1. CASE ses' = ses
    BY <2>1, NoneChange
  <2>2. CASE ses' = [s \in Session |-> [ses[s] EXCEPT !.stale = ses[s].state \in Live]]
    <3>1. ASSUME NEW x \in Session
          PROVE  ses'[x] \in SesSet /\ Bounded(ses'[x]) /\ SameSession(x) /\ ses'[x].closing = ses[x].closing
      <4>1. ses[x] \in SesSet /\ Bounded(ses[x])
        BY SessionTyped DEF RealtimeInv, Typed
      <4>2. ses'[x] = [ses[x] EXCEPT !.stale = ses[x].state \in Live]
        BY <2>2
      <4>3. ses'[x] \in SesSet
        <5> DEFINE b == ses[x].state \in Live
        <5>1. b \in BOOLEAN
          OBVIOUS
        <5> HIDE DEF b
        <5>2. ses'[x] = [ses[x] EXCEPT !.stale = b]
          BY <4>2 DEF b
        <5> QED
          BY <4>1, <5>1, <5>2 DEF SesSet
      <4>4. ses'[x].queue = ses[x].queue /\ ses'[x].retired = ses[x].retired
        BY <4>1, <4>2 DEF SesSet
      <4> QED
        BY <4>1, <4>2, <4>3, <4>4 DEF Bounded, SameSession, SesSet
    <3>2. ses' \in [Session -> SesSet]
      BY <2>2, <3>1
    <3> QED
      BY <3>1, <3>2 DEF SesOK, ClosingMoves
  <2> QED
    BY <2>1, <2>2 DEF TextBegins, TextEnds
<1>4. UNCHANGED <<voiceTurn, gate, op, lease, counts>> /\ entry' = entry /\ text' \in BOOLEAN
  BY DEF TextBegins, TextEnds
<1> QED
  BY <1>2, <1>3, <1>4, Aside

LEMMA CommandStep ==
  ASSUME RealtimeAssumption, RealtimeInv, NEW s \in Session, NEW cmd \in {"start", "cancel", "interrupt"},
         Command(s, cmd)
  PROVE  RealtimeInv' /\ LeaseKept
<1>1. con[s] \in ConSet
  BY DEF RealtimeInv, Typed, ConOK
<1> DEFINE c == [con[s] EXCEPT !.cmd = cmd]
<1>2. c \in ConSet /\ c.at = con[s].at /\ c.at = "open" /\ con' = [con EXCEPT ![s] = c]
  BY <1>1 DEF ConSet, Command, Idle
<1> HIDE DEF c
<1>3. ConOK' /\ \A x \in Session : SameConnection(x)
  BY <1>2, OneGoes
<1>4. SesOK' /\ \A x \in Session : SameSession(x) /\ ClosingMoves(x)
  BY NoneChange DEF Command
<1>5. UNCHANGED <<voiceTurn, gate, op, lease, counts>> /\ entry' = entry /\ text' \in BOOLEAN
  BY DEF Command, RealtimeInv, Typed, RestOK
<1> QED
  BY <1>3, <1>4, <1>5, Aside

LEMMA DisconnectStep ==
  ASSUME RealtimeAssumption, RealtimeInv, NEW s \in Session, Disconnect(s) \/ Refused(s)
  PROVE  RealtimeInv' /\ LeaseKept
<1>1. LeavingAs(s, ses[s]) /\ con[s].at = "open"
  BY OpenStands DEF Disconnect, Refused, Idle, Leaving
<1>2. ses[s] \in SesSet /\ Bounded(ses[s])
  BY SessionTyped DEF RealtimeInv, Typed
<1>3. /\ SesOK' /\ ConOK'
      /\ \A x \in Session : SameSession(x) /\ SameConnection(x) /\ ClosingMoves(x)
  BY <1>1, <1>2, OpenStands, LeavesQuietly
<1>4. UNCHANGED <<voiceTurn, gate, op, lease, counts>> /\ entry' = entry /\ text' \in BOOLEAN
  BY DEF Disconnect, Refused, RealtimeInv, Typed, RestOK
<1> QED
  BY <1>3, <1>4, Aside

LEMMA ClientClosesStep ==
  ASSUME RealtimeAssumption, RealtimeInv, NEW s \in Session, ClientCloses(s)
  PROVE  RealtimeInv' /\ LeaseKept
<1>1. con[s].at = "open" /\ con' = Left(s)
  BY DEF ClientCloses, Idle
<1>2. ses[s] \in SesSet /\ Bounded(ses[s])
  BY SessionTyped DEF RealtimeInv, Typed
<1>3. SesOK' /\ \A x \in Session : SameSession(x) /\ ClosingMoves(x)
  <2> DEFINE q == Asking(ses[s])
  <2>1. /\ q \in SesSet /\ Bounded(q)
        /\ q.state = ses[s].state /\ q.active = ses[s].active /\ q.said = ses[s].said /\ q.provider = ses[s].provider
        /\ q.closing = ses[s].closing \/ q.closing = "asked"
    BY <1>2, AskingTyped
  <2>2. ses' = [ses EXCEPT ![s] = q]
    BY DEF ClientCloses
  <2> HIDE DEF q
  <2> QED
    BY <1>1, <2>1, <2>2, OneQuiet, OpenStands
<1>4. ConOK' /\ \A x \in Session : SameConnection(x)
  <2>1. ConOK' /\ con'[s].at = "leaving" /\ con'[s].cmd = "none" /\ \A x \in Session : x # s => con'[x] = con[x]
    BY <1>1, LeftTyped DEF RealtimeInv, Typed
  <2>2. SameConnection(s)
    BY <1>1, <2>1, OpenStands DEF SameConnection
  <2> QED
    BY <2>1, <2>2, SameElsewhere
<1>5. UNCHANGED <<voiceTurn, gate, op, lease, counts>> /\ entry' = entry /\ text' \in BOOLEAN
  BY DEF ClientCloses, RealtimeInv, Typed, RestOK
<1> QED
  BY <1>3, <1>4, <1>5, Aside

LEMMA CommitStep ==
  ASSUME RealtimeAssumption, RealtimeInv, NEW s \in Session, Commit(s)
  PROVE  RealtimeInv' /\ LeaseKept
<1>1. con[s].at = "open" /\ con[s] \in ConSet
  BY DEF Commit, Idle, RealtimeInv, Typed, ConOK
<1>2. ses[s] \in SesSet /\ Bounded(ses[s])
  BY SessionTyped DEF RealtimeInv, Typed
<1> DEFINE q == [ses[s] EXCEPT !.committed = TRUE]
           c == [con[s] EXCEPT !.committed = TRUE]
<1>3. /\ q \in SesSet /\ q.queue = ses[s].queue /\ q.retired = ses[s].retired
      /\ q.state = ses[s].state /\ q.active = ses[s].active /\ q.said = ses[s].said /\ q.provider = ses[s].provider
      /\ q.closing = ses[s].closing
  BY <1>2 DEF SesSet
<1>4. Bounded(q)
  BY <1>2, <1>3 DEF Bounded
<1>5. c \in ConSet /\ c.at = con[s].at /\ c.cmd = con[s].cmd
  BY <1>1 DEF ConSet
<1>6. /\ SesOK' /\ ConOK'
      /\ \A x \in Session : SameSession(x) /\ SameConnection(x) /\ ClosingMoves(x)
  <2>1. CASE ses' = [ses EXCEPT ![s].committed = TRUE] /\ con' = [con EXCEPT ![s].committed = TRUE]
    <3>1. ses' = [ses EXCEPT ![s] = q] /\ con' = [con EXCEPT ![s] = c]
      BY <2>1
    <3> HIDE DEF q, c
    <3>2. SesOK' /\ \A x \in Session : SameSession(x) /\ ClosingMoves(x)
      BY <1>3, <1>4, <3>1, OneQuiet
    <3>3. c.cmd # "none" => c.at = "open"
      BY <1>5, OpenStands
    <3>4. ConOK' /\ \A x \in Session : SameConnection(x)
      BY <1>5, <3>1, <3>3, OneGoes
    <3> QED
      BY <3>2, <3>4
  <2>2. CASE Leaving(s)
    BY <1>1, <1>2, <2>2, OpenStands, LeavesQuietly DEF Leaving
  <2>3. CASE LeavingAs(s, q)
    <3> HIDE DEF q
    <3> QED
      BY <1>1, <1>3, <1>4, <2>3, OpenStands, LeavesQuietly
  <2> QED
    BY <2>1, <2>2, <2>3 DEF Commit
<1>7. UNCHANGED <<voiceTurn, gate, op, lease>> /\ entry' = entry /\ text' \in BOOLEAN
  BY DEF Commit, RealtimeInv, Typed, RestOK
<1>8. UNCHANGED counts \/ ProviderFails
  BY DEF Commit
<1> QED
  BY <1>6, <1>7, <1>8, Aside

LEMMA StreamEndsStep ==
  ASSUME RealtimeAssumption, RealtimeInv, NEW s \in Session, StreamEnds(s)
  PROVE  RealtimeInv' /\ LeaseKept
<1>1. ses[s] \in SesSet /\ Bounded(ses[s])
  BY SessionTyped DEF RealtimeInv, Typed
<1> DEFINE q == [ses[s] EXCEPT !.consumer = "failing"]
<1>2. /\ q \in SesSet /\ q.queue = ses[s].queue /\ q.retired = ses[s].retired
      /\ q.state = ses[s].state /\ q.active = ses[s].active /\ q.said = ses[s].said /\ q.provider = ses[s].provider
      /\ q.closing = ses[s].closing
  BY <1>1 DEF SesSet
<1>3. Bounded(q) /\ ses' = [ses EXCEPT ![s] = q]
  BY <1>1, <1>2 DEF Bounded, StreamEnds
<1> HIDE DEF q
<1>4. SesOK' /\ \A x \in Session : SameSession(x) /\ ClosingMoves(x)
  BY <1>2, <1>3, OneQuiet
<1>5. ConOK' /\ \A x \in Session : SameConnection(x)
  BY NoneChange DEF StreamEnds
<1>6. UNCHANGED <<voiceTurn, gate, op, lease>> /\ entry' = entry /\ text' \in BOOLEAN /\ ProviderFails
  BY DEF StreamEnds, RealtimeInv, Typed, RestOK
<1> QED
  BY <1>4, <1>5, <1>6, Aside

LEMMA CoreClosesStep ==
  ASSUME RealtimeAssumption, RealtimeInv, NEW s \in Session, CoreCloses(s)
  PROVE  RealtimeInv' /\ LeaseKept
<1>1. ses[s] \in SesSet /\ Bounded(ses[s]) /\ ses[s].state # "none"
  BY SessionTyped DEF RealtimeInv, Typed, CoreCloses, Live
<1> DEFINE q == [ses[s] EXCEPT !.closing = "asked"]
<1>2. /\ q \in SesSet /\ q.queue = ses[s].queue /\ q.retired = ses[s].retired
      /\ q.state = ses[s].state /\ q.active = ses[s].active /\ q.said = ses[s].said /\ q.provider = ses[s].provider
      /\ q.closing = "asked"
  BY <1>1 DEF SesSet
<1>3. Bounded(q) /\ ses' = [ses EXCEPT ![s] = q]
  BY <1>1, <1>2 DEF Bounded, CoreCloses
<1> HIDE DEF q
<1>4. SesOK' /\ \A x \in Session : SameSession(x) /\ ClosingMoves(x)
  BY <1>1, <1>2, <1>3, OneQuiet
<1>5. ConOK' /\ \A x \in Session : SameConnection(x)
  BY NoneChange DEF CoreCloses
<1>6. UNCHANGED <<voiceTurn, gate, op, lease, counts>> /\ entry' = entry /\ text' \in BOOLEAN
  BY DEF CoreCloses, RealtimeInv, Typed, RestOK
<1> QED
  BY <1>4, <1>5, <1>6, Aside

LEMMA ShorterQueue ==
  ASSUME NEW r \in SesSet, Bounded(r), r.queue # <<>>, QueueLimit \in Nat
  PROVE  LET q == [r EXCEPT !.queue = Tail(@)]
         IN /\ q \in SesSet /\ Bounded(q)
            /\ q.state = r.state /\ q.active = r.active /\ q.said = r.said /\ q.provider = r.provider /\ q.closing = r.closing
<1> DEFINE q == [r EXCEPT !.queue = Tail(@)]
<1>1. r.queue \in Seq(Event) /\ Len(r.queue) <= QueueLimit
  BY DEF SesSet, Bounded
<1>2. Tail(r.queue) \in Seq(Event) /\ Len(Tail(r.queue)) <= QueueLimit
  BY <1>1
<1>3. q \in SesSet /\ q.queue = Tail(r.queue) /\ q.retired = r.retired
      /\ q.state = r.state /\ q.active = r.active /\ q.said = r.said /\ q.provider = r.provider /\ q.closing = r.closing
  BY <1>2 DEF SesSet
<1>4. Bounded(q)
  BY <1>2, <1>3 DEF Bounded
<1> QED
  BY <1>3, <1>4

LEMMA SenderStep ==
  ASSUME RealtimeAssumption, RealtimeInv, NEW s \in Session, Forward(s) \/ SenderEnds(s)
  PROVE  RealtimeInv' /\ LeaseKept
<1>1. ses[s] \in SesSet /\ Bounded(ses[s]) /\ con[s] \in ConSet
  BY SessionTyped DEF RealtimeInv, Typed, ConOK
<1>2. con[s].at \in {"open", "leaving"}
  BY DEF Forward, SenderEnds, Sending, Claimed
<1>3. SesOK' /\ \A x \in Session : SameSession(x) /\ ClosingMoves(x)
  <2>1. CASE ses' = [ses EXCEPT ![s] = Stopped(@)]
    <3>1. ses' = [ses EXCEPT ![s] = Stopped(ses[s])]
      BY <2>1
    <3> QED
      BY <1>1, <3>1, StoppedTyped, OneQuiet
  <2>2. CASE ses' = [ses EXCEPT ![s] = [ses[s] EXCEPT !.queue = Tail(@)]] /\ ses[s].queue # <<>>
    <3> DEFINE q == [ses[s] EXCEPT !.queue = Tail(@)]
    <3>1. /\ q \in SesSet /\ Bounded(q)
          /\ q.state = ses[s].state /\ q.active = ses[s].active /\ q.said = ses[s].said /\ q.provider = ses[s].provider
          /\ q.closing = ses[s].closing
      BY <1>1, <2>2, ShorterQueue DEF RealtimeAssumption
    <3>2. ses' = [ses EXCEPT ![s] = q]
      BY <2>2
    <3> HIDE DEF q
    <3> QED
      BY <3>1, <3>2, OneQuiet
  <2>3. ASSUME Forward(s)
        PROVE  /\ ses[s].queue # <<>>
               /\ \/ ses' = [ses EXCEPT ![s] = Stopped(ses[s])]
                  \/ ses' = [ses EXCEPT ![s] = [ses[s] EXCEPT !.queue = Tail(@)]]
    BY <2>3 DEF Forward
  <2> QED
    BY <2>1, <2>2, <2>3 DEF SenderEnds
<1>4. ConOK' /\ \A x \in Session : SameConnection(x)
  <2>1. CASE con' = con
    BY <2>1, NoneChange
  <2>2. CASE con' = [con EXCEPT ![s] = Gone]
    BY <1>2, <2>2, ConnectionsTyped, OneGoes DEF Opening
  <2>3. CASE con' = [con EXCEPT ![s] = [@ EXCEPT !.id = 0, !.committed = FALSE]]
    <3> DEFINE c == [con[s] EXCEPT !.id = 0, !.committed = FALSE]
    <3>1. 0 \in 0 .. MaxInteractions
      BY DEF RealtimeAssumption
    <3>2. c \in ConSet /\ c.at = con[s].at /\ c.cmd = con[s].cmd /\ con' = [con EXCEPT ![s] = c]
      BY <1>1, <2>3, <3>1 DEF ConSet
    <3> HIDE DEF c
    <3> QED
      BY <3>2, OneGoes, OpenStands
  <2>4. con' = [con EXCEPT ![s] = @] => con' = con
    BY DEF RealtimeInv, Typed, ConOK
  <2> QED
    BY <2>1, <2>2, <2>3, <2>4 DEF Forward, SenderEnds
<1>5. UNCHANGED <<voiceTurn, gate, op, lease, counts>> /\ entry' = entry /\ text' \in BOOLEAN
  BY DEF Forward, SenderEnds, RealtimeInv, Typed, RestOK
<1> QED
  BY <1>3, <1>4, <1>5, Aside

(* The end of close_session, and an event that is ignored.                 *)
LEMMA UnlistClosedStep ==
  ASSUME RealtimeAssumption, RealtimeInv, NEW s \in Session, UnlistClosed(s)
  PROVE  RealtimeInv' /\ LeaseKept
<1>1. ses[s] \in SesSet /\ Bounded(ses[s]) /\ con[s] \in ConSet
  BY SessionTyped DEF RealtimeInv, Typed, ConOK
<1>2. SesOK' /\ \A x \in Session : SameSession(x) /\ ClosingMoves(x)
  <2> DEFINE q == [ses[s] EXCEPT !.closing = "done"]
  <2>1. /\ q \in SesSet /\ q.queue = ses[s].queue /\ q.retired = ses[s].retired
        /\ q.state = ses[s].state /\ q.active = ses[s].active /\ q.said = ses[s].said /\ q.provider = ses[s].provider
        /\ q.closing = "done"
    BY <1>1 DEF SesSet
  <2>2. Bounded(q) /\ ses' = [ses EXCEPT ![s] = q]
    BY <1>1, <2>1 DEF Bounded, UnlistClosed
  <2>3. ses[s].closing = "unlisting" /\ ses[s].state # "none"
    BY DEF UnlistClosed, RealtimeInv, SessionsOK, SessionOK
  <2> HIDE DEF q
  <2> QED
    BY <2>1, <2>2, <2>3, OneQuiet
<1>3. ConOK' /\ \A x \in Session : SameConnection(x)
  <2> DEFINE a == IF con[s].at = "leaving" THEN "gone" ELSE con[s].at
             c == [con[s] EXCEPT !.at = a]
  <2>1. con' = [con EXCEPT ![s] = c]
    BY DEF UnlistClosed
  <2>2. c \in ConSet /\ c.at = a /\ c.cmd = con[s].cmd
    BY <1>1 DEF ConSet
  <2>3. c.at = con[s].at \/ (con[s].at \notin Opening /\ c.at = "gone")
    BY <2>2 DEF Opening
  <2>4. c.cmd # "none" => c.at = "open"
    BY <2>2, OpenStands
  <2> HIDE DEF c
  <2> QED
    BY <2>1, <2>2, <2>3, <2>4, OneGoes
<1>4. UNCHANGED <<voiceTurn, gate, op, lease, counts>> /\ text' \in BOOLEAN /\ (entry' = entry \/ entry' = "none")
  BY DEF UnlistClosed, RealtimeInv, Typed, RestOK
<1> QED
  BY <1>2, <1>3, <1>4, Aside

(* The fields by which a session serves its provider.                      *)
LEMMA Unserved ==
  ASSUME NEW r \in SesSet, Bounded(r), NEW i
  PROVE  LET q == [r EXCEPT !.serving = @ \ {i}]
         IN /\ q \in SesSet /\ Bounded(q)
            /\ q.state = r.state /\ q.active = r.active /\ q.said = r.said /\ q.provider = r.provider /\ q.closing = r.closing
<1> DEFINE q == [r EXCEPT !.serving = @ \ {i}]
<1>1. q \in SesSet /\ q.queue = r.queue /\ q.retired = r.retired
      /\ q.state = r.state /\ q.active = r.active /\ q.said = r.said /\ q.provider = r.provider /\ q.closing = r.closing
  BY DEF SesSet
<1>2. Bounded(q)
  BY <1>1 DEF Bounded
<1> QED
  BY <1>1, <1>2

LEMMA IgnoredStep ==
  ASSUME RealtimeAssumption, RealtimeInv, NEW s \in Session, NEW i \in Talk,
         ses' = [ses EXCEPT ![s].serving = @ \ {i}],
         UNCHANGED <<con, voiceTurn, entry, gate, op, lease, text, counts>>
  PROVE  RealtimeInv' /\ LeaseKept
<1>1. ses[s] \in SesSet /\ Bounded(ses[s])
  BY SessionTyped DEF RealtimeInv, Typed
<1> DEFINE q == [ses[s] EXCEPT !.serving = @ \ {i}]
<1>2. /\ q \in SesSet /\ Bounded(q)
      /\ q.state = ses[s].state /\ q.active = ses[s].active /\ q.said = ses[s].said /\ q.provider = ses[s].provider
      /\ q.closing = ses[s].closing
  BY <1>1, Unserved
<1>3. ses' = [ses EXCEPT ![s] = q]
  OBVIOUS
<1> HIDE DEF q
<1>4. SesOK' /\ \A x \in Session : SameSession(x) /\ ClosingMoves(x)
  BY <1>2, <1>3, OneQuiet
<1>5. ConOK' /\ \A x \in Session : SameConnection(x)
  BY NoneChange
<1>6. text' \in BOOLEAN
  BY DEF RealtimeInv, Typed, RestOK
<1> QED
  BY <1>4, <1>5, <1>6, Aside

-----------------------------------------------------------------------------
(* A session is opened: who holds the gate holds the lease.                *)
LEMMA ConnectionMoves ==
  ASSUME RealtimeInv, NEW s \in Session,
         NEW to \in {"new", "opening", "registered", "open", "leaving", "gone"},
         con' = [con EXCEPT ![s].at = to]
  PROVE  /\ ConOK' /\ con'[s].at = to /\ con'[s].cmd = con[s].cmd
         /\ \A x \in Session : x # s => con'[x] = con[x]
<1>1. con[s] \in ConSet /\ ConOK
  BY DEF RealtimeInv, Typed, ConOK
<1> DEFINE c == [con[s] EXCEPT !.at = to]
<1>2. c \in ConSet /\ c.at = to /\ c.cmd = con[s].cmd
  BY <1>1 DEF ConSet
<1>3. con' = [con EXCEPT ![s] = c]
  OBVIOUS
<1> HIDE DEF c
<1> QED
  BY <1>1, <1>2, <1>3, OneConnection

LEMMA DueIsOfOpen ==
  ASSUME RealtimeInv, NEW s \in Session, con[s].at \in Opening \cup {"new"}
  PROVE  /\ Due \cap {"announce", "undo"} # {} => op.s # s
         /\ Due # {} /\ op.by = "client" => op.s # s
         /\ ses[s].active = 0
BY DEF RealtimeInv, ProgramOK, EndDue, ByClient, SessionsOK, SessionOK, Opening

LEMMA OpenBeginsStep ==
  ASSUME RealtimeAssumption, RealtimeInv, NEW s \in Session, OpenBegins(s)
  PROVE  RealtimeInv' /\ LeaseKept
<1>0. /\ SesOK /\ ConOK /\ RestOK /\ RestOK /\ \A x \in Session : SessionOK(x)
      /\ ses' = ses /\ con[s].at = "new" /\ con[s].cmd = "none"
  BY DEF RealtimeInv, Typed, SessionsOK, SessionOK, OpenBegins
<1>1. CASE con' = [con EXCEPT ![s].at = "gone"] /\ UNCHANGED <<gate, lease>>
  <2>1. ConOK' /\ con'[s].at = "gone" /\ con'[s].cmd = "none" /\ \A x \in Session : x # s => con'[x] = con[x]
    BY <1>0, <1>1, ConnectionMoves
  <2>2. SameConnection(s)
    BY <1>0, <2>1 DEF SameConnection, Opening
  <2>3. \A x \in Session : SameConnection(x)
    BY <2>1, <2>2, SameElsewhere
  <2>4. SesOK' /\ \A x \in Session : SameSession(x) /\ ClosingMoves(x)
    BY <1>0, NoneChange
  <2>5. UNCHANGED <<voiceTurn, op, counts>> /\ (entry' = entry \/ entry' = "none") /\ text' \in BOOLEAN
    BY <1>0 DEF OpenBegins, RestOK
  <2> QED
    BY <1>1, <2>1, <2>3, <2>4, <2>5, Aside
<1>2. CASE con' = [con EXCEPT ![s].at = "opening"] /\ gate' = s /\ lease' = TRUE /\ ~lease
  <2>1. ConOK' /\ con'[s].at = "opening" /\ con'[s].cmd = "none" /\ \A x \in Session : x # s => con'[x] = con[x]
    BY <1>0, <1>2, ConnectionMoves
  <2>2. UNCHANGED <<ses, voiceTurn, op, text, counts>> /\ entry' = "none" /\ gate = "none"
    BY <1>2, <2>1 DEF OpenBegins
  <2>3. Typed'
    <3>1. RestOK'
      BY <1>0, <1>2, <2>2, CountsMove, CountedRest DEF RestOK
    <3> QED
      BY <2>1, <2>2, <3>1 DEF RealtimeInv, Typed, SesOK, Bounded, OpOK, TurnsOK
  <2>4. ProgramOK' /\ TurnDue' /\ StartDue'
    BY <2>2 DEF RealtimeInv, ProgramOK, TurnDue, StartDue, Due, Mine, counts
  <2>5. EndDue'
    <3>1. Due' = Due /\ Mine' = Mine /\ op' = op
      BY <2>2 DEF Due, Mine
    <3>2. Due # {} /\ op.by = "client" => con'[op.s].at = con[op.s].at
      BY <1>0, <2>1, DueIsOfOpen DEF RealtimeInv, Typed, OpOK, OpSet, Opening
    <3> QED
      BY <3>1, <3>2 DEF RealtimeInv, EndDue
  <2>6. SessionsOK'
    <3>1. ASSUME NEW x \in Session, x # s PROVE SessionOK(x)'
      <4>1. SessionOK(x) /\ con'[x] = con[x] /\ x # "none"
        BY <1>0, <2>1, <3>1 DEF RealtimeAssumption
      <4> QED
        BY <1>2, <2>2, <3>1, <4>1 DEF SessionOK, counts
    <3>2. SessionOK(s)'
      BY <1>0, <1>2, <2>1, <2>2 DEF SessionOK, counts, Opening
    <3> QED
      BY <3>1, <3>2 DEF SessionsOK
  <2>7. FreshOK' /\ TurnAttended'
    BY <2>2 DEF RealtimeInv, FreshOK, TurnAttended, counts
  <2>8. LeaseOK'
    <3>1. \A x \in Session : ~Holds(x)
      BY <1>2 DEF RealtimeInv, LeaseOK
    <3>2. \A x \in Session : Holds(x)' => x = s
      BY <2>1, <2>2, <3>1 DEF Holds, Due
    <3> QED
      BY <1>2, <3>2 DEF LeaseOK
  <2>9. LeaseKept
    BY <2>1 DEF LeaseKept, LeaseHasHolder, Holds, Opening
  <2> QED
    BY <2>3, <2>4, <2>5, <2>6, <2>7, <2>8, <2>9 DEF RealtimeInv
<1> QED
  BY <1>1, <1>2 DEF OpenBegins

LEMMA OpenRegistersStep ==
  ASSUME RealtimeAssumption, RealtimeInv, NEW s \in Session, OpenRegisters(s)
  PROVE  RealtimeInv' /\ LeaseKept
<1>0. /\ SesOK /\ ConOK /\ RestOK /\ \A x \in Session : SessionOK(x)
      /\ con[s].at = "opening" /\ con[s].cmd = "none" /\ ses[s].state = "none" /\ ses[s].closing = "no"
      /\ gate = s /\ ses[s].active = 0
  BY DEF RealtimeInv, Typed, SessionsOK, SessionOK, OpenRegisters, Opening
<1>1. ConOK' /\ con'[s].at = "registered" /\ con'[s].cmd = "none" /\ \A x \in Session : x # s => con'[x] = con[x]
  BY <1>0, ConnectionMoves DEF OpenRegisters
<1> DEFINE news == <<<<"news", 0>>>>
           q == [ses[s] EXCEPT !.state = "IDLE", !.provider = TRUE, !.consumer = "reading", !.queue = news]
<1>2. SesOK' /\ ses'[s] = q /\ (\A x \in Session : x # s => ses'[x] = ses[x])
  <2>1. news \in Seq(Event) /\ Len(news) = 1 /\ 1 <= QueueLimit
    BY DEF Event, RealtimeAssumption
  <2>2. ses[s] \in SesSet /\ Bounded(ses[s])
    BY <1>0, SessionTyped
  <2>3. q \in SesSet /\ q.queue = news /\ q.retired = ses[s].retired
    <3> HIDE DEF news
    <3> QED
      BY <2>1, <2>2 DEF SesSet, Live
  <2>4. Bounded(q)
    BY <2>1, <2>2, <2>3 DEF Bounded
  <2>5. ses' = [ses EXCEPT ![s] = q]
    BY <1>0 DEF OpenRegisters, SesOK
  <2> HIDE DEF q
  <2> QED
    BY <1>0, <2>3, <2>4, <2>5, OneSession
<1>3. q.state = "IDLE" /\ q.active = 0 /\ q.closing = "no"
  BY <1>0, SessionTyped DEF SesSet
<1> HIDE DEF q
<1>4. UNCHANGED <<voiceTurn, gate, op, lease, text, counts>> /\ entry' = s
  BY DEF OpenRegisters
<1>5. Typed'
  <2>1. RestOK'
    BY <1>0, <1>4, CountsMove, CountedRest DEF RestOK
  <2> QED
    BY <1>1, <1>2, <1>4, <2>1 DEF RealtimeInv, Typed, OpOK, TurnsOK
<1>6. Due' = Due /\ op' = op /\ op.s \in Session /\ (Due # {} => op.s # s)
  BY <1>0, <1>4 DEF RealtimeInv, Typed, OpOK, OpSet, Due, EndDue, Mine
<1>7. ProgramOK' /\ TurnDue' /\ StartDue' /\ EndDue'
  <2>1. CASE Due = {}
    <3>1. Due' = {}
      BY <1>6, <2>1
    <3> QED
      BY <3>1 DEF ProgramOK, TurnDue, StartDue, EndDue
  <2>2. CASE Due # {}
    <3>1. Mine' = Mine /\ con'[op.s] = con[op.s]
      BY <1>1, <1>2, <1>6, <2>2 DEF Mine
    <3> QED
      BY <1>4, <1>6, <3>1 DEF RealtimeInv, ProgramOK, TurnDue, StartDue, EndDue, counts
  <2> QED
    BY <2>1, <2>2
<1>8. SessionsOK'
  <2>1. ASSUME NEW x \in Session, x # s PROVE SessionOK(x)'
    <3>1. SessionOK(x) /\ con'[x] = con[x] /\ ses'[x] = ses[x]
      BY <1>0, <1>1, <1>2, <2>1
    <3> QED
      BY <1>0, <1>4, <2>1, <3>1 DEF SessionOK, counts, Opening
  <2>2. SessionOK(s)'
    <3>1. interactions \in Nat
      BY <1>0, BoundsAreNumbers
    <3> QED
      BY <1>0, <1>1, <1>2, <1>3, <1>4, <3>1 DEF SessionOK, counts, Opening
  <2> QED
    BY <2>1, <2>2 DEF SessionsOK
<1>9. FreshOK' /\ TurnAttended'
  <2>1. FreshOK'
    BY <1>4 DEF RealtimeInv, FreshOK, counts
  <2>2. ASSUME NEW i \in Talk, voiceTurn[i] = "PROCESSING"
        PROVE  \E x \in Session : ses'[x].active = i /\ ses'[x].state = "ACTIVE"
    <3>1. PICK x \in Session : ses[x].active = i /\ ses[x].state = "ACTIVE"
      BY <2>2 DEF RealtimeInv, TurnAttended
    <3> QED
      BY <1>0, <1>2, <3>1
  <2> QED
    BY <1>4, <2>1, <2>2 DEF TurnAttended
<1>10. LeaseOK'
  <2>1. Holds(s) /\ lease
    BY <1>0 DEF RealtimeInv, LeaseOK, Holds, Opening
  <2>2. \A x \in Session : Holds(x)' => Holds(x)
    BY <1>1, <1>2, <1>6, <2>1 DEF Holds
  <2> QED
    BY <1>4, <2>1, <2>2 DEF RealtimeInv, LeaseOK
<1>11. LeaseKept
  BY <1>1 DEF LeaseKept, LeaseHasHolder, Holds, Opening
<1> QED
  BY <1>5, <1>7, <1>8, <1>9, <1>10, <1>11 DEF RealtimeInv

(* The opening ends, either way: the gate and the lease are given back.    *)
LEMMA OpeningEndsStep ==
  ASSUME RealtimeAssumption, RealtimeInv, NEW s \in Session, OpenReturns(s) \/ OpeningFails(s)
  PROVE  RealtimeInv' /\ LeaseKept
<1>0. /\ SesOK /\ ConOK /\ RestOK /\ \A x \in Session : SessionOK(x)
      /\ con[s].at \in Opening /\ con[s].cmd = "none" /\ gate = s /\ ses[s].active = 0
      /\ con[s].at = "registered" => ses[s].state # "none"
  BY DEF RealtimeInv, Typed, SessionsOK, SessionOK, OpenReturns, OpeningFails, Opening
<1>1. PICK to \in {"open", "gone"} : con' = [con EXCEPT ![s].at = to] /\ (to = "open" => con[s].at = "registered")
  BY DEF OpenReturns, OpeningFails
<1>2. ConOK' /\ con'[s].at = to /\ con'[s].cmd = "none" /\ \A x \in Session : x # s => con'[x] = con[x]
  BY <1>0, <1>1, ConnectionMoves
<1>3. UNCHANGED <<ses, voiceTurn, entry, op, text>> /\ gate' = "none" /\ lease' = FALSE
  BY DEF OpenReturns, OpeningFails
<1>4. RestOK' /\ Counted
  <2>1. UNCHANGED counts \/ ProviderFails
    BY DEF OpenReturns, OpeningFails
  <2> QED
    BY <1>0, <1>3, <2>1, CountsMove, CountedRest DEF RestOK
<1>5. Typed'
  BY <1>2, <1>3, <1>4 DEF RealtimeInv, Typed, SesOK, Bounded, OpOK, TurnsOK
<1>6. ProgramOK' /\ TurnDue' /\ StartDue'
  BY <1>3, <1>4 DEF RealtimeInv, ProgramOK, TurnDue, StartDue, Due, Mine, Counted
<1>7. EndDue'
  <2>1. Due' = Due /\ Mine' = Mine /\ op' = op
    BY <1>3 DEF Due, Mine
  <2>2. Due # {} /\ op.by = "client" => con'[op.s].at = con[op.s].at
    BY <1>0, <1>2, DueIsOfOpen DEF RealtimeInv, Typed, OpOK, OpSet
  <2> QED
    BY <2>1, <2>2 DEF RealtimeInv, EndDue
<1>8. SessionsOK'
  <2>1. interactions \in Nat /\ errors \in Nat /\ errors' \in Nat /\ interactions' = interactions /\ errors' >= errors
    BY <1>0, <1>4, BoundsAreNumbers DEF Counted, RealtimeAssumption
  <2>2. ASSUME NEW x \in Session, x # s PROVE SessionOK(x)'
    <3>1. SessionOK(x) /\ con'[x] = con[x] /\ x # "none" /\ ses' = ses
      BY <1>0, <1>2, <1>3, <2>2 DEF RealtimeAssumption
    <3> QED
      BY <1>0, <1>3, <2>1, <2>2, <3>1 DEF SessionOK
  <2>3. SessionOK(s)'
    <3>1. s # "none"
      BY DEF RealtimeAssumption
    <3> QED
      BY <1>0, <1>1, <1>2, <1>3, <2>1, <3>1 DEF SessionOK, Opening
  <2> QED
    BY <2>2, <2>3 DEF SessionsOK
<1>9. FreshOK' /\ TurnAttended'
  BY <1>3, <1>4 DEF RealtimeInv, FreshOK, TurnAttended, Counted
<1>10. LeaseOK'
  <2>1. \A x \in Session : Holds(x) => x = s
    BY <1>0 DEF RealtimeInv, LeaseOK, Holds
  <2>2. ASSUME NEW x \in Session, Holds(x)' PROVE FALSE
    <3>1. CASE x = s
      BY <1>0, <1>1, <1>2, <1>3, <2>2, <3>1, DueIsOfOpen DEF Holds, Due, Opening
    <3>2. CASE x # s
      BY <1>2, <1>3, <2>1, <2>2, <3>2 DEF Holds, Due
    <3> QED
      BY <3>1, <3>2
  <2> QED
    BY <2>2 DEF LeaseOK
<1>11. LeaseKept
  BY <1>3 DEF LeaseKept, LeaseHasHolder
<1> QED
  BY <1>5, <1>6, <1>7, <1>8, <1>9, <1>10, <1>11 DEF RealtimeInv

-----------------------------------------------------------------------------
(* A transition begins: its program, and what its steps may rely on.       *)
LEMMA Begins ==
  ASSUME RealtimeAssumption, RealtimeInv, ~Running, NEW s \in Session,
         NEW by \in {"client", "close", "consumer"}, NEW to \in {"none", "INTERRUPTED", "FAILED"},
         NEW todo, NEW S, Run(s, by, to, todo), Good(todo, S),
         SesOK', \A x \in Session : SameSession(x) /\ ClosingMoves(x),
         UNCHANGED <<con, voiceTurn, entry, gate, text>>, lease' \in BOOLEAN,
         UNCHANGED counts \/ ProviderFails
  PROVE  /\ Typed' /\ SessionsOK' /\ FreshOK' /\ TurnAttended'
         /\ Due' = S /\ op'.s = s /\ op'.by = by /\ op'.to = to
         /\ interactions' = interactions
         /\ Mine'.state = ses[s].state /\ Mine'.active = ses[s].active /\ (ses[s].said => Mine'.said)
         /\ lease' = lease /\ S \cap {"announce", "undo"} = {} => LeaseOK'
         /\ lease' = lease => LeaseKept
<1>1. OpOK' /\ Due' = S /\ op'.s = s /\ op'.by = by /\ op'.to = to
  BY Runs
<1>2. ConOK' /\ \A x \in Session : SameConnection(x)
  BY NoneChange
<1>3. Counted
  BY CountsMove DEF RealtimeInv, Typed
<1>4. RestOK'
  BY <1>3, CountedRest DEF RealtimeInv, Typed, RestOK
<1>5. Typed'
  BY <1>1, <1>2, <1>4 DEF RealtimeInv, Typed, TurnsOK
<1>6. SessionsOK' /\ FreshOK' /\ TurnAttended'
  BY <1>2, <1>3, <1>4, QuietSessions DEF Counted
<1>7. lease' = lease /\ S \cap {"announce", "undo"} = {} => LeaseOK'
  BY <1>1, <1>2, QuietLease
<1>8. Mine'.state = ses[s].state /\ Mine'.active = ses[s].active /\ (ses[s].said => Mine'.said)
  <2>1. SameSession(s) /\ Mine' = ses'[s]
    BY <1>1 DEF Mine
  <2> QED
    BY <2>1 DEF SameSession
<1>9. lease' = lease => LeaseKept
  <2>1. Due = {}
    BY RunningDue DEF RealtimeInv, Typed
  <2> QED
    BY <1>2, <2>1, HoldersStay
<1> QED
  BY <1>1, <1>3, <1>5, <1>6, <1>7, <1>8, <1>9 DEF Counted

LEMMA SessionFacts ==
  ASSUME RealtimeAssumption, RealtimeInv, NEW s \in Session
  PROVE  /\ SessionOK(s) /\ ses[s] \in SesSet /\ Bounded(ses[s])
         /\ ses[s].active \in 0 .. MaxInteractions
         /\ ses[s].active # 0 => ses[s].active \in Talk /\ ses[s].state = "ACTIVE"
         /\ ses[s].state \in Live => ses[s].state # "none"
         /\ ses[s].active # 0 /\ voiceTurn[ses[s].active] # "none" => voiceTurn[ses[s].active] # "none"
BY SessionTyped DEF RealtimeInv, Typed, SessionsOK, SessionOK, SesSet, Talk, Live, RealtimeAssumption

LEMMA EndingSteps ==
  ASSUME NEW s
  PROVE  \/ Good(Ending(s), {}) /\ (ses[s].active = 0 \/ voiceTurn[ses[s].active] = "none")
         \/ Good(Ending(s), {"end", "tell"}) /\ ses[s].active # 0
<1>1. Good(<<>>, {}) /\ Good(<<"end", "tell">>, {"end", "tell"})
  BY NoSteps, TwoSteps DEF StepName, Rank
<1> QED
  BY <1>1 DEF Ending

(* Programs of one session, a piece after the other.                       *)
LEMMA BargeInSteps ==
  ASSUME NEW s, NEW E \in {{}, {"end", "tell"}}, Good(Ending(s), E)
  PROVE  /\ Good(<<"interrupt">> \o Ending(s) \o <<"retire">>, {"interrupt", "retire"} \cup E)
         /\ Good(<<"interrupt">> \o Ending(s) \o <<"retire", "check", "start", "announce">>,
                 {"interrupt", "retire", "check", "start", "announce"} \cup E)
<1>1. Good(<<"interrupt">>, {"interrupt"}) /\ Good(<<"retire">>, {"retire"})
  BY OneStep DEF StepName
<1>2. Good(<<"retire", "check", "start", "announce">>, {"retire", "check", "start", "announce"})
  <2>1. /\ "retire" \in StepName /\ "check" \in StepName /\ "start" \in StepName /\ "announce" \in StepName
        /\ Rank["retire"] < Rank["check"] /\ Rank["check"] < Rank["start"] /\ Rank["start"] < Rank["announce"]
    BY DEF StepName, Rank
  <2> QED
    BY <2>1, FourSteps
<1>3. Good(<<"interrupt">> \o Ending(s), {"interrupt"} \cup E)
  <2>1. \A x \in {"interrupt"}, y \in E : Rank[x] < Rank[y]
    BY DEF Rank
  <2> QED
    BY <1>1, <2>1, Joined
<1>4. \A x \in {"interrupt"} \cup E, y \in {"retire", "check", "start", "announce"} : Rank[x] < Rank[y]
  BY DEF Rank
<1>5. Good((<<"interrupt">> \o Ending(s)) \o <<"retire">>, ({"interrupt"} \cup E) \cup {"retire"})
  <2>1. \A x \in {"interrupt"} \cup E, y \in {"retire"} : Rank[x] < Rank[y]
    BY <1>4
  <2> QED
    BY <1>1, <1>3, <2>1, Joined
<1>6. Good((<<"interrupt">> \o Ending(s)) \o <<"retire", "check", "start", "announce">>,
           ({"interrupt"} \cup E) \cup {"retire", "check", "start", "announce"})
  BY <1>2, <1>3, <1>4, Joined
<1>7. /\ ({"interrupt"} \cup E) \cup {"retire"} = {"interrupt", "retire"} \cup E
      /\ ({"interrupt"} \cup E) \cup {"retire", "check", "start", "announce"}
           = {"interrupt", "retire", "check", "start", "announce"} \cup E
  OBVIOUS
<1> QED
  BY <1>5, <1>6, <1>7

LEMMA BeginStartStep ==
  ASSUME RealtimeAssumption, RealtimeInv, NEW s \in Session, BeginStart(s), interactions < MaxInteractions
  PROVE  RealtimeInv' /\ LeaseKept
<1>1. /\ SesOK' /\ \A x \in Session : SameSession(x) /\ ClosingMoves(x)
      /\ UNCHANGED <<con, voiceTurn, entry, gate, text, counts>> /\ ~Running /\ con[s].cmd = "start"
  BY NoneChange DEF BeginStart
<1>2. Due = {} /\ con[s].at = "open" /\ con'[s].at = "open"
  BY <1>1, RunningDue, OpenStands DEF RealtimeInv, Typed
<1>3. CASE MayStart(s) /\ lease' = TRUE /\ Run(s, "client", "none", <<"check", "start", "announce">>)
  <2> DEFINE S == {"check", "start", "announce"}
             todo == <<"check", "start", "announce">>
  <2>1. Good(todo, S)
    <3>1. /\ "check" \in StepName /\ "start" \in StepName /\ "announce" \in StepName
          /\ Rank["check"] < Rank["start"] /\ Rank["start"] < Rank["announce"]
      BY DEF StepName, Rank
    <3> QED
      BY <3>1, ThreeSteps
  <2> HIDE DEF todo
  <2>2. /\ Typed' /\ SessionsOK' /\ FreshOK' /\ TurnAttended'
        /\ Due' = S /\ op'.s = s /\ op'.by = "client" /\ op'.to = "none"
        /\ interactions' = interactions
        /\ Mine'.state = ses[s].state /\ Mine'.active = ses[s].active
    <3>1. Run(s, "client", "none", todo) /\ lease' \in BOOLEAN
      BY <1>3 DEF todo
    <3> QED
      BY <1>1, <2>1, <3>1, Begins
  <2>3. ProgramOK'
    BY <2>2 DEF ProgramOK, ByClient, ByConsumer
  <2>4. TurnDue' /\ StartDue' /\ EndDue'
    BY <1>2, <1>3, <2>2 DEF TurnDue, StartDue, EndDue, MayStart, Live
  <2>5. LeaseOK'
    <3>1. \A x \in Session : ~Holds(x)
      BY <1>3 DEF RealtimeInv, LeaseOK, MayStart
    <3>2. ASSUME NEW x \in Session, Holds(x)' PROVE x = s
      <4>1. con'[x] = con[x] /\ ses'[x].active = ses[x].active
        BY <1>1 DEF SameSession
      <4> QED
        BY <2>2, <3>1, <3>2, <4>1 DEF Holds
    <3> QED
      BY <1>3, <3>2 DEF LeaseOK
  <2>6. LeaseKept
    BY <2>2 DEF LeaseKept, LeaseHasHolder, Holds
  <2> QED
    BY <2>2, <2>3, <2>4, <2>5, <2>6 DEF RealtimeInv
<1>4. ASSUME MayBargeIn(s), lease' = lease,
             Run(s, "client", "INTERRUPTED",
                 <<"interrupt">> \o Ending(s) \o <<"retire", "check", "start", "announce">>)
      PROVE  RealtimeInv' /\ LeaseKept
  <2> DEFINE todo == <<"interrupt">> \o Ending(s) \o <<"retire", "check", "start", "announce">>
  <2>1. PICK E \in {{}, {"end", "tell"}} :
          /\ Good(Ending(s), E)
          /\ E = {} => ses[s].active = 0 \/ voiceTurn[ses[s].active] = "none"
    BY EndingSteps
  <2> DEFINE S == {"interrupt", "retire", "check", "start", "announce"} \cup E
  <2>2. Good(todo, S)
    BY <2>1, BargeInSteps
  <2> HIDE DEF todo, S
  <2>3. lease' \in BOOLEAN
    BY <1>4 DEF RealtimeInv, Typed, RestOK
  <2>4. /\ Typed' /\ SessionsOK' /\ FreshOK' /\ TurnAttended' /\ LeaseKept
        /\ Due' = S /\ op'.s = s /\ op'.by = "client" /\ op'.to = "INTERRUPTED"
        /\ interactions' = interactions
        /\ Mine'.state = ses[s].state /\ Mine'.active = ses[s].active
    BY <1>1, <1>4, <2>2, <2>3, Begins DEF todo
  <2>5. ses[s].active # 0 /\ ses[s].state = "ACTIVE"
    BY <1>4, SessionFacts DEF MayBargeIn, SessionOK
  <2>6. ProgramOK'
    BY <2>4 DEF S, ProgramOK, ByClient, ByConsumer
  <2>7. TurnDue'
    BY <1>1, <2>1, <2>4, <2>5 DEF S, TurnDue
  <2>8. StartDue' /\ EndDue'
    BY <1>2, <2>4, <2>5 DEF S, StartDue, EndDue, Live
  <2>9. LeaseOK'
    <3>1. ASSUME NEW x \in Session, Holds(x)' PROVE Holds(x)
      <4>1. con'[x] = con[x] /\ ses'[x].active = ses[x].active
        BY <1>1 DEF SameSession
      <4> QED
        BY <2>4, <2>5, <3>1, <4>1 DEF Holds
    <3> QED
      BY <1>4, <3>1 DEF RealtimeInv, LeaseOK
  <2> QED
    BY <2>4, <2>6, <2>7, <2>8, <2>9 DEF RealtimeInv
<1> QED
  BY <1>3, <1>4 DEF BeginStart

LEMMA BeginRetireStep ==
  ASSUME RealtimeAssumption, RealtimeInv, NEW s \in Session, BeginRetire(s)
  PROVE  RealtimeInv' /\ LeaseKept
<1>1. /\ SesOK' /\ \A x \in Session : SameSession(x) /\ ClosingMoves(x)
      /\ UNCHANGED <<con, voiceTurn, entry, gate, lease, text, counts>> /\ ~Running
      /\ con[s].cmd # "none" /\ ses[s].active # 0
  BY NoneChange DEF BeginRetire, MayRetire
<1>2. con[s].at = "open" /\ con'[s].at = "open" /\ ses[s].state = "ACTIVE"
  BY <1>1, OpenStands, SessionFacts
<1> DEFINE todo == <<"interrupt">> \o Ending(s) \o <<"retire">>
<1>3. PICK E \in {{}, {"end", "tell"}} :
        /\ Good(Ending(s), E)
        /\ E = {} => ses[s].active = 0 \/ voiceTurn[ses[s].active] = "none"
  BY EndingSteps
<1> DEFINE S == {"interrupt", "retire"} \cup E
<1>4. Good(todo, S) /\ Run(s, "client", "INTERRUPTED", todo)
  BY <1>3, BargeInSteps DEF BeginRetire
<1>5. S \cap {"announce", "undo"} = {}
  OBVIOUS
<1> HIDE DEF todo, S
<1>6. lease' \in BOOLEAN
  BY <1>1 DEF RealtimeInv, Typed, RestOK
<1>7. /\ Typed' /\ SessionsOK' /\ FreshOK' /\ TurnAttended' /\ LeaseOK' /\ LeaseKept
      /\ Due' = S /\ op'.s = s /\ op'.by = "client" /\ op'.to = "INTERRUPTED"
      /\ Mine'.state = ses[s].state /\ Mine'.active = ses[s].active
  BY <1>1, <1>4, <1>5, <1>6, Begins
<1>8. ProgramOK'
  BY <1>7 DEF S, ProgramOK, ByClient, ByConsumer
<1>9. TurnDue'
  BY <1>1, <1>3, <1>7 DEF S, TurnDue
<1>10. StartDue' /\ EndDue'
  BY <1>2, <1>7 DEF S, StartDue, EndDue
<1> QED
  BY <1>7, <1>8, <1>9, <1>10 DEF RealtimeInv

(* What the provider says.                                                 *)
LEMMA HearingFacts ==
  ASSUME RealtimeAssumption, RealtimeInv, NEW s \in Session, Reading(s)
  PROVE  /\ ~Running /\ Due = {} /\ ses[s].state # "none"
         /\ ses[s].active \in ses[s].serving => ses[s].active # 0
<1>1. ses[s] \in SesSet /\ SessionOK(s)
  BY SessionFacts
<1>2. 0 \notin Talk
  BY DEF Talk
<1> QED
  BY <1>1, <1>2, RunningDue DEF Reading, RealtimeInv, Typed, SessionOK, SesSet

LEMMA Hears ==
  ASSUME RealtimeAssumption, RealtimeInv, NEW s \in Session, Reading(s), NEW todo, NEW S, NEW r \in SesSet,
         Hear(s, todo, r), Good(todo, S), Bounded(r), r.state = ses[s].state, r.active = ses[s].active,
         r.provider = ses[s].provider, r.closing = ses[s].closing,
         S \cap {"announce", "undo"} = {}, ses[s].said => r.said
  PROVE  /\ Typed' /\ SessionsOK' /\ FreshOK' /\ TurnAttended' /\ LeaseOK' /\ LeaseKept
         /\ Due' = S /\ op'.s = s /\ op'.by = "consumer" /\ op'.to = "none"
         /\ Mine'.state = ses[s].state /\ Mine'.active = ses[s].active /\ (ses[s].said => Mine'.said)
         /\ Mine'.state # "none" /\ voiceTurn' = voiceTurn
<1>1. SesOK' /\ \A x \in Session : SameSession(x) /\ ClosingMoves(x)
  BY OneQuiet DEF Hear
<1>2. UNCHANGED <<con, voiceTurn, entry, gate, text, lease, counts>> /\ lease' \in BOOLEAN
  BY DEF Hear, RealtimeInv, Typed, RestOK
<1> QED
  BY <1>1, <1>2, HearingFacts, Begins DEF Hear

LEMMA HearPartialStep ==
  ASSUME RealtimeAssumption, RealtimeInv, NEW s \in Session, HearPartial(s)
  PROVE  RealtimeInv' /\ LeaseKept
<1>1. Good(<<"news">>, {"news"})
  BY OneStep DEF StepName
<1> DEFINE todo == <<"news">>
<1>2. Good(todo, {"news"}) /\ Hear(s, todo, ses[s]) /\ Reading(s)
  BY <1>1 DEF HearPartial
<1> HIDE DEF todo
<1>3. /\ Typed' /\ SessionsOK' /\ FreshOK' /\ TurnAttended' /\ LeaseOK' /\ LeaseKept
      /\ Due' = {"news"} /\ op'.s = s /\ op'.by = "consumer" /\ Mine'.state # "none"
  BY <1>2, SessionFacts, Hears
<1>4. ProgramOK' /\ TurnDue' /\ StartDue' /\ EndDue'
  BY <1>3 DEF ProgramOK, TurnDue, StartDue, EndDue, ByClient, ByConsumer
<1> QED
  BY <1>3, <1>4 DEF RealtimeInv

LEMMA HearUserStep ==
  ASSUME RealtimeAssumption, RealtimeInv, NEW s \in Session, HearUser(s)
  PROVE  RealtimeInv' /\ LeaseKept
<1> DEFINE todo == <<"persist", "news", "news">>
<1>1. Good(todo, {"persist", "news"})
  <2>1. todo \in Seq(StepName) /\ Steps(todo) = {"persist", "news"}
    BY DEF StepName, Steps
  <2>2. Rank["persist"] < Rank["news"]
    BY DEF Rank
  <2>3. Sorted(todo)
    BY <2>2 DEF Sorted
  <2> QED
    BY <2>1, <2>3 DEF Good
<1>2. Hear(s, todo, ses[s]) /\ Reading(s) /\ ses[s].active # 0 /\ voiceTurn[ses[s].active] = "none"
  BY HearingFacts DEF HearUser, Serves
<1> HIDE DEF todo
<1>3. /\ Typed' /\ SessionsOK' /\ FreshOK' /\ TurnAttended' /\ LeaseOK' /\ LeaseKept
      /\ Due' = {"persist", "news"} /\ op'.s = s /\ op'.by = "consumer" /\ Mine'.state # "none"
      /\ Mine'.active = ses[s].active /\ voiceTurn' = voiceTurn
  BY <1>1, <1>2, SessionFacts, Hears
<1>4. ProgramOK' /\ TurnDue' /\ StartDue' /\ EndDue'
  BY <1>2, <1>3 DEF ProgramOK, TurnDue, StartDue, EndDue, ByClient, ByConsumer
<1> QED
  BY <1>3, <1>4 DEF RealtimeInv

LEMMA HearAssistantStep ==
  ASSUME RealtimeAssumption, RealtimeInv, NEW s \in Session, HearAssistant(s)
  PROVE  RealtimeInv' /\ LeaseKept
<1>1. Good(<<"news">>, {"news"})
  BY OneStep DEF StepName
<1> DEFINE todo == <<"news">>
           r == [ses[s] EXCEPT !.said = TRUE]
<1>2. Good(todo, {"news"}) /\ Hear(s, todo, r) /\ Reading(s)
  BY <1>1 DEF HearAssistant, Serves
<1>3. /\ r \in SesSet /\ r.queue = ses[s].queue /\ r.retired = ses[s].retired
      /\ r.state = ses[s].state /\ r.active = ses[s].active /\ r.provider = ses[s].provider
      /\ r.closing = ses[s].closing /\ r.said
  BY SessionFacts DEF SesSet
<1>4. Bounded(r)
  BY <1>3, SessionFacts DEF Bounded
<1> HIDE DEF todo, r
<1>5. /\ Typed' /\ SessionsOK' /\ FreshOK' /\ TurnAttended' /\ LeaseOK' /\ LeaseKept
      /\ Due' = {"news"} /\ op'.s = s /\ op'.by = "consumer" /\ Mine'.state # "none"
  BY <1>2, <1>3, <1>4, Hears
<1>6. ProgramOK' /\ TurnDue' /\ StartDue' /\ EndDue'
  BY <1>5 DEF ProgramOK, TurnDue, StartDue, EndDue, ByClient, ByConsumer
<1> QED
  BY <1>5, <1>6 DEF RealtimeInv

LEMMA HearCompletedStep ==
  ASSUME RealtimeAssumption, RealtimeInv, NEW s \in Session, HearCompleted(s)
  PROVE  RealtimeInv' /\ LeaseKept
<1> DEFINE todo == <<"complete", "tell", "count", "dismiss">>
           S == {"complete", "tell", "count", "dismiss"}
           r == [ses[s] EXCEPT !.serving = @ \ {ses[s].active}]
<1>1. Good(todo, S)
  <2>1. /\ "complete" \in StepName /\ "tell" \in StepName /\ "count" \in StepName /\ "dismiss" \in StepName
        /\ Rank["complete"] < Rank["tell"] /\ Rank["tell"] < Rank["count"] /\ Rank["count"] < Rank["dismiss"]
    BY DEF StepName, Rank
  <2> QED
    BY <2>1, FourSteps
<1>2. /\ Hear(s, todo, r) /\ Reading(s) /\ ses[s].active # 0
      /\ voiceTurn[ses[s].active] = "PROCESSING" /\ ses[s].said
  BY HearingFacts DEF HearCompleted, Serves
<1>3. /\ r \in SesSet /\ Bounded(r)
      /\ r.state = ses[s].state /\ r.active = ses[s].active /\ r.provider = ses[s].provider
      /\ r.closing = ses[s].closing /\ r.said = ses[s].said
  BY SessionFacts, Unserved
<1> HIDE DEF todo, r
<1>4. S \cap {"announce", "undo"} = {}
  OBVIOUS
<1>5. /\ Typed' /\ SessionsOK' /\ FreshOK' /\ TurnAttended' /\ LeaseOK' /\ LeaseKept
      /\ Due' = S /\ op'.s = s /\ op'.by = "consumer" /\ Mine'.state # "none"
      /\ Mine'.active = ses[s].active /\ Mine'.said /\ voiceTurn' = voiceTurn
  BY <1>1, <1>2, <1>3, <1>4, Hears
<1>6. ProgramOK' /\ TurnDue' /\ StartDue' /\ EndDue'
  BY <1>2, <1>5 DEF ProgramOK, TurnDue, StartDue, EndDue, ByClient, ByConsumer
<1> QED
  BY <1>5, <1>6 DEF RealtimeInv

(* How the interaction ends with what its consumer heard, or with the end  *)
(* of the session: its Turn first, if it has one.                          *)
LEMMA DismissSteps ==
  /\ Good(<<"tell">> \o <<"dismiss">>, {"tell", "dismiss"})
  /\ Good(<<"end", "tell">> \o <<"dismiss">>, {"end", "tell", "dismiss"})
<1>1. Good(<<"tell">>, {"tell"}) /\ Good(<<"dismiss">>, {"dismiss"})
  BY OneStep DEF StepName
<1>2. Good(<<"end", "tell">>, {"end", "tell"})
  BY TwoSteps DEF StepName, Rank
<1>3. /\ \A x \in {"tell"}, y \in {"dismiss"} : Rank[x] < Rank[y]
      /\ \A x \in {"end", "tell"}, y \in {"dismiss"} : Rank[x] < Rank[y]
  BY DEF Rank
<1>4. Good(<<"tell">> \o <<"dismiss">>, {"tell"} \cup {"dismiss"})
  BY <1>1, <1>3, Joined
<1>5. Good(<<"end", "tell">> \o <<"dismiss">>, {"end", "tell"} \cup {"dismiss"})
  BY <1>1, <1>2, <1>3, Joined
<1>6. {"tell"} \cup {"dismiss"} = {"tell", "dismiss"} /\ {"end", "tell"} \cup {"dismiss"} = {"end", "tell", "dismiss"}
  OBVIOUS
<1> QED
  BY <1>4, <1>5, <1>6

LEMMA HearFailedStep ==
  ASSUME RealtimeAssumption, RealtimeInv, NEW s \in Session, HearFailed(s)
  PROVE  RealtimeInv' /\ LeaseKept
<1> DEFINE todo == (IF voiceTurn[ses[s].active] = "none" THEN <<"tell">> ELSE <<"end", "tell">>) \o <<"dismiss">>
           r == [ses[s] EXCEPT !.serving = @ \ {ses[s].active}]
<1>1. PICK S \in {{"tell", "dismiss"}, {"end", "tell", "dismiss"}} :
        Good(todo, S) /\ ("end" \notin S => voiceTurn[ses[s].active] = "none")
  BY DismissSteps
<1>2. Run(s, "consumer", "FAILED", todo) /\ Reading(s) /\ ses[s].active # 0 /\ ~Running
  BY HearingFacts DEF HearFailed, Serves
<1>3. /\ r \in SesSet /\ Bounded(r)
      /\ r.state = ses[s].state /\ r.active = ses[s].active /\ r.provider = ses[s].provider
      /\ r.closing = ses[s].closing /\ r.said = ses[s].said
  BY SessionFacts, Unserved
<1>4. ses' = [ses EXCEPT ![s] = r]
  BY DEF HearFailed
<1> HIDE DEF todo, r
<1>5. SesOK' /\ \A x \in Session : SameSession(x) /\ ClosingMoves(x)
  BY <1>3, <1>4, OneQuiet
<1>6. UNCHANGED <<con, voiceTurn, entry, gate, text, lease, counts>> /\ lease' \in BOOLEAN
  BY DEF HearFailed, RealtimeInv, Typed, RestOK
<1>7. S \cap {"announce", "undo"} = {}
  OBVIOUS
<1>8. /\ Typed' /\ SessionsOK' /\ FreshOK' /\ TurnAttended' /\ LeaseOK' /\ LeaseKept
      /\ Due' = S /\ op'.s = s /\ op'.by = "consumer" /\ op'.to = "FAILED"
      /\ Mine'.active = ses[s].active /\ Mine'.state = ses[s].state
  BY <1>1, <1>2, <1>5, <1>6, <1>7, Begins
<1>9. ProgramOK'
  BY <1>8 DEF ProgramOK, ByClient, ByConsumer
<1>10. TurnDue' /\ StartDue' /\ EndDue'
  BY <1>1, <1>2, <1>6, <1>8, HearingFacts DEF TurnDue, StartDue, EndDue
<1> QED
  BY <1>8, <1>9, <1>10 DEF RealtimeInv

(* Transitions that end the session.                                       *)
LEMMA OverSteps ==
  ASSUME NEW p, NEW q, NEW f, NEW E \in {{}, {"tell"}, {"end", "tell"}}, NEW D \in {{}, {"dismiss"}},
         NEW F \in {{"fail", "over", "unlist"}, {"shut", "over"}}, Good(p, E), Good(q, D), Good(f, F)
  PROVE  Good(p \o q \o f, (E \cup D) \cup F)
<1>1. \A x \in E, y \in D : Rank[x] < Rank[y]
  BY DEF Rank
<1>2. \A x \in E \cup D, y \in F : Rank[x] < Rank[y]
  BY DEF Rank
<1>3. Good(p \o q, E \cup D)
  BY <1>1, Joined
<1> QED
  BY <1>2, <1>3, Joined

LEMMA EndPrograms ==
  /\ Good(<<>>, {}) /\ Good(<<"tell">>, {"tell"}) /\ Good(<<"end", "tell">>, {"end", "tell"})
  /\ Good(<<"dismiss">>, {"dismiss"}) /\ Good(<<"shut", "over">>, {"shut", "over"})
  /\ Good(<<"fail", "over", "unlist">>, {"fail", "over", "unlist"})
<1>1. Good(<<>>, {}) /\ Good(<<"tell">>, {"tell"}) /\ Good(<<"dismiss">>, {"dismiss"})
  BY NoSteps, OneStep DEF StepName
<1>2. Good(<<"end", "tell">>, {"end", "tell"}) /\ Good(<<"shut", "over">>, {"shut", "over"})
  BY TwoSteps DEF StepName, Rank
<1>3. Good(<<"fail", "over", "unlist">>, {"fail", "over", "unlist"})
  <2>1. /\ "fail" \in StepName /\ "over" \in StepName /\ "unlist" \in StepName
        /\ Rank["fail"] < Rank["over"] /\ Rank["over"] < Rank["unlist"]
    BY DEF StepName, Rank
  <2> QED
    BY <2>1, ThreeSteps
<1> QED
  BY <1>1, <1>2, <1>3

LEMMA EndBegins ==
  ASSUME RealtimeAssumption, RealtimeInv, ~Running, NEW s \in Session,
         NEW by \in {"close", "consumer"}, NEW to \in {"INTERRUPTED", "FAILED"}, NEW todo,
         NEW E \in {{}, {"tell"}, {"end", "tell"}}, NEW D \in {{}, {"dismiss"}},
         NEW F \in {{"fail", "over", "unlist"}, {"shut", "over"}},
         by = "consumer" <=> "fail" \in F,
         Run(s, by, to, todo), Good(todo, (E \cup D) \cup F),
         D = {} <=> ses[s].active = 0, E # {} => D # {},
         "end" \notin E /\ D # {} => voiceTurn[ses[s].active] = "none",
         SesOK', \A x \in Session : SameSession(x) /\ ClosingMoves(x), ses[s].state # "none",
         UNCHANGED <<con, voiceTurn, entry, gate, text, lease>>, UNCHANGED counts \/ ProviderFails
  PROVE  RealtimeInv' /\ LeaseKept
<1> DEFINE S == (E \cup D) \cup F
<1>1. S \cap {"announce", "undo"} = {} /\ S # {}
  OBVIOUS
<1>2. lease' \in BOOLEAN
  BY DEF RealtimeInv, Typed, RestOK
<1>3. /\ Typed' /\ SessionsOK' /\ FreshOK' /\ TurnAttended' /\ LeaseOK' /\ LeaseKept
      /\ Due' = S /\ op'.s = s /\ op'.by = by /\ op'.to = to
      /\ Mine'.active = ses[s].active /\ Mine'.state = ses[s].state
  BY <1>1, <1>2, Begins
<1>4. /\ "dismiss" \in S <=> D # {}
      /\ "end" \in S <=> "end" \in E
      /\ "fail" \in S <=> by = "consumer"
      /\ "shut" \in S <=> by = "close"
      /\ "unlist" \in S <=> by = "consumer"
      /\ S \cap {"fail", "shut"} # {}
      /\ S \subseteq {"end", "tell", "dismiss", "fail", "shut", "over", "unlist"}
  OBVIOUS
<1> HIDE DEF S
<1>5. ProgramOK'
  <2>1. Due' \cap ByClient = {}
    BY <1>3, <1>4 DEF ByClient
  <2>2. Due' \cap ByConsumer # {} => by = "consumer"
    BY <1>3, <1>4 DEF ByConsumer
  <2>3. "end" \in Due' => "dismiss" \in Due'
    BY <1>3, <1>4
  <2> QED
    BY <1>3, <1>4, <2>1, <2>2, <2>3 DEF ProgramOK
<1>6. TurnDue'
  BY <1>3, <1>4 DEF TurnDue
<1>7. StartDue' /\ EndDue'
  BY <1>3, <1>4 DEF StartDue, EndDue
<1> QED
  BY <1>3, <1>5, <1>6, <1>7 DEF RealtimeInv

LEMMA FailProtocolStep ==
  ASSUME RealtimeAssumption, RealtimeInv, NEW s \in Session, Reading(s), FailProtocol(s),
         UNCHANGED counts \/ ProviderFails
  PROVE  RealtimeInv' /\ LeaseKept
<1> DEFINE i == ses[s].active
           p == IF voiceTurn[i] = "none" THEN <<"tell">> ELSE <<"end", "tell">>
           f == <<"fail", "over", "unlist">>
           F == {"fail", "over", "unlist"}
           todo == (IF i = 0 THEN <<>> ELSE p \o <<"dismiss">>) \o f
<1>1. Run(s, "consumer", "FAILED", todo)
  BY DEF FailProtocol
<1>2. \E E \in {{}, {"tell"}, {"end", "tell"}}, D \in {{}, {"dismiss"}} :
        /\ Good(todo, (E \cup D) \cup F)
        /\ D = {} <=> ses[s].active = 0
        /\ E # {} => D # {}
        /\ "end" \notin E /\ D # {} => voiceTurn[ses[s].active] = "none"
  <2>1. CASE i = 0
    <3>1. Good(<<>> \o <<>> \o f, ({} \cup {}) \cup F)
      BY EndPrograms, OverSteps
    <3>2. <<>> \o <<>> = <<>>
      BY ConcatEmptySeq, EmptySeq
    <3>3. todo = (<<>> \o <<>>) \o f
      BY <2>1, <3>2
    <3> HIDE DEF todo, f, F
    <3>4. Good(todo, ({} \cup {}) \cup F)
      BY <3>1, <3>3
    <3> QED
      BY <2>1, <3>4
  <2>2. CASE i # 0 /\ voiceTurn[i] = "none"
    <3>1. Good(<<"tell">> \o <<"dismiss">> \o f, ({"tell"} \cup {"dismiss"}) \cup F)
      BY EndPrograms, OverSteps
    <3>2. todo = <<"tell">> \o <<"dismiss">> \o f
      BY <2>2
    <3> HIDE DEF todo, f, F
    <3> QED
      BY <2>2, <3>1, <3>2
  <2>3. CASE i # 0 /\ voiceTurn[i] # "none"
    <3>1. Good(<<"end", "tell">> \o <<"dismiss">> \o f, ({"end", "tell"} \cup {"dismiss"}) \cup F)
      BY EndPrograms, OverSteps
    <3>2. todo = <<"end", "tell">> \o <<"dismiss">> \o f
      BY <2>3
    <3> HIDE DEF todo, f, F
    <3> QED
      BY <2>3, <3>1, <3>2
  <2> QED
    BY <2>1, <2>2, <2>3
<1> HIDE DEF todo, p, f
<1>3. SesOK' /\ \A x \in Session : SameSession(x) /\ ClosingMoves(x)
  BY NoneChange DEF FailProtocol
<1>4. UNCHANGED <<con, voiceTurn, entry, gate, text, lease>> /\ ~Running /\ ses[s].state # "none"
  BY HearingFacts DEF FailProtocol
<1>5. "consumer" = "consumer" <=> "fail" \in F
  OBVIOUS
<1>6. F \in {{"fail", "over", "unlist"}, {"shut", "over"}}
  OBVIOUS
<1> HIDE DEF F
<1> QED
  BY <1>1, <1>2, <1>3, <1>4, <1>5, <1>6, EndBegins

LEMMA EndingProgram ==
  ASSUME NEW s, NEW f, NEW F \in {{"fail", "over", "unlist"}, {"shut", "over"}}, Good(f, F)
  PROVE  \E E \in {{}, {"tell"}, {"end", "tell"}}, D \in {{}, {"dismiss"}} :
           /\ Good(Ending(s) \o (IF ses[s].active = 0 THEN <<>> ELSE <<"dismiss">>) \o f, (E \cup D) \cup F)
           /\ D = {} <=> ses[s].active = 0
           /\ E # {} => D # {}
           /\ "end" \notin E /\ D # {} => voiceTurn[ses[s].active] = "none"
<1> DEFINE q == IF ses[s].active = 0 THEN <<>> ELSE <<"dismiss">>
<1>1. PICK D \in {{}, {"dismiss"}} : Good(q, D) /\ (D = {} <=> ses[s].active = 0)
  BY EndPrograms
<1>2. PICK E \in {{}, {"end", "tell"}} :
        /\ Good(Ending(s), E)
        /\ E = {} => ses[s].active = 0 \/ voiceTurn[ses[s].active] = "none"
        /\ E # {} => ses[s].active # 0
  BY EndingSteps
<1> HIDE DEF q
<1>3. Good(Ending(s) \o q \o f, (E \cup D) \cup F)
  BY <1>1, <1>2, OverSteps
<1> QED
  BY <1>1, <1>2, <1>3 DEF q

LEMMA FailBeginsStep ==
  ASSUME RealtimeAssumption, RealtimeInv, NEW s \in Session, FailBegins(s)
  PROVE  RealtimeInv' /\ LeaseKept
<1>1. ses[s] \in SesSet /\ Bounded(ses[s]) /\ ~Running
  BY SessionFacts DEF FailBegins
<1>2. PICK to \in {"ending", "dead"} : ses' = [ses EXCEPT ![s].consumer = to]
  BY DEF FailBegins
<1>3. SesOK' /\ \A x \in Session : SameSession(x) /\ ClosingMoves(x)
  <2> DEFINE q == [ses[s] EXCEPT !.consumer = to]
  <2>1. /\ q \in SesSet /\ q.queue = ses[s].queue /\ q.retired = ses[s].retired
        /\ q.state = ses[s].state /\ q.active = ses[s].active /\ q.said = ses[s].said
        /\ q.closing = ses[s].closing /\ q.provider = ses[s].provider
    BY <1>1 DEF SesSet
  <2>2. Bounded(q) /\ ses' = [ses EXCEPT ![s] = q]
    BY <1>1, <1>2, <2>1 DEF Bounded
  <2> HIDE DEF q
  <2> QED
    BY <2>1, <2>2, OneQuiet
<1>4. UNCHANGED <<con, voiceTurn, entry, gate, text, lease, counts>>
  BY DEF FailBegins
<1> DEFINE f == <<"fail", "over", "unlist">>
           F == {"fail", "over", "unlist"}
           todo == Ending(s) \o (IF ses[s].active = 0 THEN <<>> ELSE <<"dismiss">>) \o f
<1>5. CASE ses[s].state \in Live /\ Run(s, "consumer", "FAILED", todo)
  <2>1. \E E \in {{}, {"tell"}, {"end", "tell"}}, D \in {{}, {"dismiss"}} :
          /\ Good(todo, (E \cup D) \cup F)
          /\ D = {} <=> ses[s].active = 0
          /\ E # {} => D # {}
          /\ "end" \notin E /\ D # {} => voiceTurn[ses[s].active] = "none"
    <3>1. Good(f, F) /\ F \in {{"fail", "over", "unlist"}, {"shut", "over"}}
      BY EndPrograms
    <3> HIDE DEF f, F
    <3> QED
      BY <3>1, EndingProgram
  <2>2. "fail" \in F /\ F \in {{"fail", "over", "unlist"}, {"shut", "over"}} /\ ses[s].state # "none"
    BY <1>5, SessionFacts
  <2> HIDE DEF todo, F
  <2> QED
    BY <1>1, <1>3, <1>4, <1>5, <2>1, <2>2, EndBegins
<1>6. CASE op' = op
  <2>1. text' \in BOOLEAN /\ ConOK' /\ \A x \in Session : SameConnection(x)
    BY <1>4, NoneChange DEF RealtimeInv, Typed, RestOK
  <2> QED
    BY <1>3, <1>4, <1>6, <2>1, Aside
<1> QED
  BY <1>5, <1>6 DEF FailBegins

LEMMA CloseBeginsStep ==
  ASSUME RealtimeAssumption, RealtimeInv, NEW s \in Session, CloseBegins(s)
  PROVE  RealtimeInv' /\ LeaseKept
<1>1. ses[s] \in SesSet /\ Bounded(ses[s]) /\ ~Running /\ ses[s].state # "none"
  <2>1. SessionOK(s) /\ ses[s].closing = "asked"
    BY SessionFacts DEF CloseBegins
  <2> QED
    BY <2>1, SessionFacts DEF CloseBegins, SessionOK
<1>2. PICK to \in {"running", "unlisting"} :
        ses' = [ses EXCEPT ![s].closing = to] /\ (to = "unlisting" => ses[s].state \notin Live)
  BY DEF CloseBegins
<1>3. SesOK' /\ \A x \in Session : SameSession(x) /\ ClosingMoves(x)
  <2> DEFINE q == [ses[s] EXCEPT !.closing = to]
  <2>1. /\ q \in SesSet /\ q.queue = ses[s].queue /\ q.retired = ses[s].retired
        /\ q.state = ses[s].state /\ q.active = ses[s].active /\ q.said = ses[s].said
        /\ q.closing = to /\ q.provider = ses[s].provider
    BY <1>1 DEF SesSet
  <2>2. Bounded(q) /\ ses' = [ses EXCEPT ![s] = q]
    BY <1>1, <1>2, <2>1 DEF Bounded
  <2> HIDE DEF q
  <2> QED
    BY <1>1, <1>2, <2>1, <2>2, OneQuiet
<1>4. UNCHANGED <<con, voiceTurn, entry, gate, text, lease, counts>>
  BY DEF CloseBegins
<1> DEFINE f == <<"shut", "over">>
           F == {"shut", "over"}
           todo == Ending(s) \o (IF ses[s].active = 0 THEN <<>> ELSE <<"dismiss">>) \o f
<1>5. CASE ses[s].state \in Live /\ Run(s, "close", "INTERRUPTED", todo)
  <2>1. \E E \in {{}, {"tell"}, {"end", "tell"}}, D \in {{}, {"dismiss"}} :
          /\ Good(todo, (E \cup D) \cup F)
          /\ D = {} <=> ses[s].active = 0
          /\ E # {} => D # {}
          /\ "end" \notin E /\ D # {} => voiceTurn[ses[s].active] = "none"
    <3>1. Good(f, F) /\ F \in {{"fail", "over", "unlist"}, {"shut", "over"}}
      BY EndPrograms
    <3> HIDE DEF f, F
    <3> QED
      BY <3>1, EndingProgram
  <2>2. "fail" \notin F /\ F \in {{"fail", "over", "unlist"}, {"shut", "over"}}
    OBVIOUS
  <2> HIDE DEF todo, F
  <2> QED
    BY <1>1, <1>3, <1>4, <1>5, <2>1, <2>2, EndBegins
<1>6. CASE op' = op
  <2>1. text' \in BOOLEAN /\ ConOK' /\ \A x \in Session : SameConnection(x)
    BY <1>4, NoneChange DEF RealtimeInv, Typed, RestOK
  <2> QED
    BY <1>3, <1>4, <1>6, <2>1, Aside
<1> QED
  BY <1>5, <1>6 DEF CloseBegins

-----------------------------------------------------------------------------
(* A transition stops with an exception.                                   *)
LEMMA RaisedTyped ==
  ASSUME NEW s \in Session, NEW r \in SesSet, Bounded(r), Raises(s, r)
  PROVE  /\ Done
         /\ con' = con \/ (op.by = "client" /\ con' = Left(s))
         /\ \E q \in SesSet :
              /\ Bounded(q) /\ ses' = [ses EXCEPT ![s] = q]
              /\ q.state = r.state /\ q.active = r.active /\ q.said = r.said /\ q.provider = r.provider
              /\ \/ q.closing \in {r.closing, "asked"}
                 \/ q.closing = "unlisting" /\ op.by = "close"
<1>1. CASE op.by = "client" /\ con' = Left(s)
           /\ ses' = [ses EXCEPT ![s] =
                [r EXCEPT !.stopped = TRUE,
                          !.closing = IF @ \in {"no", "done"} THEN "asked" ELSE @]]
  <2> DEFINE c == IF r.closing \in {"no", "done"} THEN "asked" ELSE r.closing
             q == [r EXCEPT !.stopped = TRUE, !.closing = c]
  <2>1. c \in {r.closing, "asked"} /\ c \in {"no", "asked", "running", "unlisting", "done"}
    BY DEF SesSet
  <2>2. ses' = [ses EXCEPT ![s] = q]
    BY <1>1
  <2> HIDE DEF c
  <2>3. q \in SesSet /\ q.state = r.state /\ q.active = r.active /\ q.said = r.said
        /\ q.provider = r.provider /\ q.closing = c /\ q.queue = r.queue /\ q.retired = r.retired
    BY <2>1 DEF SesSet
  <2> HIDE DEF q
  <2> QED
    BY <1>1, <2>1, <2>2, <2>3 DEF Bounded, Raises
<1>2. CASE op.by = "close" /\ con' = con /\ ses' = [ses EXCEPT ![s] = [r EXCEPT !.closing = "unlisting"]]
  <2> DEFINE q == [r EXCEPT !.closing = "unlisting"]
  <2>1. q \in SesSet /\ q.state = r.state /\ q.active = r.active /\ q.said = r.said
        /\ q.provider = r.provider /\ q.closing = "unlisting" /\ q.queue = r.queue /\ q.retired = r.retired
    BY DEF SesSet
  <2>2. ses' = [ses EXCEPT ![s] = q]
    BY <1>2
  <2> HIDE DEF q
  <2> QED
    BY <1>2, <2>1, <2>2 DEF Bounded, Raises
<1>3. CASE op.by = "consumer" /\ con' = con
           /\ ses' = [ses EXCEPT ![s] =
                [r EXCEPT !.consumer = IF @ = "reading" THEN "failing" ELSE "dead"]]
  <2> DEFINE c == IF r.consumer = "reading" THEN "failing" ELSE "dead"
             q == [r EXCEPT !.consumer = c]
  <2>1. c \in {"failing", "dead"} /\ ses' = [ses EXCEPT ![s] = q]
    BY <1>3
  <2> HIDE DEF c
  <2>2. q \in SesSet /\ q.state = r.state /\ q.active = r.active /\ q.said = r.said
        /\ q.provider = r.provider /\ q.closing = r.closing /\ q.queue = r.queue /\ q.retired = r.retired
    BY <2>1 DEF SesSet
  <2> HIDE DEF q
  <2> QED
    BY <1>3, <2>1, <2>2 DEF Bounded, Raises
<1> QED
  BY <1>1, <1>2, <1>3 DEF Raises

(* Who holds voice_transition for a session that is there.                 *)
LEMMA HolderFacts ==
  ASSUME RealtimeAssumption, RealtimeInv, Due # {}
  PROVE  /\ op.s \in Session /\ ses[op.s].state # "none"
         /\ op.by = "client" => con[op.s].at \notin Opening \cup {"new"}
         /\ OpOK /\ ProgramOK /\ RestOK /\ ses[op.s] \in SesSet /\ Bounded(ses[op.s])
<1>1. op.s \in Session
  BY DEF RealtimeInv, Typed, OpOK, OpSet
<1> QED
  BY <1>1, SessionFacts DEF RealtimeInv, Typed, EndDue, Mine, Opening

LEMMA LeftConnection ==
  ASSUME RealtimeAssumption, RealtimeInv, Due # {}, con' = con \/ (op.by = "client" /\ con' = Left(op.s))
  PROVE  ConOK' /\ \A x \in Session : SameConnection(x)
<1>1. CASE con' = con
  BY <1>1, NoneChange
<1>2. CASE op.by = "client" /\ con' = Left(op.s)
  <2>1. ConOK' /\ con'[op.s].at = "leaving" /\ con'[op.s].cmd = "none"
        /\ \A x \in Session : x # op.s => con'[x] = con[x]
    BY <1>2, LeftTyped, HolderFacts DEF RealtimeInv, Typed
  <2>2. SameConnection(op.s)
    BY <1>2, <2>1, HolderFacts DEF SameConnection
  <2> QED
    BY <2>1, <2>2, SameElsewhere
<1> QED
  BY <1>1, <1>2

(* An exception that changes nothing else: the next steps are not taken.   *)
LEMMA RaisesQuietly ==
  ASSUME RealtimeAssumption, RealtimeInv, Due # {}, NEW r \in SesSet, Bounded(r), Raises(op.s, r),
         r.state = ses[op.s].state, r.active = ses[op.s].active, r.said = ses[op.s].said,
         r.provider => ses[op.s].provider, r.closing = ses[op.s].closing,
         op.by = "close" => errors' > 0,
         At("undo") \/ Due \cap {"announce", "undo"} = {} \/ ses[op.s].active # 0,
         UNCHANGED <<voiceTurn, entry, gate, lease, text>>, Counted
  PROVE  RealtimeInv' /\ LeaseKept
<1>1. op.s \in Session /\ ses[op.s].state # "none" /\ RestOK
  BY HolderFacts
<1>2. PICK q \in SesSet :
        /\ Bounded(q) /\ ses' = [ses EXCEPT ![op.s] = q]
        /\ q.state = r.state /\ q.active = r.active /\ q.said = r.said /\ q.provider = r.provider
        /\ \/ q.closing \in {r.closing, "asked"}
           \/ q.closing = "unlisting" /\ op.by = "close"
  BY <1>1, RaisedTyped
<1>3. Done /\ (con' = con \/ (op.by = "client" /\ con' = Left(op.s)))
  BY <1>1, RaisedTyped
<1>4. SesOK' /\ \A x \in Session : SameSession(x) /\ ClosingMoves(x)
  BY <1>1, <1>2, OneQuiet
<1>5. ConOK' /\ \A x \in Session : SameConnection(x)
  BY <1>3, LeftConnection
<1>6. RestOK'
  BY <1>1, CountedRest DEF RestOK
<1>7. OpOK' /\ Due' = {}
  BY <1>3, Stops
<1>8. Typed'
  BY <1>4, <1>5, <1>6, <1>7 DEF RealtimeInv, Typed, TurnsOK
<1>9. ProgramOK' /\ TurnDue' /\ StartDue' /\ EndDue'
  BY <1>7 DEF ProgramOK, TurnDue, StartDue, EndDue
<1>10. SessionsOK' /\ FreshOK' /\ TurnAttended'
  BY <1>4, <1>5, <1>6, QuietSessions DEF Counted
<1>11. LeaseOK'
  BY <1>4, <1>5, <1>7, QuietLease
<1>12. LeaseKept
  BY <1>4, <1>5, HoldersStay DEF LeaseKept
<1> QED
  BY <1>8, <1>9, <1>10, <1>11, <1>12 DEF RealtimeInv

-----------------------------------------------------------------------------
(* A transition goes on, and its step has changed nothing that the         *)
(* invariant speaks of.                                                    *)
QuietSteps == {"interrupt", "tell", "news", "count", "check", "reseed", "announce", "over", "unlist"}

LEMMA GoesOn ==
  ASSUME RealtimeAssumption, RealtimeInv, NEW x \in QuietSteps, At(x), Continue,
         SesOK', ConOK', \A o \in Session : SameSession(o) /\ SameConnection(o) /\ ClosingMoves(o),
         UNCHANGED <<voiceTurn, gate, lease, text>>, entry' = entry \/ entry' = "none", Counted
  PROVE  RealtimeInv' /\ LeaseKept
<1>1. OpOK /\ RestOK /\ ProgramOK /\ op.s \in Session
  BY DEF RealtimeInv, Typed, OpOK, OpSet
<1>2. x \in Due /\ \A y \in Due : y = x \/ Rank[x] < Rank[y]
  BY <1>1, NextDue
<1>3. /\ OpOK' /\ (x # "news" => Due' = Due \ {x})
      /\ Due' \subseteq Due /\ Due \subseteq Due' \cup {x}
      /\ Due' # {} => op'.s = op.s /\ op'.by = op.by /\ op'.to = op.to
  BY <1>1, Continues
<1>4. ProgramOK'
  BY <1>1, ProgramContinues
<1>5. entry' \in Session \cup {"none"} /\ gate' \in Session \cup {"none"} /\ lease' \in BOOLEAN /\ text' \in BOOLEAN
  BY <1>1 DEF RestOK
<1>6. RestOK'
  BY <1>1, <1>5, CountedRest
<1>7. Typed'
  BY <1>3, <1>6 DEF RealtimeInv, Typed, TurnsOK
<1>8. SessionsOK' /\ FreshOK' /\ TurnAttended'
  BY <1>6, QuietSessions DEF Counted
<1>9. LeaseOK'
  BY <1>3, QuietLease
<1>10. LeaseKept
  <2>1. x = "announce" => ses[op.s].active # 0
    <3>1. x = "announce" => "start" \notin Due
      BY <1>2 DEF Rank
    <3> QED
      BY <1>2, <3>1 DEF RealtimeInv, StartDue, Mine
  <2>2. x # "announce" => (Due' \cap {"announce", "undo"} = {} => Due \cap {"announce", "undo"} = {})
    BY <1>3 DEF QuietSteps
  <2> QED
    BY <1>3, <2>1, <2>2, HoldersStay
<1>11. CASE Due' = {}
  BY <1>7, <1>8, <1>9, <1>11, <1>10 DEF RealtimeInv, ProgramOK, TurnDue, StartDue, EndDue
<1>12. CASE Due' # {}
  <2>1. SameSession(op.s) /\ SameConnection(op.s) /\ op'.s = op.s /\ op'.by = op.by
    BY <1>1, <1>3, <1>12
  <2>2. /\ Mine'.state = Mine.state /\ Mine'.active = Mine.active /\ (Mine.said => Mine'.said)
        /\ con[op.s].at \notin Opening \cup {"new"} => con'[op'.s].at \notin Opening \cup {"new"}
    BY <2>1 DEF Mine, SameSession, SameConnection, Opening
  <2>3. TurnDue'
    BY <1>3, <2>2 DEF RealtimeInv, TurnDue, QuietSteps
  <2>4. x = "announce" => "start" \notin Due /\ "undo" \notin Due
    BY <1>2 DEF Rank
  <2>5. StartDue'
    BY <1>3, <2>2, <2>4 DEF RealtimeInv, StartDue, QuietSteps, Counted
  <2>6. EndDue'
    BY <1>3, <2>1, <2>2 DEF RealtimeInv, EndDue, QuietSteps, Opening
  <2> QED
    BY <1>4, <1>7, <1>8, <1>9, <1>10, <2>3, <2>5, <2>6 DEF RealtimeInv
<1> QED
  BY <1>11, <1>12

(* A start is given up: what is left is to undo it.                        *)
LEMMA Undoing ==
  ASSUME RealtimeAssumption, RealtimeInv, NEW x \in {"reseed", "start", "announce"}, At(x), Undo,
         SesOK', ConOK', \A o \in Session : SameSession(o) /\ SameConnection(o) /\ ClosingMoves(o),
         UNCHANGED <<voiceTurn, gate, lease, text, entry>>, Counted
  PROVE  RealtimeInv' /\ LeaseKept
<1>1. OpOK /\ RestOK /\ ProgramOK /\ op.s \in Session
  BY DEF RealtimeInv, Typed, OpOK, OpSet
<1>2. x \in Due /\ \A y \in Due : y = x \/ Rank[x] < Rank[y]
  BY <1>1, NextDue
<1>3. op.by = "client" /\ "announce" \in Due /\ "retire" \notin Due /\ (x # "announce" <=> "start" \in Due)
  BY <1>1, <1>2 DEF ProgramOK, ByClient, Rank
<1>4. OpOK' /\ Due' = {"undo"} /\ op'.s = op.s /\ op'.by = "client"
  <2>1. Good(<<"undo">>, {"undo"})
    BY OneStep DEF StepName
  <2> QED
    BY <1>1, <1>3, <2>1 DEF Undo, Good, OpOK, OpSet, Due
<1>5. RestOK'
  BY <1>1, CountedRest DEF RestOK
<1>6. Typed'
  BY <1>4, <1>5 DEF RealtimeInv, Typed, TurnsOK
<1>7. SessionsOK' /\ FreshOK' /\ TurnAttended'
  BY <1>5, QuietSessions DEF Counted
<1>8. LeaseOK'
  BY <1>3, <1>4, QuietLease
<1>9. SameSession(op.s) /\ SameConnection(op.s)
  BY <1>1
<1>10. /\ Mine'.state = Mine.state /\ Mine'.active = Mine.active
       /\ con[op.s].at \notin Opening \cup {"new"} => con'[op'.s].at \notin Opening \cup {"new"}
  BY <1>4, <1>9 DEF Mine, SameSession, SameConnection, Opening
<1>11. ProgramOK' /\ TurnDue'
  BY <1>4 DEF ProgramOK, TurnDue, ByClient, ByConsumer
<1>12. StartDue'
  BY <1>2, <1>3, <1>4, <1>10 DEF RealtimeInv, StartDue
<1>13. EndDue'
  BY <1>3, <1>2, <1>4, <1>10 DEF RealtimeInv, EndDue, Opening
<1>14. LeaseKept
  BY <1>4, HoldersStay
<1> QED
  BY <1>6, <1>7, <1>8, <1>11, <1>12, <1>13, <1>14 DEF RealtimeInv

-----------------------------------------------------------------------------
(* Events put into the queue of a session.                                 *)
LEMMA QueuedTyped ==
  ASSUME RealtimeAssumption, NEW r \in SesSet, Bounded(r), NEW e \in Event, Len(r.queue) < QueueLimit
  PROVE  \E q \in SesSet :
           /\ q = [r EXCEPT !.queue = Append(r.queue, e)] /\ Bounded(q)
           /\ q.state = r.state /\ q.active = r.active /\ q.said = r.said /\ q.provider = r.provider
           /\ q.closing = r.closing
<1> DEFINE l == Append(r.queue, e)
           q == [r EXCEPT !.queue = l]
<1>1. r.queue \in Seq(Event) /\ QueueLimit \in Nat
  BY DEF SesSet, RealtimeAssumption
<1>2. l \in Seq(Event) /\ Len(l) = Len(r.queue) + 1 /\ Len(r.queue) \in Nat
  BY <1>1
<1> HIDE DEF l
<1>3. /\ q \in SesSet /\ q.queue = l /\ q.retired = r.retired
      /\ q.state = r.state /\ q.active = r.active /\ q.said = r.said /\ q.provider = r.provider
      /\ q.closing = r.closing
  BY <1>2 DEF SesSet
<1>4. Bounded(q)
  BY <1>1, <1>2, <1>3 DEF Bounded
<1> QED
  BY <1>3, <1>4 DEF l

LEMMA PutTyped ==
  ASSUME RealtimeAssumption, RealtimeInv, NEW s \in Session, Room(s), ses' = Put(s, <<"news", 0>>)
  PROVE  SesOK' /\ \A x \in Session : SameSession(x) /\ ClosingMoves(x)
<1>1. <<"news", 0>> \in Event /\ ses[s] \in SesSet /\ Bounded(ses[s]) /\ Len(ses[s].queue) < QueueLimit
  BY SessionFacts DEF Event, Room, RealtimeAssumption
<1>2. PICK q \in SesSet :
        /\ q = [ses[s] EXCEPT !.queue = Append(ses[s].queue, <<"news", 0>>)] /\ Bounded(q)
        /\ q.state = ses[s].state /\ q.active = ses[s].active /\ q.said = ses[s].said /\ q.provider = ses[s].provider
        /\ q.closing = ses[s].closing
  BY <1>1, QueuedTyped
<1>3. ses' = [ses EXCEPT ![s] = q]
  BY <1>2 DEF Put
<1> QED
  BY <1>2, <1>3, OneQuiet

LEMMA ToldTyped ==
  ASSUME RealtimeAssumption, SesOK, NEW s \in Session, NEW r \in SesSet, Bounded(r), r.queue = ses[s].queue,
         NEW e \in Event, NEW after, after = [ses EXCEPT ![s] = r], Told(s, e, after)
  PROVE  \E q \in SesSet :
           /\ Bounded(q) /\ ses' = [ses EXCEPT ![s] = q]
           /\ q.state = r.state /\ q.active = r.active /\ q.said = r.said /\ q.provider = r.provider
           /\ q.closing = r.closing
<1>1. CASE ses' = after
  BY <1>1
<1>2. CASE ~ses[s].stopped /\ Room(s) /\ ses' = [after EXCEPT ![s].queue = Append(@, e)]
  <2>1. PICK q \in SesSet :
          /\ q = [r EXCEPT !.queue = Append(r.queue, e)] /\ Bounded(q)
          /\ q.state = r.state /\ q.active = r.active /\ q.said = r.said /\ q.provider = r.provider
          /\ q.closing = r.closing
    BY <1>2, QueuedTyped DEF Room
  <2>2. ses' = [ses EXCEPT ![s] = q]
    BY <1>2, <2>1 DEF SesOK
  <2> QED
    BY <2>1, <2>2
<1> QED
  BY <1>1, <1>2 DEF Told

LEMMA TellEndedStep ==
  ASSUME RealtimeAssumption, RealtimeInv, TellEnded(op.s)
  PROVE  RealtimeInv' /\ LeaseKept
<1>1. Due # {} /\ At("tell") /\ Continue
      /\ UNCHANGED <<con, voiceTurn, entry, gate, lease, text, counts>>
  BY RunningDue DEF TellEnded, At, RealtimeInv, Typed
<1>2. op.s \in Session /\ ses[op.s] \in SesSet /\ Bounded(ses[op.s]) /\ RestOK
  BY <1>1, HolderFacts
<1> DEFINE e == <<"ended", ses[op.s].active>>
<1>3. e \in Event
  BY <1>2 DEF Event, SesSet
<1>4. Told(op.s, e, ses) /\ ses = [ses EXCEPT ![op.s] = ses[op.s]]
  BY <1>2 DEF TellEnded, RealtimeInv, Typed, SesOK
<1> HIDE DEF e
<1>5. PICK q \in SesSet :
        /\ Bounded(q) /\ ses' = [ses EXCEPT ![op.s] = q]
        /\ q.state = ses[op.s].state /\ q.active = ses[op.s].active /\ q.said = ses[op.s].said
        /\ q.provider = ses[op.s].provider /\ q.closing = ses[op.s].closing
  BY <1>2, <1>3, <1>4, ToldTyped DEF RealtimeInv, Typed
<1>6. SesOK' /\ \A x \in Session : SameSession(x) /\ ClosingMoves(x)
  BY <1>2, <1>5, OneQuiet
<1>7. ConOK' /\ \A x \in Session : SameConnection(x)
  BY <1>1, NoneChange
<1>8. Counted
  BY <1>1, <1>2, CountsMove
<1> QED
  BY <1>1, <1>6, <1>7, <1>8, GoesOn DEF QuietSteps

LEMMA TellOverStep ==
  ASSUME RealtimeAssumption, RealtimeInv, TellOver(op.s)
  PROVE  RealtimeInv' /\ LeaseKept
<1>1. Due # {} /\ At("over") /\ Continue
      /\ UNCHANGED <<con, voiceTurn, entry, gate, lease, text, counts>>
  BY RunningDue DEF TellOver, At, RealtimeInv, Typed
<1>2. op.s \in Session /\ ses[op.s] \in SesSet /\ Bounded(ses[op.s]) /\ RestOK /\ ses[op.s].state # "none" /\ OpOK
  BY <1>1, HolderFacts
<1> DEFINE c == IF op.by = "close" THEN "unlisting" ELSE ses[op.s].closing
           r == [ses[op.s] EXCEPT !.over = TRUE, !.closing = c]
           e == <<"over", 0>>
<1>3. e \in Event
  BY DEF Event, RealtimeAssumption
<1>4. c \in {"unlisting", ses[op.s].closing} /\ c \in {"no", "asked", "running", "unlisting", "done"}
  BY <1>2 DEF SesSet
<1>5. Told(op.s, e, [ses EXCEPT ![op.s] = r])
  <2>1. [ses EXCEPT ![op.s].over = TRUE, ![op.s].closing = IF op.by = "close" THEN "unlisting" ELSE @]
          = [ses EXCEPT ![op.s] = r]
    BY <1>2 DEF RealtimeInv, Typed, SesOK
  <2> QED
    BY <2>1 DEF TellOver
<1> HIDE DEF c
<1>6. /\ r \in SesSet /\ r.queue = ses[op.s].queue /\ r.retired = ses[op.s].retired
      /\ r.state = ses[op.s].state /\ r.active = ses[op.s].active /\ r.said = ses[op.s].said
      /\ r.provider = ses[op.s].provider /\ r.closing = c
  BY <1>2, <1>4 DEF SesSet
<1> HIDE DEF e, r
<1>7. PICK q \in SesSet :
        /\ Bounded(q) /\ ses' = [ses EXCEPT ![op.s] = q]
        /\ q.state = ses[op.s].state /\ q.active = ses[op.s].active /\ q.said = ses[op.s].said
        /\ q.provider = ses[op.s].provider /\ q.closing = c
  BY <1>2, <1>3, <1>5, <1>6, ToldTyped DEF RealtimeInv, Typed, Bounded
<1>8. ses[op.s].state \notin Live
  <2>1. "over" \in Due /\ Due \cap {"fail", "shut"} = {}
    <3>1. "over" \in Due /\ \A y \in Due : y = "over" \/ Rank["over"] < Rank[y]
      BY <1>1, <1>2, NextDue
    <3> QED
      BY <3>1 DEF Rank
  <2> QED
    BY <2>1 DEF RealtimeInv, EndDue, Mine, Live
<1>9. SesOK' /\ \A x \in Session : SameSession(x) /\ ClosingMoves(x)
  BY <1>2, <1>4, <1>7, <1>8, OneQuiet
<1>10. ConOK' /\ \A x \in Session : SameConnection(x)
  BY <1>1, NoneChange
<1>11. Counted
  BY <1>1, <1>2, CountsMove
<1> QED
  BY <1>1, <1>9, <1>10, <1>11, GoesOn DEF QuietSteps

LEMMA InterruptStep ==
  ASSUME RealtimeAssumption, RealtimeInv, ProviderInterrupt(op.s)
  PROVE  RealtimeInv' /\ LeaseKept
<1>1. Due # {} /\ At("interrupt") /\ UNCHANGED <<voiceTurn, entry, gate, lease, text>> /\ OpOK
  BY RunningDue DEF ProviderInterrupt, At, RealtimeInv, Typed
<1>2. op.s \in Session /\ ses[op.s] \in SesSet /\ Bounded(ses[op.s]) /\ RestOK /\ op.by = "client"
      /\ ses[op.s].active # 0
  <2>1. "interrupt" \in Due
    BY <1>1, NextDue
  <2> QED
    BY <1>1, <2>1, HolderFacts DEF ProgramOK, ByClient, RealtimeInv, TurnDue, Mine
<1>3. Counted
  BY <1>2, CountsMove DEF ProviderInterrupt
<1>4. CASE Continue /\ UNCHANGED <<ses, con, counts>>
  BY <1>1, <1>3, <1>4, NoneChange, GoesOn DEF QuietSteps
<1>5. CASE ProviderFails /\ Raises(op.s, ses[op.s])
  BY <1>1, <1>2, <1>3, <1>5, RaisesQuietly
<1> QED
  BY <1>4, <1>5 DEF ProviderInterrupt

LEMMA TellNewsStep ==
  ASSUME RealtimeAssumption, RealtimeInv, TellNews(op.s)
  PROVE  RealtimeInv' /\ LeaseKept
<1>1. Due # {} /\ At("news") /\ UNCHANGED <<con, voiceTurn, entry, gate, lease, text, counts>> /\ OpOK
  BY RunningDue DEF TellNews, At, RealtimeInv, Typed
<1>2. op.s \in Session /\ ses[op.s] \in SesSet /\ Bounded(ses[op.s]) /\ RestOK
  BY <1>1, HolderFacts
<1>3. ConOK' /\ \A x \in Session : SameConnection(x)
  BY <1>1, NoneChange
<1>4. Counted
  BY <1>1, <1>2, CountsMove
<1>5. CASE Room(op.s) /\ ses' = Put(op.s, <<"news", 0>>) /\ Continue
  BY <1>1, <1>2, <1>3, <1>4, <1>5, PutTyped, GoesOn DEF QuietSteps
<1>6. CASE ses' = [ses EXCEPT ![op.s].consumer = "dead"] /\ Done
  <2> DEFINE q == [ses[op.s] EXCEPT !.consumer = "dead"]
  <2>1. /\ q \in SesSet /\ q.queue = ses[op.s].queue /\ q.retired = ses[op.s].retired
        /\ q.state = ses[op.s].state /\ q.active = ses[op.s].active /\ q.said = ses[op.s].said
        /\ q.provider = ses[op.s].provider /\ q.closing = ses[op.s].closing
    BY <1>2 DEF SesSet
  <2>2. ses' = [ses EXCEPT ![op.s] = q] /\ Bounded(q)
    BY <1>2, <1>6, <2>1 DEF Bounded
  <2> HIDE DEF q
  <2>3. SesOK' /\ \A x \in Session : SameSession(x) /\ ClosingMoves(x)
    BY <1>2, <2>1, <2>2, OneQuiet
  <2>4. OpOK' /\ Due' = {}
    BY <1>6, Stops
  <2>5. RestOK'
    BY <1>1, <1>2, <1>4, CountedRest DEF RestOK
  <2>6. Typed'
    BY <1>1, <1>3, <2>3, <2>4, <2>5 DEF RealtimeInv, Typed, TurnsOK
  <2>7. ProgramOK' /\ TurnDue' /\ StartDue' /\ EndDue'
    BY <2>4 DEF ProgramOK, TurnDue, StartDue, EndDue
  <2>8. SessionsOK' /\ FreshOK' /\ TurnAttended'
    BY <1>1, <1>3, <1>4, <2>3, <2>5, QuietSessions DEF Counted
  <2>9. LeaseOK'
    BY <1>1, <1>3, <2>3, <2>4, QuietLease
  <2>10. LeaseKept
    <3>1. Due \cap {"announce", "undo"} = {}
      BY <1>1, NextDue DEF RealtimeInv, ProgramOK
    <3> QED
      BY <1>1, <1>3, <2>3, <3>1, HoldersStay
  <2> QED
    BY <2>6, <2>7, <2>8, <2>9, <2>10 DEF RealtimeInv
<1> QED
  BY <1>5, <1>6 DEF TellNews

(* The transitions that look at the context, and those that renew it.      *)
LEMMA ReseedingProgram ==
  ASSUME OpOK, At("check"), op' = [op EXCEPT !.todo = <<"reseed">> \o Tail(@)]
  PROVE  /\ OpOK' /\ Due' = {"reseed"} \cup (Due \ {"check"})
         /\ op'.s = op.s /\ op'.by = op.by /\ op'.to = op.to
<1>1. op.todo \in Seq(StepName) /\ op.todo # <<>> /\ Sorted(op.todo) /\ Head(op.todo) = "check"
  BY DEF OpOK, OpSet, At, Running
<1>2. /\ Tail(op.todo) \in Seq(StepName) /\ Sorted(Tail(op.todo))
      /\ Steps(Tail(op.todo)) = Due \ {"check"}
      /\ \A y \in Due : y = "check" \/ Rank["check"] < Rank[y]
  BY <1>1, TailSteps DEF Due
<1>3. Good(<<"reseed">>, {"reseed"}) /\ Good(Tail(op.todo), Due \ {"check"})
  BY <1>2, OneStep DEF Good, StepName
<1>4. \A x \in {"reseed"}, y \in Due \ {"check"} : Rank[x] < Rank[y]
  BY <1>2 DEF Rank
<1> DEFINE todo == <<"reseed">> \o Tail(op.todo)
<1>5. Good(todo, {"reseed"} \cup (Due \ {"check"}))
  BY <1>3, <1>4, Joined
<1>6. op' = [op EXCEPT !.todo = todo]
  OBVIOUS
<1> HIDE DEF todo
<1> QED
  BY <1>5, <1>6 DEF Good, OpOK, OpSet, Due

LEMMA CheckContextStep ==
  ASSUME RealtimeAssumption, RealtimeInv, CheckContext(op.s)
  PROVE  RealtimeInv' /\ LeaseKept
<1>1. Due # {} /\ At("check") /\ UNCHANGED <<ses, con, voiceTurn, entry, gate, lease, text, counts>> /\ OpOK
  BY RunningDue DEF CheckContext, At, RealtimeInv, Typed
<1>2. op.s \in Session /\ RestOK /\ ProgramOK
  BY <1>1, HolderFacts
<1>3. /\ SesOK' /\ ConOK' /\ \A x \in Session : SameSession(x) /\ SameConnection(x) /\ ClosingMoves(x)
  BY <1>1, NoneChange
<1>4. Counted
  BY <1>1, <1>2, CountsMove
<1>5. CASE Continue
  BY <1>1, <1>3, <1>4, <1>5, GoesOn DEF QuietSteps
<1>6. CASE op' = [op EXCEPT !.todo = <<"reseed">> \o Tail(@)]
  <2>1. /\ OpOK' /\ Due' = {"reseed"} \cup (Due \ {"check"})
        /\ op'.s = op.s /\ op'.by = op.by /\ op'.to = op.to
    BY <1>1, <1>6, ReseedingProgram
  <2>2. RestOK'
    BY <1>2, <1>4, <1>1, CountedRest DEF RestOK
  <2>3. Typed'
    BY <1>1, <1>3, <2>1, <2>2 DEF RealtimeInv, Typed, TurnsOK
  <2>4. SessionsOK' /\ FreshOK' /\ TurnAttended'
    BY <1>1, <1>3, <1>4, <2>2, QuietSessions DEF Counted
  <2>5. "check" \in Due /\ "announce" \in Due
    BY <1>1, <1>2, NextDue DEF ProgramOK
  <2>6. LeaseOK'
    BY <1>1, <1>3, <2>1, <2>5, QuietLease
  <2>7. ProgramOK'
    BY <1>2, <2>1, <2>5 DEF ProgramOK, ByClient, ByConsumer
  <2>8. Mine' = Mine /\ interactions' = interactions /\ con'[op'.s] = con[op.s] /\ voiceTurn' = voiceTurn
    BY <1>1, <2>1 DEF Mine, counts
  <2>9. TurnDue'
    BY <2>1, <2>8 DEF RealtimeInv, TurnDue
  <2>10. StartDue'
    BY <2>1, <2>8 DEF RealtimeInv, StartDue
  <2>11. EndDue'
    BY <2>1, <2>5, <2>8 DEF RealtimeInv, EndDue
  <2>12. LeaseKept
    BY <1>1, <1>3, <2>1, <2>5, HoldersStay
  <2> QED
    BY <2>3, <2>4, <2>6, <2>7, <2>9, <2>10, <2>11, <2>12 DEF RealtimeInv
<1> QED
  BY <1>5, <1>6 DEF CheckContext

LEMMA NoProviderTyped ==
  ASSUME NEW r \in SesSet, Bounded(r)
  PROVE  /\ NoProvider(r) \in SesSet /\ Bounded(NoProvider(r))
         /\ NoProvider(r).state = r.state /\ NoProvider(r).active = r.active /\ NoProvider(r).said = r.said
         /\ NoProvider(r).provider = FALSE /\ NoProvider(r).closing = r.closing
         /\ NoProvider(r).queue = r.queue /\ NoProvider(r).retired = r.retired
<1> DEFINE q == NoProvider(r)
<1>1. q = [r EXCEPT !.provider = FALSE, !.consumer = "none", !.serving = {}]
  BY DEF NoProvider
<1> HIDE DEF q
<1>2. /\ q \in SesSet /\ q.queue = r.queue /\ q.retired = r.retired
      /\ q.state = r.state /\ q.active = r.active /\ q.said = r.said
      /\ q.provider = FALSE /\ q.closing = r.closing
  BY <1>1 DEF SesSet
<1> QED
  BY <1>2 DEF q, Bounded

LEMMA ReseedStep ==
  ASSUME RealtimeAssumption, RealtimeInv, ReseedProvider(op.s)
  PROVE  RealtimeInv' /\ LeaseKept
<1>1. Due # {} /\ At("reseed") /\ UNCHANGED <<con, voiceTurn, entry, gate, lease, text>> /\ OpOK
  BY RunningDue DEF ReseedProvider, At, RealtimeInv, Typed
<1>2. op.s \in Session /\ RestOK /\ ses[op.s] \in SesSet /\ Bounded(ses[op.s]) /\ ses[op.s].state # "none"
  BY <1>1, HolderFacts
<1>3. ConOK' /\ \A x \in Session : SameConnection(x)
  BY <1>1, NoneChange
<1>4. Counted
  BY <1>2, CountsMove DEF ReseedProvider
<1> DEFINE p == NoProvider(ses[op.s])
<1>5. /\ p \in SesSet /\ Bounded(p)
      /\ p.state = ses[op.s].state /\ p.active = ses[op.s].active /\ p.said = ses[op.s].said
      /\ p.provider = FALSE /\ p.closing = ses[op.s].closing
  BY <1>2, NoProviderTyped
<1>6. CASE ses' = [ses EXCEPT ![op.s] = [NoProvider(@) EXCEPT !.provider = TRUE, !.consumer = "reading", !.stale = FALSE]]
           /\ Continue
  <2> DEFINE q == [p EXCEPT !.provider = TRUE, !.consumer = "reading", !.stale = FALSE]
  <2>1. ses' = [ses EXCEPT ![op.s] = q]
    BY <1>6
  <2> HIDE DEF p
  <2>2. /\ q \in SesSet /\ q.queue = p.queue /\ q.retired = p.retired
        /\ q.state = p.state /\ q.active = p.active /\ q.said = p.said /\ q.closing = p.closing
    BY <1>5 DEF SesSet
  <2>3. Bounded(q)
    BY <1>5, <2>2 DEF Bounded
  <2> HIDE DEF q
  <2>4. SesOK' /\ \A x \in Session : SameSession(x) /\ ClosingMoves(x)
    BY <1>2, <1>5, <2>1, <2>2, <2>3, OneQuiet
  <2> QED
    BY <1>1, <1>3, <1>4, <1>6, <2>4, GoesOn DEF QuietSteps
<1>7. CASE ses' = [ses EXCEPT ![op.s] = NoProvider(@)] /\ Undo
  <2>1. ses' = [ses EXCEPT ![op.s] = p]
    BY <1>7
  <2> HIDE DEF p
  <2>2. SesOK' /\ \A x \in Session : SameSession(x) /\ ClosingMoves(x)
    BY <1>2, <1>5, <2>1, OneQuiet
  <2> QED
    BY <1>1, <1>3, <1>4, <1>7, <2>2, Undoing
<1> QED
  BY <1>6, <1>7 DEF ReseedProvider

LEMMA FinishedTyped ==
  ASSUME RealtimeAssumption, RealtimeInv, NEW s \in Session, NEW i \in 0 .. MaxInteractions,
         Finished(s, [con[s] EXCEPT !.id = i, !.committed = FALSE])
  PROVE  ConOK' /\ (\A x \in Session : SameConnection(x)) /\ con'[s].at = con[s].at
<1> DEFINE c == [con[s] EXCEPT !.id = i, !.committed = FALSE]
           d == [c EXCEPT !.cmd = "none"]
<1>1. con[s] \in ConSet
  BY DEF RealtimeInv, Typed, ConOK
<1>2. d \in ConSet /\ d.at = con[s].at /\ d.cmd = "none"
  BY <1>1 DEF ConSet
<1>3. con' = [con EXCEPT ![s] = d]
  BY DEF Finished
<1> HIDE DEF d
<1>4. ConOK' /\ \A x \in Session : SameConnection(x)
  BY <1>2, <1>3, OneGoes
<1>5. con'[s] = d
  BY <1>2, <1>3, OneConnection DEF RealtimeInv, Typed
<1> QED
  BY <1>2, <1>4, <1>5

LEMMA AnnounceStep ==
  ASSUME RealtimeAssumption, RealtimeInv, AnnounceStarted(op.s)
  PROVE  RealtimeInv' /\ LeaseKept
<1>1. Due # {} /\ At("announce") /\ UNCHANGED <<voiceTurn, entry, gate, lease, text, counts>> /\ OpOK
  BY RunningDue DEF AnnounceStarted, At, RealtimeInv, Typed
<1>2. op.s \in Session /\ RestOK /\ ses[op.s].active \in 0 .. MaxInteractions
  BY <1>1, HolderFacts, SessionFacts
<1>3. Counted
  BY <1>1, <1>2, CountsMove
<1>4. CASE Undo /\ UNCHANGED <<ses, con>>
  <2>1. /\ SesOK' /\ ConOK' /\ \A x \in Session : SameSession(x) /\ SameConnection(x) /\ ClosingMoves(x)
    BY <1>4, NoneChange
  <2> QED
    BY <1>1, <1>3, <1>4, <2>1, Undoing
<1>5. CASE /\ ~ses[op.s].stopped /\ Room(op.s) /\ ses' = Put(op.s, <<"news", 0>>) /\ Continue
           /\ Finished(op.s, [con[op.s] EXCEPT !.id = ses[op.s].active, !.committed = FALSE])
  <2>1. SesOK' /\ \A x \in Session : SameSession(x) /\ ClosingMoves(x)
    BY <1>2, <1>5, PutTyped
  <2>2. ConOK' /\ \A x \in Session : SameConnection(x)
    BY <1>2, <1>5, FinishedTyped
  <2> QED
    BY <1>1, <1>3, <1>5, <2>1, <2>2, GoesOn DEF QuietSteps
<1> QED
  BY <1>4, <1>5 DEF AnnounceStarted

LEMMA UnlistFailedStep ==
  ASSUME RealtimeAssumption, RealtimeInv, UnlistFailed(op.s)
  PROVE  RealtimeInv' /\ LeaseKept
<1>1. Due # {} /\ At("unlist") /\ Continue /\ UNCHANGED <<con, voiceTurn, gate, lease, text, counts>> /\ OpOK
      /\ entry' = "none" /\ ses' = [ses EXCEPT ![op.s].consumer = "dead"]
  BY RunningDue DEF UnlistFailed, At, RealtimeInv, Typed
<1>2. op.s \in Session /\ RestOK /\ ses[op.s] \in SesSet /\ Bounded(ses[op.s])
  BY <1>1, HolderFacts
<1>3. SesOK' /\ \A x \in Session : SameSession(x) /\ ClosingMoves(x)
  <2> DEFINE q == [ses[op.s] EXCEPT !.consumer = "dead"]
  <2>1. /\ q \in SesSet /\ q.queue = ses[op.s].queue /\ q.retired = ses[op.s].retired
        /\ q.state = ses[op.s].state /\ q.active = ses[op.s].active /\ q.said = ses[op.s].said
        /\ q.provider = ses[op.s].provider /\ q.closing = ses[op.s].closing
    BY <1>2 DEF SesSet
  <2>2. ses' = [ses EXCEPT ![op.s] = q] /\ Bounded(q)
    BY <1>1, <1>2, <2>1 DEF Bounded
  <2> HIDE DEF q
  <2> QED
    BY <1>2, <2>1, <2>2, OneQuiet
<1>4. ConOK' /\ \A x \in Session : SameConnection(x)
  BY <1>1, NoneChange
<1>5. Counted
  BY <1>1, <1>2, CountsMove
<1> QED
  BY <1>1, <1>3, <1>4, <1>5, GoesOn DEF QuietSteps

LEMMA CountContextStep ==
  ASSUME RealtimeAssumption, RealtimeInv, CountContext(op.s)
  PROVE  RealtimeInv' /\ LeaseKept
<1>1. Due # {} /\ At("count") /\ Continue /\ UNCHANGED <<con, voiceTurn, entry, gate, lease, text, counts>> /\ OpOK
  BY RunningDue DEF CountContext, At, RealtimeInv, Typed
<1>2. op.s \in Session /\ RestOK
  BY <1>1, HolderFacts
<1>3. ASSUME NEW x \in Session
      PROVE  ses'[x] \in SesSet /\ Bounded(ses'[x]) /\ SameSession(x) /\ ses'[x].closing = ses[x].closing
  <2>1. ses[x] \in SesSet /\ Bounded(ses[x])
    BY SessionFacts
  <2>2. CASE ses'[x] = ses[x]
    BY <2>1, <2>2, SameElsewhere
  <2>3. CASE ses'[x] = [ses[x] EXCEPT !.stale = ses[x].state \in Live]
    <3> DEFINE b == ses[x].state \in Live
    <3>1. b \in BOOLEAN
      OBVIOUS
    <3> HIDE DEF b
    <3>2. ses'[x] = [ses[x] EXCEPT !.stale = b]
      BY <2>3 DEF b
    <3>3. ses'[x] \in SesSet /\ ses'[x].queue = ses[x].queue /\ ses'[x].retired = ses[x].retired
          /\ ses'[x].closing = ses[x].closing
      BY <2>1, <3>1, <3>2 DEF SesSet
    <3>4. SameSession(x)
      BY <2>1, <3>2 DEF SesSet, SameSession
    <3> QED
      BY <2>1, <3>3, <3>4 DEF Bounded
  <2> QED
    BY <2>2, <2>3 DEF CountContext
<1>4. SesOK' /\ \A x \in Session : SameSession(x) /\ ClosingMoves(x)
  <2>1. ses' \in [Session -> SesSet]
    BY <1>3 DEF CountContext
  <2> QED
    BY <1>3, <2>1 DEF SesOK, ClosingMoves
<1>5. ConOK' /\ \A x \in Session : SameConnection(x)
  BY <1>1, NoneChange
<1>6. Counted
  BY <1>1, <1>2, CountsMove
<1> QED
  BY <1>1, <1>4, <1>5, <1>6, GoesOn DEF QuietSteps

-----------------------------------------------------------------------------
(* The steps that write the Turn of the active interaction.                *)
LEMMA TurnMoves ==
  ASSUME RealtimeAssumption, RealtimeInv, NEW x \in {"persist", "end", "complete"}, At(x), Continue,
         NEW to \in Terminal \cup {"PROCESSING"}, voiceTurn' = [voiceTurn EXCEPT ![ses[op.s].active] = to],
         x = "persist" <=> to = "PROCESSING", x = "end" => voiceTurn[ses[op.s].active] = "PROCESSING",
         UNCHANGED <<ses, con, entry, gate, lease, text, counts>>
  PROVE  RealtimeInv' /\ LeaseKept
<1>1. OpOK /\ RestOK /\ ProgramOK /\ op.s \in Session /\ SessionOK(op.s)
  BY SessionFacts DEF RealtimeInv, Typed, OpOK, OpSet
<1>2. x \in Due /\ \A y \in Due : y = x \/ Rank[x] < Rank[y]
  BY <1>1, NextDue
<1>3. /\ OpOK' /\ Due' = Due \ {x} /\ ProgramOK'
      /\ Due' # {} => op'.s = op.s /\ op'.by = op.by /\ op'.to = op.to
  BY <1>1, Continues, ProgramContinues
<1>4. ses[op.s].active \in Talk /\ ses[op.s].state = "ACTIVE"
  <2>1. ses[op.s].active # 0
    BY <1>1, <1>2 DEF RealtimeInv, TurnDue, ProgramOK, Mine
  <2> QED
    BY <1>1, <2>1, SessionFacts
<1>5. /\ voiceTurn'[ses[op.s].active] = to
      /\ \A i \in Talk : i # ses[op.s].active => voiceTurn'[i] = voiceTurn[i]
      /\ TurnsOK'
  BY <1>4 DEF RealtimeInv, Typed, TurnsOK
<1>6. /\ SesOK' /\ ConOK' /\ RestOK'
      /\ \A o \in Session : SameSession(o) /\ SameConnection(o)
  BY NoneChange DEF RealtimeInv, Typed, RestOK, counts
<1>7. SessionsOK'
  BY DEF RealtimeInv, SessionsOK, SessionOK, counts
<1>8. FreshOK'
  <2>1. ~(ses[op.s].active > interactions)
    <3>1. ses[op.s].active <= interactions /\ interactions \in Nat /\ ses[op.s].active \in Nat
      BY <1>1, <1>4, BoundsAreNumbers DEF SessionOK, Talk, RealtimeAssumption
    <3> QED
      BY <3>1
  <2> QED
    BY <1>5, <2>1 DEF RealtimeInv, FreshOK, counts
<1>9. TurnAttended'
  BY <1>1, <1>4, <1>5 DEF RealtimeInv, TurnAttended
<1>10. LeaseOK'
  BY <1>3, <1>6, QuietLease
<1>11. LeaseKept
  <2>1. ses[op.s].active # 0
    BY <1>4 DEF Talk
  <2> QED
    BY <1>6, <2>1, HoldersStay
<1>12. CASE Due' = {}
  BY <1>3, <1>5, <1>6, <1>7, <1>8, <1>9, <1>10, <1>12, <1>11
     DEF RealtimeInv, Typed, TurnDue, StartDue, EndDue
<1>13. CASE Due' # {}
  <2>1. op'.s = op.s /\ op'.by = op.by /\ Mine' = Mine /\ con' = con /\ interactions' = interactions
    BY <1>3, <1>13 DEF Mine, counts
  <2>2. voiceTurn'[Mine.active] = to
    BY <1>5 DEF Mine
  <2>3. TurnDue'
    <3>1. x = "persist" => Due' \subseteq {"persist", "news"} /\ "persist" \notin Due'
      BY <1>1, <1>2, <1>3 DEF ProgramOK
    <3>2. "persist" \in Due => x = "persist"
      BY <1>1, <1>2 DEF ProgramOK
    <3>3. "complete" \in Due => x # "end"
      BY <1>1, <1>2 DEF ProgramOK
    <3>4. "end" \in Due => x # "complete"
      BY <1>1, <1>2 DEF ProgramOK
    <3>5. "complete" \notin Due'
      BY <1>1, <1>2, <1>3, <3>1, <3>3
    <3>6. "persist" \notin Due'
      BY <1>3, <3>1, <3>2
    <3>7. Due' \cap {"retire", "dismiss"} # {} => Mine.active # 0 /\ to # "PROCESSING"
      BY <1>3, <3>1 DEF RealtimeInv, TurnDue
    <3> QED
      BY <2>1, <2>2, <3>5, <3>6, <3>7 DEF TurnDue
  <2>4. StartDue'
    <3>1. "announce" \in Due' => "start" \in Due'
      <4>1. CASE x = "persist"
        BY <1>1, <1>2, <1>3, <4>1 DEF ProgramOK
      <4>2. CASE x = "end"
        BY <1>1, <1>2, <1>3, <4>2 DEF RealtimeInv, StartDue, Mine
      <4>3. CASE x = "complete"
        BY <1>1, <1>2, <1>3, <4>3 DEF RealtimeInv, StartDue, TurnDue
      <4> QED
        BY <4>1, <4>2, <4>3
    <3>2. "undo" \notin Due'
      BY <1>1, <1>2, <1>3 DEF ProgramOK
    <3> QED
      BY <1>3, <2>1, <3>1, <3>2 DEF RealtimeInv, StartDue
  <2>5. EndDue'
    BY <1>2, <1>3, <2>1 DEF RealtimeInv, EndDue
  <2> QED
    BY <1>3, <1>5, <1>6, <1>7, <1>8, <1>9, <1>10, <1>11, <2>3, <2>4, <2>5 DEF RealtimeInv, Typed
<1> QED
  BY <1>12, <1>13

LEMMA WriteRaises ==
  ASSUME RealtimeAssumption, RealtimeInv, Due # {}, WriteFails, Raises(op.s, ses[op.s]), ses[op.s].active # 0,
         UNCHANGED <<voiceTurn, entry, gate, lease, text>>
  PROVE  RealtimeInv' /\ LeaseKept
<1>1. op.s \in Session /\ ses[op.s] \in SesSet /\ Bounded(ses[op.s]) /\ RestOK
  BY HolderFacts
<1>2. Counted /\ errors' > 0
  BY <1>1, CountsMove
<1> QED
  BY <1>1, <1>2, RaisesQuietly

LEMMA TurnSteps ==
  ASSUME RealtimeAssumption, RealtimeInv,
         PersistVoiceTurn(op.s) \/ TerminalizeTurn(op.s) \/ CompleteTurn(op.s)
  PROVE  RealtimeInv' /\ LeaseKept
<1>1. Due # {} /\ OpOK /\ UNCHANGED <<entry, gate, lease, text>>
  BY RunningDue DEF PersistVoiceTurn, TerminalizeTurn, CompleteTurn, At, RealtimeInv, Typed
<1>2. CASE WriteFails /\ Raises(op.s, ses[op.s]) /\ UNCHANGED voiceTurn
  <2>1. PICK x \in {"persist", "end", "complete"} : At(x)
    BY DEF PersistVoiceTurn, TerminalizeTurn, CompleteTurn
  <2>2. x \in Due
    BY <1>1, <2>1, NextDue
  <2>3. ses[op.s].active # 0
    BY <2>2 DEF RealtimeInv, TurnDue, ProgramOK, Mine
  <2> QED
    BY <1>1, <1>2, <2>3, WriteRaises
<1>3. CASE At("persist") /\ voiceTurn' = [voiceTurn EXCEPT ![ses[op.s].active] = "PROCESSING"] /\ Continue
           /\ UNCHANGED <<ses, con, counts>>
  BY <1>1, <1>3, TurnMoves DEF Terminal
<1>4. CASE At("end") /\ voiceTurn[ses[op.s].active] = "PROCESSING" /\ Continue
           /\ voiceTurn' = [voiceTurn EXCEPT ![ses[op.s].active] = op.to] /\ UNCHANGED <<ses, con, counts>>
  <2>1. op.to \in Terminal /\ op.to # "PROCESSING"
    BY <1>1, <1>4, NextDue DEF RealtimeInv, ProgramOK, Terminal
  <2> QED
    BY <1>1, <1>4, <2>1, TurnMoves
<1>5. CASE At("complete") /\ voiceTurn' = [voiceTurn EXCEPT ![ses[op.s].active] = "COMPLETED"] /\ Continue
           /\ UNCHANGED <<ses, con, counts>>
  BY <1>1, <1>5, TurnMoves DEF Terminal
<1> QED
  BY <1>2, <1>3, <1>4, <1>5 DEF PersistVoiceTurn, TerminalizeTurn, CompleteTurn

-----------------------------------------------------------------------------
(* The steps that end the active interaction.                              *)
LEMMA RememberTyped ==
  ASSUME RealtimeAssumption, NEW r \in SesSet, Bounded(r), r.active # 0
  PROVE  Remember(r) \in Seq(Talk) /\ Len(Remember(r)) <= RetiredLimit
<1> DEFINE all == Append(r.retired, r.active)
<1>1. r.retired \in Seq(Talk) /\ r.active \in Talk /\ RetiredLimit \in Nat \ {0} /\ Len(r.retired) <= RetiredLimit
  BY DEF SesSet, RealtimeAssumption, Talk, Bounded
<1>2. all \in Seq(Talk) /\ Len(all) = Len(r.retired) + 1 /\ Len(r.retired) \in Nat
  BY <1>1
<1> HIDE DEF all
<1>3. Tail(all) \in Seq(Talk) /\ Len(Tail(all)) = Len(r.retired)
  <2>1. all # <<>>
    BY <1>2, EmptySeq
  <2> QED
    BY <1>2, <2>1
<1>4. Remember(r) \in {r.retired, all, Tail(all)} /\ (Remember(r) = all => Len(all) <= RetiredLimit \/ all = r.retired \/ all = Tail(all))
  BY DEF Remember, all
<1> QED
  BY <1>1, <1>2, <1>3, <1>4

LEMMA WithoutTyped ==
  ASSUME RealtimeAssumption, NEW r \in SesSet, Bounded(r)
  PROVE  /\ Without(r) \in SesSet /\ Bounded(Without(r))
         /\ Without(r).active = 0 /\ Without(r).state = "IDLE"
         /\ Without(r).provider = r.provider /\ Without(r).closing = r.closing
         /\ Without(r).queue = r.queue /\ Without(r).retired = r.retired
<1> DEFINE q == Without(r)
<1>1. q = [r EXCEPT !.active = 0, !.committed = FALSE, !.said = FALSE, !.state = "IDLE"]
  BY DEF Without
<1>2. 0 \in 0 .. MaxInteractions
  BY DEF RealtimeAssumption
<1> HIDE DEF q
<1>3. /\ q \in SesSet /\ q.queue = r.queue /\ q.retired = r.retired
      /\ q.active = 0 /\ q.state = "IDLE" /\ q.provider = r.provider /\ q.closing = r.closing
  BY <1>1, <1>2 DEF SesSet, Live
<1> QED
  BY <1>3 DEF q, Bounded

LEMMA InteractionEnds ==
  ASSUME RealtimeAssumption, RealtimeInv, NEW s \in Session, NEW q \in SesSet, Bounded(q),
         ses' = [ses EXCEPT ![s] = q], q.active = 0, q.state = "IDLE", ses[s].state \in Live,
         q.closing \in {ses[s].closing, "asked"},
         con[s].at \notin Opening \cup {"new"}, Holds(s),
         ses[s].active = 0 \/ voiceTurn[ses[s].active] # "PROCESSING",
         ConOK', \A x \in Session : SameConnection(x), OpOK', Due' # {} => op'.s = s,
         UNCHANGED <<voiceTurn, entry, gate, text>>, lease' \in BOOLEAN, Counted
  PROVE  /\ Typed' /\ SessionsOK' /\ FreshOK' /\ TurnAttended'
         /\ \A x \in Session : Holds(x)' => x = s /\ Due' \cap {"announce", "undo"} # {}
         /\ ses'[s] = q /\ con'[s].at \notin Opening \cup {"new"}
<1>1. SesOK' /\ ses'[s] = q /\ \A x \in Session : x # s => ses'[x] = ses[x]
  BY OneSession DEF RealtimeInv, Typed
<1>2. RestOK' /\ RestOK
  BY CountedRest DEF RealtimeInv, Typed, RestOK
<1>3. Typed'
  BY <1>1, <1>2 DEF RealtimeInv, Typed, TurnsOK
<1>4. interactions \in Nat /\ errors \in Nat /\ errors' \in Nat /\ errors' >= errors /\ interactions' = interactions
  BY <1>2, BoundsAreNumbers DEF Counted, RealtimeAssumption, RestOK
<1>5. con'[s].at \notin Opening \cup {"new"} /\ SameConnection(s) /\ SessionOK(s)
  BY SessionFacts DEF SameConnection, Opening
<1>6. SessionOK(s)'
  <2>1. ses'[s].active # 0 <=> ses'[s].state = "ACTIVE"
    BY <1>1
  <2>2. ses'[s].active <= interactions'
    BY <1>1, <1>4
  <2>3. ses'[s].state # "none" /\ (ses'[s].closing \in {"unlisting", "done"} => ses'[s].state \notin Live \/ errors' > 0)
    BY <1>1, <1>4, <1>5 DEF SessionOK
  <2>4. con'[s].at \in Opening <=> gate' = s
    BY <1>5 DEF SessionOK, Opening
  <2>5. con'[s].cmd # "none" => con'[s].at = "open"
    BY <1>5 DEF SameConnection
  <2> QED
    BY <1>1, <1>5, <2>1, <2>2, <2>3, <2>4, <2>5 DEF SessionOK, Opening
<1>7. SessionsOK'
  <2>1. ASSUME NEW x \in Session, x # s PROVE SessionOK(x)'
    <3>1. SameSession(x) /\ ClosingMoves(x) /\ SessionOK(x)
      BY <1>1, <2>1, SameElsewhere, SessionFacts
    <3> QED
      BY <1>4, <3>1, QuietSession
  <2> QED
    BY <1>6, <2>1 DEF SessionsOK
<1>8. FreshOK'
  BY <1>4 DEF RealtimeInv, FreshOK
<1>9. TurnAttended'
  <2>1. ASSUME NEW i \in Talk, voiceTurn[i] = "PROCESSING"
        PROVE  \E x \in Session : ses'[x].active = i /\ ses'[x].state = "ACTIVE"
    <3>1. PICK x \in Session : ses[x].active = i /\ ses[x].state = "ACTIVE"
      BY <2>1 DEF RealtimeInv, TurnAttended
    <3>2. x # s
      BY <2>1, <3>1 DEF Talk
    <3> QED
      BY <1>1, <3>1, <3>2
  <2> QED
    BY <2>1 DEF TurnAttended
<1>10. ASSUME NEW x \in Session, Holds(x)' PROVE x = s /\ Due' \cap {"announce", "undo"} # {}
  <2>1. x # s => ~Holds(x)
    BY DEF RealtimeInv, LeaseOK
  <2>2. CASE x = s
    BY <1>1, <1>5, <1>10, <2>2 DEF Holds
  <2>3. CASE x # s
    <3>1. con'[x].at \notin Opening
      BY <2>1, <2>3 DEF SameConnection, Holds, Opening
    <3>2. ses'[x].active = 0
      BY <1>1, <2>1, <2>3 DEF Holds
    <3> QED
      BY <1>10, <2>3, <3>1, <3>2 DEF Holds
  <2> QED
    BY <2>2, <2>3
<1> QED
  BY <1>1, <1>3, <1>5, <1>7, <1>8, <1>9, <1>10

LEMMA RetireStep ==
  ASSUME RealtimeAssumption, RealtimeInv, RetireActive(op.s)
  PROVE  RealtimeInv' /\ LeaseKept
<1>1. Due # {} /\ OpOK /\ At("retire") /\ Continue /\ UNCHANGED <<voiceTurn, entry, gate, text, counts>>
  BY RunningDue DEF RetireActive, At, RealtimeInv, Typed
<1>2. op.s \in Session /\ ses[op.s] \in SesSet /\ Bounded(ses[op.s]) /\ RestOK /\ ProgramOK /\ SessionOK(op.s)
  BY <1>1, HolderFacts, SessionFacts
<1>3. "retire" \in Due /\ \A y \in Due : y = "retire" \/ Rank["retire"] < Rank[y]
  BY <1>1, NextDue
<1>4. op.by = "client" /\ con[op.s].at \notin Opening \cup {"new"}
  BY <1>1, <1>2, <1>3, HolderFacts DEF ProgramOK, ByClient
<1>5. ses[op.s].active # 0 /\ ses[op.s].state = "ACTIVE" /\ voiceTurn[ses[op.s].active] # "PROCESSING"
  <2>1. Due \cap {"end", "complete"} = {}
    BY <1>3 DEF Rank
  <2> QED
    BY <1>2, <1>3, <2>1 DEF RealtimeInv, TurnDue, Mine, SessionOK
<1> DEFINE l == Remember(ses[op.s])
           b == ses[op.s].stale \/ ses[op.s].committed
           r == [ses[op.s] EXCEPT !.retired = l, !.stale = b]
           q == Without(r)
<1>6. l \in Seq(Talk) /\ Len(l) <= RetiredLimit /\ b \in BOOLEAN
  BY <1>2, <1>5, RememberTyped
<1>7. ses' = [ses EXCEPT ![op.s] = q]
  BY DEF RetireActive
<1> HIDE DEF l, b
<1>8. r \in SesSet /\ r.retired = l /\ r.queue = ses[op.s].queue /\ r.closing = ses[op.s].closing
  BY <1>2, <1>6 DEF SesSet
<1>9. Bounded(r)
  BY <1>2, <1>6, <1>8 DEF Bounded
<1> HIDE DEF r
<1>10. q \in SesSet /\ Bounded(q) /\ q.active = 0 /\ q.state = "IDLE" /\ q.closing = ses[op.s].closing
  BY <1>8, <1>9, WithoutTyped
<1> HIDE DEF q
<1>11. /\ OpOK' /\ Due' = Due \ {"retire"} /\ ProgramOK'
       /\ Due' # {} => op'.s = op.s /\ op'.by = op.by
       /\ Len(op.todo) = 1 <=> Due' = {}
  BY <1>1, <1>2, Continues, ProgramContinues
<1>12. ConOK' /\ \A x \in Session : SameConnection(x)
  <2>1. CASE Finished(op.s, [con[op.s] EXCEPT !.id = 0, !.committed = FALSE])
    <3>1. 0 \in 0 .. MaxInteractions
      BY DEF RealtimeAssumption
    <3> QED
      BY <1>2, <2>1, <3>1, FinishedTyped
  <2>2. CASE con' = con
    BY <2>2, NoneChange
  <2> QED
    BY <2>1, <2>2 DEF RetireActive
<1>13. lease' \in BOOLEAN /\ Counted /\ Holds(op.s) /\ lease
  <2>1. Holds(op.s)
    BY <1>5 DEF Holds
  <2> QED
    BY <1>1, <1>2, <2>1, CountsMove DEF RetireActive, RestOK, RealtimeInv, LeaseOK
<1>14. /\ Typed' /\ SessionsOK' /\ FreshOK' /\ TurnAttended'
       /\ \A x \in Session : Holds(x)' => x = op.s /\ Due' \cap {"announce", "undo"} # {}
       /\ ses'[op.s] = q /\ con'[op.s].at \notin Opening \cup {"new"}
  BY <1>1, <1>2, <1>4, <1>5, <1>7, <1>10, <1>11, <1>12, <1>13, InteractionEnds DEF Live
<1>15. LeaseOK'
  <2>1. CASE Len(op.todo) = 1
    BY <1>11, <1>14, <2>1 DEF LeaseOK
  <2>2. CASE Len(op.todo) # 1
    BY <1>13, <1>14, <2>2 DEF LeaseOK, RetireActive
  <2> QED
    BY <2>1, <2>2
<1>16. CASE Due' = {}
  <2>1. lease' = FALSE
    BY <1>11, <1>16 DEF RetireActive
  <2> QED
    BY <1>11, <1>14, <1>15, <1>16, <2>1 DEF RealtimeInv, TurnDue, StartDue, EndDue, LeaseKept, LeaseHasHolder
<1>17. CASE Due' # {}
  <2>1. op'.s = op.s /\ op'.by = "client" /\ Mine' = q /\ interactions' = interactions
    BY <1>1, <1>4, <1>11, <1>14, <1>17 DEF Mine, counts
  <2>2. Due' \subseteq {"check", "reseed", "start", "announce"}
    <3>1. /\ Due' \subseteq StepName /\ Due' \cap ByConsumer = {} /\ "shut" \notin Due' /\ Due' \cap {"dismiss", "over"} = {}
          /\ "undo" \notin Due'
      BY <1>1, <1>2, <1>3, <1>4, <1>11, RunningDue DEF ProgramOK
    <3>2. Due' \cap {"interrupt", "end", "tell"} = {}
      BY <1>3, <1>11 DEF Rank
    <3> QED
      BY <1>11, <3>1, <3>2 DEF StepName, ByConsumer
  <2>3. "announce" \in Due' => "start" \in Due'
    BY <1>2, <1>3, <1>11 DEF ProgramOK
  <2>4. "start" \in Due' => interactions < MaxInteractions
    BY <1>11 DEF RealtimeInv, StartDue
  <2>5. TurnDue' /\ StartDue'
    BY <1>10, <2>1, <2>2, <2>3, <2>4 DEF TurnDue, StartDue, Live
  <2>6. EndDue'
    BY <1>10, <1>14, <2>1, <2>2 DEF EndDue, Opening
  <2>7. LeaseKept
    <3>1. "announce" \in Due'
      BY <1>2, <1>11, <1>17, <2>2 DEF ProgramOK
    <3> QED
      BY <1>2, <2>1, <3>1 DEF LeaseKept, LeaseHasHolder, Holds
  <2> QED
    BY <1>11, <1>14, <1>15, <2>5, <2>6, <2>7 DEF RealtimeInv
<1> QED
  BY <1>17, <1>16

LEMMA DismissStep ==
  ASSUME RealtimeAssumption, RealtimeInv, Dismiss(op.s)
  PROVE  RealtimeInv' /\ LeaseKept
<1>1. Due # {} /\ OpOK /\ At("dismiss") /\ Continue /\ UNCHANGED <<con, voiceTurn, entry, gate, text, counts>>
      /\ lease' = FALSE
  BY RunningDue DEF Dismiss, At, RealtimeInv, Typed
<1>2. op.s \in Session /\ ses[op.s] \in SesSet /\ Bounded(ses[op.s]) /\ RestOK /\ ProgramOK /\ SessionOK(op.s)
  BY <1>1, HolderFacts, SessionFacts
<1>3. "dismiss" \in Due /\ \A y \in Due : y = "dismiss" \/ Rank["dismiss"] < Rank[y]
  BY <1>1, NextDue
<1>4. ses[op.s].active # 0 /\ ses[op.s].state = "ACTIVE" /\ voiceTurn[ses[op.s].active] # "PROCESSING"
      /\ con[op.s].at \notin Opening \cup {"new"}
  <2>1. Due \cap {"end", "complete"} = {}
    BY <1>3 DEF Rank
  <2> QED
    BY <1>2, <1>3, <2>1 DEF RealtimeInv, TurnDue, Mine, SessionOK
<1> DEFINE b == ses[op.s].stale \/ op.to = "FAILED"
           r == [ses[op.s] EXCEPT !.stale = b]
           q == Without(r)
<1>5. b \in BOOLEAN
  OBVIOUS
<1>6. ses' = [ses EXCEPT ![op.s] = q]
  BY DEF Dismiss
<1> HIDE DEF b
<1>7. r \in SesSet /\ r.retired = ses[op.s].retired /\ r.queue = ses[op.s].queue /\ r.closing = ses[op.s].closing
  BY <1>2, <1>5 DEF SesSet
<1>8. Bounded(r)
  BY <1>2, <1>7 DEF Bounded
<1> HIDE DEF r
<1>9. q \in SesSet /\ Bounded(q) /\ q.active = 0 /\ q.state = "IDLE" /\ q.closing = ses[op.s].closing
  BY <1>7, <1>8, WithoutTyped
<1> HIDE DEF q
<1>10. /\ OpOK' /\ Due' = Due \ {"dismiss"} /\ ProgramOK'
       /\ Due' # {} => op'.s = op.s /\ op'.by = op.by
  BY <1>1, <1>2, Continues, ProgramContinues
<1>11. ConOK' /\ \A x \in Session : SameConnection(x)
  BY <1>1, NoneChange
<1>12. lease' \in BOOLEAN /\ Counted /\ Holds(op.s)
  BY <1>1, <1>2, <1>4, CountsMove DEF Holds
<1>13. Due' \subseteq {"fail", "shut", "over", "unlist"}
  <2>1. Due' \cap ByClient = {} /\ Due' \cap {"persist", "news"} = {}
    BY <1>2, <1>3, <1>10 DEF ProgramOK
  <2>2. Due' \cap {"complete", "end", "tell", "count"} = {} /\ Due' \subseteq StepName
    BY <1>1, <1>3, <1>10, RunningDue DEF Rank
  <2> QED
    BY <1>10, <2>1, <2>2 DEF StepName, ByClient
<1>14. /\ Typed' /\ SessionsOK' /\ FreshOK' /\ TurnAttended'
       /\ \A x \in Session : Holds(x)' => x = op.s /\ Due' \cap {"announce", "undo"} # {}
       /\ ses'[op.s] = q
  BY <1>1, <1>2, <1>4, <1>6, <1>9, <1>10, <1>11, <1>12, InteractionEnds DEF Live
<1>15. LeaseOK'
  BY <1>13, <1>14 DEF LeaseOK
<1>16. TurnDue' /\ StartDue'
  BY <1>13 DEF TurnDue, StartDue
<1>17. EndDue'
  <2>1. Due' # {} => Mine' = q /\ op'.by # "client"
    BY <1>2, <1>3, <1>10, <1>14 DEF Mine, ProgramOK
  <2>2. /\ "over" \in Due' => Due' \cap {"fail", "shut"} # {}
        /\ "unlist" \in Due' => "fail" \in Due'
    BY <1>4, <1>10 DEF RealtimeInv, EndDue, Mine
  <2> QED
    BY <1>9, <2>1, <2>2 DEF EndDue
<1>18. LeaseKept
  BY <1>1 DEF LeaseKept, LeaseHasHolder
<1> QED
  BY <1>10, <1>14, <1>15, <1>16, <1>17, <1>18 DEF RealtimeInv

(* An interaction starts.                                                  *)
LEMMA ProviderStartStep ==
  ASSUME RealtimeAssumption, RealtimeInv, ProviderStart(op.s)
  PROVE  RealtimeInv' /\ LeaseKept
<1>1. Due # {} /\ OpOK /\ At("start") /\ UNCHANGED <<con, voiceTurn, entry, gate, lease, text>>
  BY RunningDue DEF ProviderStart, At, RealtimeInv, Typed
<1>2. op.s \in Session /\ ses[op.s] \in SesSet /\ Bounded(ses[op.s]) /\ RestOK /\ ProgramOK /\ SessionOK(op.s)
  BY <1>1, HolderFacts, SessionFacts
<1>3. "start" \in Due /\ \A y \in Due : y = "start" \/ Rank["start"] < Rank[y]
  BY <1>1, NextDue
<1>4. op.by = "client" /\ con[op.s].at \notin Opening \cup {"new"} /\ "announce" \in Due
  BY <1>1, <1>2, <1>3, HolderFacts DEF ProgramOK, ByClient
<1>5. ses[op.s].active = 0 /\ interactions < MaxInteractions /\ ses[op.s].state \in Live
  <2>1. "retire" \notin Due
    BY <1>3 DEF Rank
  <2> QED
    BY <1>3, <1>4, <2>1 DEF RealtimeInv, StartDue, Mine
<1>6. ConOK' /\ \A x \in Session : SameConnection(x)
  BY <1>1, NoneChange
<1>7. CASE ProviderFails /\ Undo /\ UNCHANGED ses
  <2>1. Counted /\ SesOK' /\ \A x \in Session : SameSession(x) /\ ClosingMoves(x)
    BY <1>2, <1>7, CountsMove, NoneChange
  <2> QED
    BY <1>1, <1>6, <1>7, <2>1, Undoing
<1>8. CASE /\ interactions' = interactions + 1
           /\ ses' = [ses EXCEPT ![op.s].active = interactions + 1, ![op.s].state = "ACTIVE",
                                 ![op.s].serving = @ \cup {interactions + 1}]
           /\ Continue /\ UNCHANGED <<failures, errors>>
  <2> DEFINE i == interactions + 1
             v == ses[op.s].serving \cup {i}
             q == [ses[op.s] EXCEPT !.active = i, !.state = "ACTIVE", !.serving = v]
  <2>1. interactions \in Nat /\ MaxInteractions \in Nat /\ i \in Talk /\ i # 0 /\ interactions' \in 0 .. MaxInteractions
    BY <1>2, <1>5, <1>8, BoundsAreNumbers DEF RealtimeAssumption, Talk
  <2>2. ses' = [ses EXCEPT ![op.s] = q]
    BY <1>2, <1>8 DEF RealtimeInv, Typed, SesOK
  <2>3. v \in SUBSET Talk
    BY <1>2, <2>1 DEF SesSet
  <2> HIDE DEF v
  <2>4. i \in 0 .. MaxInteractions
    BY <2>1 DEF Talk
  <2>5. i = interactions' /\ i = interactions + 1
    BY <1>8
  <2> HIDE DEF i
  <2>6. /\ q \in SesSet /\ q.queue = ses[op.s].queue /\ q.retired = ses[op.s].retired
        /\ q.active = i /\ q.state = "ACTIVE" /\ q.closing = ses[op.s].closing
    BY <1>2, <2>3, <2>4 DEF SesSet, Live
  <2>7. Bounded(q)
    BY <1>2, <2>6 DEF Bounded
  <2> HIDE DEF q
  <2>8. SesOK' /\ ses'[op.s] = q /\ \A x \in Session : x # op.s => ses'[x] = ses[x]
    BY <1>2, <2>2, <2>6, <2>7, OneSession DEF RealtimeInv, Typed
  <2>9. /\ OpOK' /\ Due' = Due \ {"start"} /\ ProgramOK'
        /\ Due' # {} => op'.s = op.s /\ op'.by = op.by
    BY <1>1, <1>2, <1>8, Continues, ProgramContinues
  <2>10. RestOK'
    BY <1>1, <1>2, <1>8, <2>1 DEF RestOK
  <2>11. Typed'
    BY <1>1, <1>6, <2>8, <2>9, <2>10 DEF RealtimeInv, Typed, TurnsOK
  <2>12. SessionsOK'
    <3>1. ASSUME NEW x \in Session, x = op.s PROVE SessionOK(x)'
      <4>1. con' = con /\ gate' = gate /\ entry' = entry /\ errors' = errors
        BY <1>1, <1>8
      <4>2. ses'[x].active # 0 /\ ses'[x].state = "ACTIVE" /\ ses'[x].active = interactions'
            /\ ses'[x].closing = ses[x].closing
        BY <2>1, <2>5, <2>6, <2>8, <3>1
      <4>3. ses'[x].active <= interactions'
        BY <2>10, <4>2, BoundsAreNumbers DEF RestOK, RealtimeAssumption
      <4>4. SessionOK(x) /\ con[x].at \notin Opening \cup {"new"} /\ ses[x].state \in Live
        BY <1>2, <1>4, <1>5, <3>1
      <4> QED
        BY <4>1, <4>2, <4>3, <4>4 DEF SessionOK, Opening
    <3>2. ASSUME NEW x \in Session, x # op.s PROVE SessionOK(x)'
      <4>1. SessionOK(x) /\ ses'[x] = ses[x] /\ con'[x] = con[x] /\ ses[x].active \in 0 .. MaxInteractions
        BY <1>1, <2>8, <3>2, SessionFacts
      <4>2. ses'[x].active <= interactions'
        BY <1>8, <2>1, <4>1 DEF SessionOK
      <4> QED
        BY <1>1, <1>8, <4>1, <4>2 DEF SessionOK
    <3> QED
      BY <3>1, <3>2 DEF SessionsOK
  <2>13. FreshOK' /\ voiceTurn[i] = "none"
    <3>1. i > interactions
      BY <2>1, <2>5
    <3>2. \A j \in Talk : j > interactions' => j > interactions
      BY <1>8, <2>1 DEF Talk
    <3> QED
      BY <1>1, <2>1, <3>1, <3>2 DEF RealtimeInv, FreshOK
  <2>14. TurnAttended'
    <3>1. ASSUME NEW j \in Talk, voiceTurn[j] = "PROCESSING"
          PROVE  \E x \in Session : ses'[x].active = j /\ ses'[x].state = "ACTIVE"
      <4>1. PICK x \in Session : ses[x].active = j /\ ses[x].state = "ACTIVE"
        BY <3>1 DEF RealtimeInv, TurnAttended
      <4>2. x # op.s
        BY <1>5, <4>1 DEF Talk
      <4> QED
        BY <2>8, <4>1, <4>2
    <3> QED
      BY <1>1, <3>1 DEF TurnAttended
  <2>15. LeaseOK'
    <3>1. Holds(op.s)
      BY <1>4 DEF Holds
    <3>2. ASSUME NEW x \in Session, Holds(x)' PROVE Holds(x)
      <4>1. CASE x = op.s
        BY <3>1, <4>1
      <4>2. CASE x # op.s
        <5>1. ses'[x] = ses[x] /\ con'[x] = con[x] /\ ~(op'.s = x /\ Due' # {})
          BY <1>1, <2>8, <2>9, <4>2
        <5> QED
          BY <3>2, <5>1 DEF Holds
      <4> QED
        BY <4>1, <4>2
    <3> QED
      BY <1>1, <3>2 DEF RealtimeInv, LeaseOK
  <2>16. Due' # {} => Mine' = q /\ op'.s = op.s /\ op'.by = "client"
    BY <1>4, <2>8, <2>9 DEF Mine
  <2>17. "start" \notin Due' /\ "undo" \notin Due' /\ Due' \cap {"retire", "dismiss", "persist", "complete", "fail", "shut", "over", "unlist"} = {}
    <3>1. Due \cap {"retire"} = {}
      BY <1>3 DEF Rank
    <3> QED
      BY <1>2, <1>3, <1>4, <2>9, <3>1 DEF ProgramOK, ByConsumer
  <2>18. TurnDue' /\ StartDue'
    BY <1>1, <2>1, <2>6, <2>13, <2>16, <2>17 DEF TurnDue, StartDue, Live
  <2>19. EndDue'
    BY <1>1, <1>4, <2>6, <2>16, <2>17 DEF EndDue, Opening
  <2>20. LeaseKept
    BY <1>2, <2>1, <2>6, <2>8 DEF LeaseKept, LeaseHasHolder, Holds
  <2> QED
    BY <2>9, <2>11, <2>12, <2>13, <2>14, <2>15, <2>18, <2>19, <2>20 DEF RealtimeInv
<1> QED
  BY <1>7, <1>8 DEF ProviderStart

-----------------------------------------------------------------------------
(* The steps that end the session.                                         *)
LEMMA SessionEnds ==
  ASSUME RealtimeAssumption, RealtimeInv, NEW s \in Session, NEW q \in SesSet, Bounded(q),
         ses' = [ses EXCEPT ![s] = q], q.active = 0, ses[s].active = 0, q.state \in {"CLOSED", "FAILED"},
         ses[s].state # "none", ConOK', \A x \in Session : SameConnection(x),
         OpOK', (Due \cup Due') \cap {"announce", "undo"} = {},
         UNCHANGED <<voiceTurn, entry, gate, text, lease>>, Counted
  PROVE  /\ Typed' /\ SessionsOK' /\ FreshOK' /\ TurnAttended' /\ LeaseOK' /\ LeaseKept /\ ses'[s] = q
<1>1. SesOK' /\ ses'[s] = q /\ \A x \in Session : x # s => ses'[x] = ses[x]
  BY OneSession DEF RealtimeInv, Typed
<1>2. RestOK' /\ RestOK
  BY CountedRest DEF RealtimeInv, Typed, RestOK
<1>3. Typed'
  BY <1>1, <1>2 DEF RealtimeInv, Typed, TurnsOK
<1>4. interactions \in Nat /\ errors \in Nat /\ errors' \in Nat /\ errors' >= errors /\ interactions' = interactions
  BY <1>2, BoundsAreNumbers DEF Counted, RealtimeAssumption, RestOK
<1>5. SameConnection(s) /\ SessionOK(s)
  BY SessionFacts
<1>6. SessionOK(s)'
  <2>1. ses'[s].active = 0 /\ ses'[s].state # "ACTIVE" /\ ses'[s].state # "none" /\ ses'[s].state \notin Live
    BY <1>1 DEF Live
  <2>2. con'[s].at \notin {"new", "opening"} /\ (con'[s].at \in Opening <=> gate' = s)
    BY <1>5 DEF SessionOK, SameConnection, Opening
  <2>3. con'[s].cmd # "none" => con'[s].at = "open"
    BY <1>5 DEF SameConnection
  <2> QED
    BY <1>4, <2>1, <2>2, <2>3 DEF SessionOK
<1>7. SessionsOK'
  <2>1. ASSUME NEW x \in Session, x # s PROVE SessionOK(x)'
    <3>1. SameSession(x) /\ ClosingMoves(x) /\ SessionOK(x)
      BY <1>1, <2>1, SameElsewhere, SessionFacts
    <3> QED
      BY <1>4, <3>1, QuietSession
  <2> QED
    BY <1>6, <2>1 DEF SessionsOK
<1>8. FreshOK'
  BY <1>4 DEF RealtimeInv, FreshOK
<1>9. TurnAttended'
  <2>1. ASSUME NEW i \in Talk, voiceTurn[i] = "PROCESSING"
        PROVE  \E x \in Session : ses'[x].active = i /\ ses'[x].state = "ACTIVE"
    <3>1. PICK x \in Session : ses[x].active = i /\ ses[x].state = "ACTIVE"
      BY <2>1 DEF RealtimeInv, TurnAttended
    <3>2. x # s
      BY <3>1 DEF Talk
    <3> QED
      BY <1>1, <3>1, <3>2
  <2> QED
    BY <2>1 DEF TurnAttended
<1>10. LeaseOK'
  <2>1. ASSUME NEW x \in Session, Holds(x)' PROVE Holds(x)
    <3>1. CASE con'[x].at \in Opening
      BY <3>1 DEF SameConnection, Holds, Opening
    <3>2. CASE ses'[x].active # 0
      BY <1>1, <3>2 DEF Holds
    <3> QED
      BY <2>1, <3>1, <3>2 DEF Holds
  <2> QED
    BY <2>1 DEF RealtimeInv, LeaseOK
<1>11. LeaseKept
  <2>1. ASSUME NEW x \in Session, Holds(x) PROVE Holds(x)'
    <3>1. CASE con[x].at \in Opening
      BY <3>1 DEF SameConnection, Holds
    <3>2. CASE ses[x].active # 0
      BY <1>1, <3>2 DEF Holds
    <3> QED
      BY <2>1, <3>1, <3>2 DEF Holds
  <2> QED
    BY <2>1 DEF LeaseKept, LeaseHasHolder
<1> QED
  BY <1>1, <1>3, <1>7, <1>8, <1>9, <1>10, <1>11

(* What is due when a session fails, or is shut.                           *)
LEMMA OverFacts ==
  ASSUME RealtimeAssumption, RealtimeInv, NEW x \in {"fail", "shut"}, At(x)
  PROVE  /\ x \in Due /\ ses[op.s].active = 0
         /\ Due \subseteq {"fail", "shut", "over", "unlist"}
         /\ x = "fail" => op.by = "consumer"
         /\ x = "shut" => op.by = "close"
<1>1. OpOK /\ ProgramOK
  BY DEF RealtimeInv, Typed
<1>2. x \in Due /\ \A y \in Due : y = x \/ Rank[x] < Rank[y]
  BY <1>1, NextDue
<1>3. /\ x = "fail" => op.by = "consumer"
      /\ x = "shut" => op.by = "close"
  BY <1>1, <1>2 DEF ProgramOK, ByConsumer
<1>4. Due \subseteq {"fail", "shut", "over", "unlist"} /\ "dismiss" \notin Due
  BY <1>1, <1>2, RunningDue DEF Rank, StepName
<1> QED
  BY <1>2, <1>3, <1>4 DEF RealtimeInv, EndDue, Mine

LEMMA GoesOver ==
  ASSUME RealtimeAssumption, RealtimeInv, NEW x \in {"fail", "shut"}, At(x), Continue,
         NEW q \in SesSet, Bounded(q), ses' = [ses EXCEPT ![op.s] = q], q.active = 0,
         q.state = IF x = "fail" THEN "FAILED" ELSE "CLOSED",
         UNCHANGED <<con, voiceTurn, entry, gate, text, lease, counts>>
  PROVE  RealtimeInv' /\ LeaseKept
<1>1. /\ x \in Due /\ ses[op.s].active = 0
      /\ Due \subseteq {"fail", "shut", "over", "unlist"}
      /\ x = "fail" => op.by = "consumer"
      /\ x = "shut" => op.by = "close"
  BY OverFacts
<1>2. op.s \in Session /\ RestOK /\ OpOK /\ ProgramOK /\ ses[op.s].state # "none"
  BY <1>1, HolderFacts
<1>3. /\ OpOK' /\ Due' = Due \ {x} /\ ProgramOK'
      /\ Due' # {} => op'.s = op.s /\ op'.by = op.by
  BY <1>1, <1>2, Continues, ProgramContinues
<1>4. ConOK' /\ (\A o \in Session : SameConnection(o)) /\ Counted
  BY <1>2, NoneChange, CountsMove
<1>5. (Due \cup Due') \cap {"announce", "undo"} = {}
  BY <1>1, <1>3
<1>6. Typed' /\ SessionsOK' /\ FreshOK' /\ TurnAttended' /\ LeaseOK' /\ LeaseKept /\ ses'[op.s] = q
  BY <1>1, <1>2, <1>3, <1>4, <1>5, SessionEnds
<1>7. TurnDue' /\ StartDue'
  BY <1>1, <1>3 DEF TurnDue, StartDue
<1>8. EndDue'
  <2>1. Due' # {} => Mine' = q /\ op'.by # "client"
    BY <1>1, <1>3, <1>6 DEF Mine
  <2>2. "unlist" \in Due' => x = "fail"
    BY <1>1, <1>2, <1>3 DEF ProgramOK, ByConsumer
  <2> QED
    BY <2>1, <2>2 DEF EndDue
<1> QED
  BY <1>3, <1>6, <1>7, <1>8 DEF RealtimeInv

LEMMA FailSessionStep ==
  ASSUME RealtimeAssumption, RealtimeInv, FailSession(op.s)
  PROVE  RealtimeInv' /\ LeaseKept
<1>1. At("fail") /\ UNCHANGED <<voiceTurn, entry, gate, lease, text>>
  BY DEF FailSession
<1>2. "fail" \in Due /\ ses[op.s].active = 0 /\ op.by = "consumer"
  BY <1>1, OverFacts
<1>3. op.s \in Session /\ ses[op.s] \in SesSet /\ Bounded(ses[op.s]) /\ RestOK /\ ses[op.s].state # "none"
  BY <1>2, HolderFacts
<1> DEFINE q == [ses[op.s] EXCEPT !.state = "FAILED", !.provider = FALSE, !.serving = {},
                                  !.consumer = "ending", !.retired = <<>>, !.stale = FALSE]
<1>4. <<>> \in Seq(Talk) /\ Len(<<>>) = 0 /\ 0 <= RetiredLimit
  BY EmptyQueue DEF RealtimeAssumption
<1>5. /\ q \in SesSet /\ q.queue = ses[op.s].queue /\ q.retired = <<>> /\ q.active = ses[op.s].active
      /\ q.state = "FAILED"
  BY <1>3, <1>4 DEF SesSet
<1>6. Bounded(q)
  BY <1>3, <1>4, <1>5 DEF Bounded
<1>7. \/ ses' = [ses EXCEPT ![op.s] = q] /\ Continue /\ UNCHANGED <<con, counts>>
      \/ FaultOnClose /\ Raises(op.s, q)
  BY DEF FailSession
<1> HIDE DEF q
<1>8. CASE ses' = [ses EXCEPT ![op.s] = q] /\ Continue /\ UNCHANGED <<con, counts>>
  BY <1>1, <1>2, <1>5, <1>6, <1>8, GoesOver
<1>9. CASE FaultOnClose /\ Raises(op.s, q)
  <2>1. PICK r \in SesSet :
          /\ Bounded(r) /\ ses' = [ses EXCEPT ![op.s] = r]
          /\ r.state = q.state /\ r.active = q.active
    BY <1>3, <1>5, <1>6, <1>9, RaisedTyped
  <2>2. Done /\ con' = con
    BY <1>2, <1>3, <1>5, <1>6, <1>9, RaisedTyped
  <2>3. OpOK' /\ Due' = {} /\ Counted
    BY <1>3, <1>9, <2>2, Stops, CountsMove
  <2>4. ConOK' /\ \A x \in Session : SameConnection(x)
    BY <2>2, NoneChange
  <2>5. (Due \cup Due') \cap {"announce", "undo"} = {}
    BY <1>1, <2>3, OverFacts
  <2>6. Typed' /\ SessionsOK' /\ FreshOK' /\ TurnAttended' /\ LeaseOK' /\ LeaseKept
    BY <1>1, <1>2, <1>3, <1>5, <2>1, <2>3, <2>4, <2>5, SessionEnds
  <2>7. ProgramOK' /\ TurnDue' /\ StartDue' /\ EndDue'
    BY <2>3 DEF ProgramOK, TurnDue, StartDue, EndDue
  <2> QED
    BY <2>6, <2>7 DEF RealtimeInv
<1> QED
  BY <1>7, <1>8, <1>9

LEMMA ShutSessionStep ==
  ASSUME RealtimeAssumption, RealtimeInv, ShutSession(op.s)
  PROVE  RealtimeInv' /\ LeaseKept
<1>1. At("shut") /\ Continue /\ UNCHANGED <<con, voiceTurn, entry, gate, lease, text, counts>>
  BY DEF ShutSession
<1>2. "shut" \in Due /\ ses[op.s].active = 0
  BY <1>1, OverFacts
<1>3. op.s \in Session /\ ses[op.s] \in SesSet /\ Bounded(ses[op.s])
  BY <1>2, HolderFacts
<1> DEFINE p == NoProvider(ses[op.s])
           q == [p EXCEPT !.state = "CLOSED", !.retired = <<>>, !.stale = FALSE]
<1>4. <<>> \in Seq(Talk) /\ Len(<<>>) = 0 /\ 0 <= RetiredLimit
  BY EmptyQueue DEF RealtimeAssumption
<1>5. p \in SesSet /\ Bounded(p) /\ p.active = ses[op.s].active
  BY <1>3, NoProviderTyped
<1>6. ses' = [ses EXCEPT ![op.s] = q]
  BY DEF ShutSession
<1> HIDE DEF p
<1>7. q \in SesSet /\ q.queue = p.queue /\ q.retired = <<>> /\ q.active = p.active /\ q.state = "CLOSED"
  BY <1>4, <1>5 DEF SesSet
<1>8. Bounded(q)
  BY <1>4, <1>5, <1>7 DEF Bounded
<1> HIDE DEF q
<1> QED
  BY <1>1, <1>2, <1>5, <1>6, <1>7, <1>8, GoesOver

LEMMA UndoStep ==
  ASSUME RealtimeAssumption, RealtimeInv, UndoStart(op.s)
  PROVE  RealtimeInv' /\ LeaseKept
<1>1. Due # {} /\ OpOK /\ At("undo") /\ UNCHANGED <<voiceTurn, entry, gate, text>>
  BY RunningDue DEF UndoStart, At, RealtimeInv, Typed
<1>2. op.s \in Session /\ ses[op.s] \in SesSet /\ Bounded(ses[op.s]) /\ RestOK /\ ProgramOK
  BY <1>1, HolderFacts
<1>3. "undo" \in Due
  BY <1>1, NextDue
<1>4. op.by = "client" /\ con[op.s].at \notin Opening \cup {"new"}
  BY <1>1, <1>2, <1>3, HolderFacts DEF ProgramOK, ByClient
<1>5. ses[op.s].state \in Live /\ (ses[op.s].active = 0 \/ voiceTurn[ses[op.s].active] # "PROCESSING")
  BY <1>3 DEF RealtimeInv, StartDue, Mine
<1> DEFINE p == NoProvider(ses[op.s])
           w == Without(p)
           r == [w EXCEPT !.stale = TRUE]
<1>6. /\ p \in SesSet /\ Bounded(p)
      /\ p.state = ses[op.s].state /\ p.active = ses[op.s].active /\ p.said = ses[op.s].said
      /\ p.provider = FALSE /\ p.closing = ses[op.s].closing
  BY <1>2, NoProviderTyped
<1>7. \/ Raises(op.s, r) /\ lease' = FALSE /\ UNCHANGED counts
      \/ FaultOnClose /\ Raises(op.s, p) /\ UNCHANGED lease
  BY DEF UndoStart
<1> HIDE DEF p
<1>8. w \in SesSet /\ Bounded(w) /\ w.active = 0 /\ w.state = "IDLE" /\ w.closing = p.closing
  BY <1>6, WithoutTyped
<1> HIDE DEF w
<1>9. CASE FaultOnClose /\ Raises(op.s, p) /\ UNCHANGED lease
  <2>1. Counted
    BY <1>2, <1>9, CountsMove
  <2> QED
    BY <1>1, <1>4, <1>6, <1>9, <2>1, RaisesQuietly
<1>10. CASE Raises(op.s, r) /\ lease' = FALSE /\ UNCHANGED counts
  <2>1. r \in SesSet /\ r.queue = w.queue /\ r.retired = w.retired
        /\ r.active = 0 /\ r.state = "IDLE" /\ r.closing = ses[op.s].closing
    BY <1>6, <1>8 DEF SesSet
  <2>2. Bounded(r)
    BY <1>8, <2>1 DEF Bounded
  <2> HIDE DEF r
  <2>3. PICK q \in SesSet :
          /\ Bounded(q) /\ ses' = [ses EXCEPT ![op.s] = q]
          /\ q.state = r.state /\ q.active = r.active /\ q.closing \in {r.closing, "asked"}
    BY <1>2, <1>4, <1>10, <2>1, <2>2, RaisedTyped
  <2>4. Done /\ (con' = con \/ (op.by = "client" /\ con' = Left(op.s)))
    BY <1>2, <1>10, <2>1, <2>2, RaisedTyped
  <2>5. OpOK' /\ Due' = {} /\ Counted
    BY <1>2, <1>10, <2>4, Stops, CountsMove
  <2>6. ConOK' /\ \A x \in Session : SameConnection(x)
    BY <1>1, <2>4, LeftConnection
  <2>7. Holds(op.s) /\ lease' \in BOOLEAN
    BY <1>3, <1>10 DEF Holds
  <2>8. /\ Typed' /\ SessionsOK' /\ FreshOK' /\ TurnAttended'
        /\ \A x \in Session : Holds(x)' => x = op.s /\ Due' \cap {"announce", "undo"} # {}
    BY <1>1, <1>2, <1>4, <1>5, <2>1, <2>3, <2>5, <2>6, <2>7, InteractionEnds
  <2>9. LeaseOK'
    BY <2>5, <2>8 DEF LeaseOK
  <2>10. ProgramOK' /\ TurnDue' /\ StartDue' /\ EndDue'
    BY <2>5 DEF ProgramOK, TurnDue, StartDue, EndDue
  <2>11. LeaseKept
    BY <1>1 DEF LeaseKept
  <2> QED
    BY <2>8, <2>9, <2>10, <2>11 DEF RealtimeInv
<1> QED
  BY <1>7, <1>9, <1>10

-----------------------------------------------------------------------------
LEMMA RealtimeStarts == ASSUME RealtimeAssumption, RealtimeInit PROVE RealtimeInv
<1>1. /\ ses = [s \in Session |-> NoSession] /\ con = [s \in Session |-> NoConnection]
      /\ voiceTurn = [i \in Talk |-> "none"] /\ entry = "none" /\ gate = "none" /\ op = NoOp
      /\ lease = FALSE /\ text = FALSE /\ interactions = 0 /\ failures = 0 /\ errors = 0
  BY DEF RealtimeInit
<1>2. 0 \in 0 .. MaxInteractions /\ 0 \in 0 .. MaxErrors /\ 0 <= QueueLimit /\ 0 <= RetiredLimit
  BY DEF RealtimeAssumption
<1>3. NoSession \in SesSet /\ Bounded(NoSession) /\ NoSession.active = 0 /\ NoSession.state = "none"
      /\ NoSession.closing = "no" /\ ~NoSession.provider
  <2>1. <<>> \in Seq(Talk) /\ <<>> \in Seq(Event) /\ Len(<<>>) = 0
    BY EmptyQueue
  <2> QED
    BY <1>2, <2>1 DEF NoSession, SesSet, Bounded
<1>4. NoConnection \in ConSet /\ NoConnection.at = "new" /\ NoConnection.cmd = "none"
  BY <1>2 DEF NoConnection, ConSet
<1>5. OpOK /\ Due = {}
  BY <1>1, NoOpTyped, EmptyProgram DEF OpOK, Due
<1>6. Typed
  BY <1>1, <1>2, <1>3, <1>4, <1>5 DEF Typed, SesOK, ConOK, TurnsOK, RestOK
<1>7. SessionsOK
  BY <1>1, <1>3, <1>4 DEF SessionsOK, SessionOK, Opening, RealtimeAssumption
<1>8. FreshOK /\ TurnAttended
  BY <1>1 DEF FreshOK, TurnAttended
<1>9. LeaseOK
  BY <1>1, <1>3, <1>4, <1>5 DEF LeaseOK, Holds, Opening
<1> QED
  BY <1>5, <1>6, <1>7, <1>8, <1>9, NothingDue DEF RealtimeInv

LEMMA RealtimeStutters ==
  ASSUME RealtimeAssumption, RealtimeInv, UNCHANGED realtimeVars PROVE RealtimeInv' /\ LeaseKept
<1>1. UNCHANGED <<ses, con, voiceTurn, entry, gate, op, lease, text, counts>>
  BY DEF realtimeVars
<1>2. /\ SesOK' /\ ConOK' /\ \A x \in Session : SameSession(x) /\ SameConnection(x) /\ ClosingMoves(x)
  BY <1>1, NoneChange
<1>3. text' \in BOOLEAN
  BY <1>1 DEF RealtimeInv, Typed, RestOK
<1> QED
  BY <1>1, <1>2, <1>3, Aside

LEMMA TransitionStep == ASSUME RealtimeAssumption, RealtimeInv, Step PROVE RealtimeInv' /\ LeaseKept
<1>1. CASE ProviderInterrupt(op.s)
  BY <1>1, InterruptStep
<1>2. CASE TerminalizeTurn(op.s) \/ PersistVoiceTurn(op.s) \/ CompleteTurn(op.s)
  BY <1>2, TurnSteps
<1>3. CASE TellEnded(op.s)
  BY <1>3, TellEndedStep
<1>4. CASE RetireActive(op.s)
  BY <1>4, RetireStep
<1>5. CASE CheckContext(op.s)
  BY <1>5, CheckContextStep
<1>6. CASE ReseedProvider(op.s)
  BY <1>6, ReseedStep
<1>7. CASE ProviderStart(op.s)
  BY <1>7, ProviderStartStep
<1>8. CASE AnnounceStarted(op.s)
  BY <1>8, AnnounceStep
<1>9. CASE UndoStart(op.s)
  BY <1>9, UndoStep
<1>10. CASE TellNews(op.s)
  BY <1>10, TellNewsStep
<1>11. CASE CountContext(op.s)
  BY <1>11, CountContextStep
<1>12. CASE Dismiss(op.s)
  BY <1>12, DismissStep
<1>13. CASE FailSession(op.s)
  BY <1>13, FailSessionStep
<1>14. CASE ShutSession(op.s)
  BY <1>14, ShutSessionStep
<1>15. CASE TellOver(op.s)
  BY <1>15, TellOverStep
<1>16. CASE UnlistFailed(op.s)
  BY <1>16, UnlistFailedStep
<1> QED
  BY <1>1, <1>2, <1>3, <1>4, <1>5, <1>6, <1>7, <1>8, <1>9, <1>10, <1>11, <1>12, <1>13, <1>14, <1>15, <1>16 DEF Step

LEMMA SessionStep ==
  ASSUME RealtimeAssumption, RealtimeInv, NEW s \in Session,
         \/ OpenBegins(s) \/ OpenRegisters(s) \/ OpenReturns(s) \/ OpeningFails(s)
         \/ \E cmd \in {"start", "cancel", "interrupt"} : Command(s, cmd)
         \/ Disconnect(s) \/ ClientCloses(s) \/ Commit(s) \/ Begin(s)
         \/ HearPartial(s) \/ HearUser(s) \/ HearAssistant(s) \/ HearCompleted(s)
         \/ HearFailed(s) \/ ProtocolBreach(s) \/ StreamEnds(s) \/ FailBegins(s)
         \/ \E i \in Talk : HearLate(s, i)
         \/ CoreCloses(s) \/ CloseBegins(s) \/ UnlistClosed(s)
         \/ Forward(s) \/ SenderEnds(s)
  PROVE  RealtimeInv' /\ LeaseKept
<1>1. CASE OpenBegins(s)
  BY <1>1, OpenBeginsStep
<1>2. CASE OpenRegisters(s)
  BY <1>2, OpenRegistersStep
<1>3. CASE OpenReturns(s) \/ OpeningFails(s)
  BY <1>3, OpeningEndsStep
<1>4. CASE \E cmd \in {"start", "cancel", "interrupt"} : Command(s, cmd)
  BY <1>4, CommandStep
<1>5. CASE Disconnect(s) \/ Refused(s)
  BY <1>5, DisconnectStep
<1>6. CASE ClientCloses(s)
  BY <1>6, ClientClosesStep
<1>7. CASE Commit(s)
  BY <1>7, CommitStep
<1>8. CASE interactions < MaxInteractions /\ BeginStart(s)
  BY <1>8, BeginStartStep
<1>9. CASE BeginRetire(s)
  BY <1>9, BeginRetireStep
<1>10. CASE HearPartial(s)
  BY <1>10, HearPartialStep
<1>11. CASE HearUser(s)
  BY <1>11, HearUserStep
<1>12. CASE HearAssistant(s)
  BY <1>12, HearAssistantStep
<1>13. CASE HearCompleted(s)
  BY <1>13, HearCompletedStep
<1>14. CASE HearFailed(s)
  BY <1>14, HearFailedStep
<1>15. CASE ProtocolBreach(s)
  BY <1>15, FailProtocolStep DEF ProtocolBreach
<1>16. CASE StreamEnds(s)
  BY <1>16, StreamEndsStep
<1>17. CASE FailBegins(s)
  BY <1>17, FailBeginsStep
<1>18. ASSUME NEW i \in Talk, HearLate(s, i) PROVE RealtimeInv' /\ LeaseKept
  <2>1. CASE Contains(ses[s].retired, i)
    BY <1>18, <2>1, IgnoredStep DEF HearLate
  <2>2. CASE ~Contains(ses[s].retired, i)
    BY <1>18, <2>2, FailProtocolStep DEF HearLate
  <2> QED
    BY <2>1, <2>2
<1>19. CASE CoreCloses(s)
  BY <1>19, CoreClosesStep
<1>20. CASE CloseBegins(s)
  BY <1>20, CloseBeginsStep
<1>21. CASE UnlistClosed(s)
  BY <1>21, UnlistClosedStep
<1>22. CASE Forward(s) \/ SenderEnds(s)
  BY <1>22, SenderStep
<1> QED
  BY <1>1, <1>2, <1>3, <1>4, <1>5, <1>6, <1>7, <1>8, <1>9, <1>10, <1>11, <1>12, <1>13, <1>14, <1>15,
     <1>16, <1>17, <1>18, <1>19, <1>20, <1>21, <1>22 DEF Begin

LEMMA RealtimeStep ==
  ASSUME RealtimeAssumption, RealtimeInv, [RealtimeNext]_realtimeVars PROVE RealtimeInv' /\ LeaseKept
<1>1. CASE UNCHANGED realtimeVars
  BY <1>1, RealtimeStutters
<1>2. CASE Step
  BY <1>2, TransitionStep
<1>3. CASE TextBegins \/ TextEnds
  BY <1>3, TextPasses
<1>4. ASSUME NEW s \in Session,
             \/ OpenBegins(s) \/ OpenRegisters(s) \/ OpenReturns(s) \/ OpeningFails(s)
             \/ \E cmd \in {"start", "cancel", "interrupt"} : Command(s, cmd)
             \/ Disconnect(s) \/ ClientCloses(s) \/ Commit(s) \/ Begin(s)
             \/ HearPartial(s) \/ HearUser(s) \/ HearAssistant(s) \/ HearCompleted(s)
             \/ HearFailed(s) \/ ProtocolBreach(s) \/ StreamEnds(s) \/ FailBegins(s)
             \/ \E i \in Talk : HearLate(s, i)
             \/ CoreCloses(s) \/ CloseBegins(s) \/ UnlistClosed(s)
             \/ Forward(s) \/ SenderEnds(s)
      PROVE  RealtimeInv' /\ LeaseKept
  BY <1>4, SessionStep
<1> QED
  BY <1>1, <1>2, <1>3, <1>4 DEF RealtimeNext

(* Every program of a transition is one that the runtime writes, and what  *)
(* its steps rely on holds when they are taken.                            *)
THEOREM RealtimeInvariance == RealtimeSpec => []RealtimeInv
<1>1. RealtimeInit => RealtimeInv
  BY RealtimeAssumption, RealtimeStarts
<1>2. RealtimeInv /\ [RealtimeNext]_realtimeVars => RealtimeInv'
  BY RealtimeAssumption, RealtimeStep
<1> QED
  BY <1>1, <1>2, PTL DEF RealtimeSpec

-----------------------------------------------------------------------------
(* At every state: SessionsInOrder.                                        *)
LEMMA RealtimeTyped == ASSUME RealtimeAssumption, RealtimeInv PROVE RealtimeTypeOK
<1>1. SesOK /\ ConOK /\ OpOK /\ TurnsOK /\ RestOK
  BY DEF RealtimeInv, Typed
<1>2. ASSUME NEW s \in Session
      PROVE  /\ ses[s].state \in Live \cup {"none", "CLOSED", "FAILED"}
             /\ ses[s].active \in 0 .. MaxInteractions
             /\ ses[s].committed \in BOOLEAN /\ ses[s].said \in BOOLEAN
             /\ ses[s].provider \in BOOLEAN
             /\ ses[s].consumer \in {"none", "reading", "failing", "ending", "dead"}
             /\ ses[s].serving \subseteq Talk /\ ses[s].retired \in Seq(Talk)
             /\ ses[s].stale \in BOOLEAN /\ ses[s].over \in BOOLEAN
             /\ ses[s].stopped \in BOOLEAN
             /\ ses[s].closing \in {"no", "asked", "running", "unlisting", "done"}
             /\ Len(ses[s].queue) <= QueueLimit /\ Len(ses[s].retired) <= RetiredLimit
  BY <1>1, SessionTyped DEF SesSet, Bounded
<1>3. ASSUME NEW s \in Session
      PROVE  /\ con[s].at \in {"new", "opening", "registered", "open", "leaving", "gone"}
             /\ con[s].cmd \in {"none", "start", "cancel", "interrupt"}
             /\ con[s].id \in 0 .. MaxInteractions /\ con[s].committed \in BOOLEAN
  BY <1>1 DEF ConOK, ConSet
<1>4. op.s \in Session /\ op.by \in {"client", "close", "consumer"}
  BY <1>1 DEF OpOK, OpSet
<1> QED
  BY <1>1, <1>2, <1>3, <1>4 DEF RealtimeTypeOK, TurnsOK, RestOK

(* The sessions are well formed, a PROCESSING voice Turn is the active     *)
(* interaction of a live session, and a session that was closed is over.   *)
THEOREM SessionsAreInOrder == RealtimeSpec => []SessionsInOrder
<1>1. RealtimeInv => SessionsInOrder
  <2> SUFFICES ASSUME RealtimeInv PROVE SessionsInOrder
    OBVIOUS
  <2>1. ClosedIsOver
    BY DEF RealtimeInv, SessionsOK, SessionOK, ClosedIsOver
  <2> QED
    BY <2>1, RealtimeAssumption, RealtimeTyped DEF SessionsInOrder, RealtimeInv
<1> QED
  BY <1>1, RealtimeInvariance, PTL

(* What _conversation_sessions and the Turns of other interactions are to  *)
(* a step.                                                                 *)
LEMMA TurnsKept ==
  ASSUME [RealtimeNext]_realtimeVars, voiceTurn' # voiceTurn
  PROVE  \/ PersistVoiceTurn(op.s) /\ At("persist") /\ voiceTurn' = [voiceTurn EXCEPT ![ses[op.s].active] = "PROCESSING"]
         \/ TerminalizeTurn(op.s) /\ At("end") /\ voiceTurn' = [voiceTurn EXCEPT ![ses[op.s].active] = op.to]
         \/ CompleteTurn(op.s) /\ At("complete") /\ voiceTurn' = [voiceTurn EXCEPT ![ses[op.s].active] = "COMPLETED"]
<1>1. ~UNCHANGED realtimeVars /\ ~TextBegins /\ ~TextEnds
  BY DEF realtimeVars, TextBegins, TextEnds
<1>2. ASSUME NEW s \in Session,
             \/ OpenBegins(s) \/ OpenRegisters(s) \/ OpenReturns(s) \/ OpeningFails(s)
             \/ \E cmd \in {"start", "cancel", "interrupt"} : Command(s, cmd)
             \/ Disconnect(s) \/ ClientCloses(s) \/ Commit(s) \/ Begin(s)
      PROVE  FALSE
  BY <1>2 DEF OpenBegins, OpenRegisters, OpenReturns, OpeningFails, Command, Disconnect, ClientCloses, Commit,
              Begin, BeginStart, BeginRetire, Refused
<1>3. ASSUME NEW s \in Session,
             \/ HearPartial(s) \/ HearUser(s) \/ HearAssistant(s) \/ HearCompleted(s)
             \/ HearFailed(s) \/ ProtocolBreach(s) \/ StreamEnds(s) \/ FailBegins(s)
             \/ \E i \in Talk : HearLate(s, i)
      PROVE  FALSE
  BY <1>3 DEF HearPartial, HearUser, HearAssistant, HearCompleted, Hear, HearFailed, ProtocolBreach, FailProtocol,
              StreamEnds, FailBegins, HearLate
<1>4. ASSUME NEW s \in Session,
             \/ CoreCloses(s) \/ CloseBegins(s) \/ UnlistClosed(s) \/ Forward(s) \/ SenderEnds(s)
      PROVE  FALSE
  BY <1>4 DEF CoreCloses, CloseBegins, UnlistClosed, Forward, SenderEnds
<1>5. Step
  BY <1>1, <1>2, <1>3, <1>4 DEF RealtimeNext
<1>6. PersistVoiceTurn(op.s) \/ TerminalizeTurn(op.s) \/ CompleteTurn(op.s)
  BY <1>5 DEF Step, ProviderInterrupt, TellEnded, RetireActive, CheckContext, ReseedProvider, ProviderStart,
              AnnounceStarted, UndoStart, TellNews, CountContext, Dismiss, FailSession, ShutSession, TellOver, UnlistFailed
<1> QED
  BY <1>6 DEF PersistVoiceTurn, TerminalizeTurn, CompleteTurn

LEMMA TurnsEndOnce ==
  ASSUME RealtimeAssumption, RealtimeInv, [RealtimeNext]_realtimeVars,
         NEW i \in Talk, voiceTurn'[i] # voiceTurn[i]
  PROVE  /\ voiceTurn[i] \notin Terminal
         /\ \E s \in Session : /\ ses[s].active = i
                               /\ voiceTurn'[i] = "COMPLETED" => ses[s].said
<1>1. OpOK /\ ProgramOK /\ op.s \in Session /\ voiceTurn \in [Talk -> Terminal \cup {"none", "PROCESSING"}]
  BY DEF RealtimeInv, Typed, OpOK, OpSet, TurnsOK
<1>2. voiceTurn' # voiceTurn
  OBVIOUS
<1>3. CASE At("persist") /\ voiceTurn' = [voiceTurn EXCEPT ![ses[op.s].active] = "PROCESSING"]
  <2>1. voiceTurn[ses[op.s].active] = "none"
    BY <1>1, <1>3, NextDue DEF RealtimeInv, TurnDue, Mine
  <2>2. i = ses[op.s].active /\ voiceTurn'[i] = "PROCESSING"
    BY <1>1, <1>3
  <2> QED
    BY <1>1, <2>1, <2>2 DEF Terminal
<1>4. CASE TerminalizeTurn(op.s) /\ At("end") /\ voiceTurn' = [voiceTurn EXCEPT ![ses[op.s].active] = op.to]
  <2>1. voiceTurn[ses[op.s].active] = "PROCESSING" /\ op.to \in {"INTERRUPTED", "FAILED"}
    BY <1>1, <1>4, NextDue DEF TerminalizeTurn, ProgramOK
  <2>2. i = ses[op.s].active /\ voiceTurn'[i] = op.to
    BY <1>1, <1>4
  <2> QED
    BY <1>1, <2>1, <2>2 DEF Terminal
<1>5. CASE At("complete") /\ voiceTurn' = [voiceTurn EXCEPT ![ses[op.s].active] = "COMPLETED"]
  <2>1. voiceTurn[ses[op.s].active] = "PROCESSING" /\ ses[op.s].said
    BY <1>1, <1>5, NextDue DEF RealtimeInv, TurnDue, Mine
  <2>2. i = ses[op.s].active
    BY <1>1, <1>5
  <2> QED
    BY <1>1, <2>1, <2>2 DEF Terminal
<1> QED
  BY <1>2, <1>3, <1>4, <1>5, TurnsKept

LEMMA EntryKept ==
  ASSUME [RealtimeNext]_realtimeVars, entry' # entry
  PROVE  \/ \E s \in Session : OpenBegins(s) \/ OpenRegisters(s) \/ UnlistClosed(s)
         \/ UnlistFailed(op.s)
<1>1. ~UNCHANGED realtimeVars /\ ~TextBegins /\ ~TextEnds
  BY DEF realtimeVars, TextBegins, TextEnds
<1>2. ASSUME NEW s \in Session,
             \/ OpenReturns(s) \/ OpeningFails(s)
             \/ \E cmd \in {"start", "cancel", "interrupt"} : Command(s, cmd)
             \/ Disconnect(s) \/ ClientCloses(s) \/ Commit(s) \/ Begin(s)
      PROVE  FALSE
  BY <1>2 DEF OpenReturns, OpeningFails, Command, Disconnect, ClientCloses, Commit,
              Begin, BeginStart, BeginRetire, Refused
<1>3. ASSUME NEW s \in Session,
             \/ HearPartial(s) \/ HearUser(s) \/ HearAssistant(s) \/ HearCompleted(s)
             \/ HearFailed(s) \/ ProtocolBreach(s) \/ StreamEnds(s) \/ FailBegins(s)
             \/ \E i \in Talk : HearLate(s, i)
      PROVE  FALSE
  BY <1>3 DEF HearPartial, HearUser, HearAssistant, HearCompleted, Hear, HearFailed, ProtocolBreach, FailProtocol,
              StreamEnds, FailBegins, HearLate
<1>4. ASSUME NEW s \in Session,
             \/ CoreCloses(s) \/ CloseBegins(s) \/ Forward(s) \/ SenderEnds(s)
      PROVE  FALSE
  BY <1>4 DEF CoreCloses, CloseBegins, Forward, SenderEnds
<1>5. ASSUME Step PROVE UnlistFailed(op.s)
  BY <1>5 DEF Step, ProviderInterrupt, TellEnded, RetireActive, CheckContext, ReseedProvider, ProviderStart,
              AnnounceStarted, UndoStart, TellNews, CountContext, Dismiss, FailSession, ShutSession, TellOver,
              PersistVoiceTurn, TerminalizeTurn, CompleteTurn
<1> QED
  BY <1>1, <1>2, <1>3, <1>4, <1>5 DEF RealtimeNext

LEMMA EntriesForgotten ==
  ASSUME RealtimeAssumption, RealtimeInv, [RealtimeNext]_realtimeVars,
         NEW s \in LiveSessions, entry = s, entry' # s
  PROVE  \/ At("unlist") /\ op.s # s
         \/ ses[s].closing = "unlisting" /\ errors > 0
<1>1. s \in Session /\ ses[s].state \in Live /\ SessionOK(s) /\ OpOK /\ "none" \notin Session
  BY SessionFacts DEF LiveSessions, RealtimeInv, Typed, RealtimeAssumption
<1>2. ASSUME NEW x \in Session, OpenBegins(x) PROVE FALSE
  BY <1>2 DEF OpenBegins
<1>3. ASSUME NEW x \in Session, OpenRegisters(x) PROVE FALSE
  BY <1>1, <1>3, SessionFacts DEF OpenRegisters, SessionOK
<1>4. ASSUME NEW x \in Session, UnlistClosed(x) PROVE ses[s].closing = "unlisting" /\ errors > 0
  BY <1>1, <1>4 DEF UnlistClosed, SessionOK
<1>5. ASSUME UnlistFailed(op.s) PROVE At("unlist") /\ op.s # s
  <2>1. At("unlist") /\ "unlist" \in Due /\ "fail" \notin Due
    <3>1. At("unlist") /\ "unlist" \in Due /\ \A y \in Due : y = "unlist" \/ Rank["unlist"] < Rank[y]
      BY <1>1, <1>5, NextDue DEF UnlistFailed
    <3> QED
      BY <3>1 DEF Rank
  <2> QED
    BY <1>1, <2>1 DEF RealtimeInv, EndDue, Mine, Live
<1> QED
  BY <1>2, <1>3, <1>4, <1>5, EntryKept

(* A voice Turn is written only for the active interaction, completed only *)
(* with its answer, and never after it has ended; the entry of a live      *)
(* session is removed only by another's late failure or by a failed close. *)
THEOREM SessionsStayApart == RealtimeSpec => SessionsKeepApart
<1>1. ASSUME RealtimeInv, [RealtimeNext]_realtimeVars
      PROVE  /\ \A i \in Talk : voiceTurn'[i] # voiceTurn[i] =>
                  /\ voiceTurn[i] \notin Terminal
                  /\ \E s \in Session : /\ ses[s].active = i
                                        /\ voiceTurn'[i] = "COMPLETED" => ses[s].said
             /\ \A s \in LiveSessions : s \in LiveSessions' /\ entry = s /\ entry' # s =>
                  \/ At("unlist") /\ op.s # s
                  \/ ses[s].closing = "unlisting" /\ errors > 0
  BY <1>1, RealtimeAssumption, TurnsEndOnce, EntriesForgotten
<1> QED
  BY <1>1, RealtimeInvariance, PTL DEF RealtimeSpec, SessionsKeepApart, TurnEndsOnce, EntryForgotten

-----------------------------------------------------------------------------
(* The voice lease: who has it in hand is who holds it.                    *)
LEMMA HandsHold ==
  ASSUME OpOK PROVE LeaseInHand <=> \E x \in Session : Holds(x)
<1>1. op.s \in Session /\ Due = {op.todo[k] : k \in DOMAIN op.todo}
  BY DEF OpOK, OpSet, Due, Steps
<1> QED
  BY <1>1 DEF LeaseInHand, Holds, Opening

LEMMA HandsHoldNext ==
  ASSUME OpOK' PROVE LeaseInHand' <=> \E x \in Session : Holds(x)'
<1>1. op'.s \in Session /\ Due' = {op'.todo[k] : k \in DOMAIN op'.todo}
  BY DEF OpOK, OpSet, Due, Steps
<1> QED
  BY <1>1 DEF LeaseInHand, Holds, Opening

(* The lease of the Conversation is taken exactly while somebody will give *)
(* it back, unless a start was undone whose provider could not be closed.  *)
THEOREM LeaseIsLostOnlyInUndo == RealtimeSpec => LeaseLostOnlyInUndo
<1>1. ASSUME RealtimeInv, [RealtimeNext]_realtimeVars, LeaseAttended, ~LeaseAttended' PROVE At("undo")
  <2>1. RealtimeInv' /\ LeaseKept
    BY <1>1, RealtimeAssumption, RealtimeStep
  <2>2. /\ LeaseInHand <=> \E x \in Session : Holds(x)
        /\ LeaseInHand' <=> \E x \in Session : Holds(x)'
    BY <1>1, <2>1, HandsHold, HandsHoldNext DEF RealtimeInv, Typed
  <2>3. lease' \in BOOLEAN /\ LeaseInHand' \in BOOLEAN
    BY <2>1 DEF RealtimeInv, Typed, RestOK, LeaseInHand
  <2>4. LeaseHasHolder
    BY <1>1, <2>2 DEF LeaseAttended, LeaseHasHolder
  <2>5. LeaseInHand' => lease'
    BY <2>1, <2>2 DEF RealtimeInv, LeaseOK
  <2>6. LeaseHasHolder' => (lease' => LeaseInHand')
    BY <2>2 DEF LeaseHasHolder
  <2> QED
    BY <1>1, <2>1, <2>3, <2>4, <2>5, <2>6 DEF LeaseAttended, LeaseKept
<1> QED
  BY <1>1, RealtimeInvariance, PTL DEF RealtimeSpec, LeaseLostOnlyInUndo
================================================================================
