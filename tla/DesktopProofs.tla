----------------------------- MODULE DesktopProofs -----------------------------
(***************************************************************************)
(* Theorems about the desktop client: the microphone runs for the voice in *)
(* use, no session is left behind, and late events end no other voice      *)
(* (DesktopVoice); the Conversation page shows one Conversation, sends a   *)
(* text to the one it shows, and an answer is stored as complete exactly   *)
(* when the stream was (DesktopConversation); for every set of             *)
(* Conversations and every number of clicks, texts, pages and failures.    *)
(* The two share no state.                                                 *)
(***************************************************************************)
EXTENDS DesktopVoice, DesktopConversation, FiniteSetTheorems, SequenceTheorems, TLAPS

(* --------------------------- Queues in general ------------------------- *)
Elems(q) == {q[i] : i \in DOMAIN q}
Places(q, K) == {i \in DOMAIN q : q[i] \in K}
Count(q, K) == Cardinality(Places(q, K))

LEMMA ElemsEmpty == Elems(<<>>) = {} /\ \A x : Elems(<<x>>) = {x} /\ \A y : Elems(<<x, y>>) = {x, y}
BY DEF Elems

LEMMA ElemsAppend ==
  ASSUME NEW S, NEW q \in Seq(S), NEW x \in S
  PROVE  Append(q, x) \in Seq(S) /\ Elems(Append(q, x)) = Elems(q) \cup {x}
<1>1. /\ Append(q, x) \in Seq(S) /\ Len(q) \in Nat
      /\ DOMAIN q = 1 .. Len(q) /\ DOMAIN Append(q, x) = 1 .. Len(q) + 1
      /\ \A i \in 1 .. Len(q) : Append(q, x)[i] = q[i]
      /\ Append(q, x)[Len(q) + 1] = x
  BY AppendProperties
<1>2. 1 .. Len(q) + 1 = 1 .. Len(q) \cup {Len(q) + 1}
  BY <1>1
<1>3. Elems(Append(q, x)) \subseteq Elems(q) \cup {x}
  BY <1>1, <1>2 DEF Elems
<1>4. ASSUME NEW y \in Elems(q) PROVE y \in Elems(Append(q, x))
  BY <1>1, <1>2, <1>4 DEF Elems
<1>5. x \in Elems(Append(q, x))
  BY <1>1, <1>2 DEF Elems
<1> QED
  BY <1>1, <1>3, <1>4, <1>5

LEMMA ElemsConcat ==
  ASSUME NEW S, NEW q \in Seq(S), NEW e \in Seq(S)
  PROVE  q \o e \in Seq(S) /\ Elems(q \o e) = Elems(q) \cup Elems(e)
<1>1. /\ q \o e \in Seq(S) /\ Len(q) \in Nat /\ Len(e) \in Nat
      /\ DOMAIN q = 1 .. Len(q) /\ DOMAIN e = 1 .. Len(e)
      /\ DOMAIN (q \o e) = 1 .. Len(q) + Len(e)
      /\ \A i \in 1 .. Len(q) + Len(e) : (q \o e)[i] = IF i <= Len(q) THEN q[i] ELSE e[i - Len(q)]
  BY ConcatProperties
<1>2. ASSUME NEW x \in Elems(q \o e) PROVE x \in Elems(q) \cup Elems(e)
  <2>1. PICK i \in 1 .. Len(q) + Len(e) : x = (q \o e)[i]
    BY <1>1, <1>2 DEF Elems
  <2>2. CASE i <= Len(q)
    BY <1>1, <2>1, <2>2 DEF Elems
  <2>3. CASE ~(i <= Len(q))
    <3>1. i - Len(q) \in 1 .. Len(e) /\ x = e[i - Len(q)]
      BY <1>1, <2>1, <2>3
    <3> QED
      BY <1>1, <3>1 DEF Elems
  <2> QED
    BY <2>2, <2>3
<1>3. ASSUME NEW x \in Elems(q) PROVE x \in Elems(q \o e)
  <2>1. PICK i \in 1 .. Len(q) : x = q[i]
    BY <1>1, <1>3 DEF Elems
  <2>2. i \in 1 .. Len(q) + Len(e) /\ x = (q \o e)[i]
    BY <1>1, <2>1
  <2> QED
    BY <1>1, <2>2 DEF Elems
<1>4. ASSUME NEW x \in Elems(e) PROVE x \in Elems(q \o e)
  <2>1. PICK i \in 1 .. Len(e) : x = e[i]
    BY <1>1, <1>4 DEF Elems
  <2>2. /\ i + Len(q) \in 1 .. Len(q) + Len(e) /\ ~(i + Len(q) <= Len(q))
        /\ (i + Len(q)) - Len(q) = i
    BY <1>1, <2>1
  <2>3. x = (q \o e)[i + Len(q)]
    BY <1>1, <2>1, <2>2
  <2> QED
    BY <1>1, <2>2, <2>3 DEF Elems
<1> QED
  BY <1>1, <1>2, <1>3, <1>4

LEMMA ElemsTail ==
  ASSUME NEW S, NEW q \in Seq(S), q # <<>>
  PROVE  /\ Tail(q) \in Seq(S) /\ Head(q) \in S
         /\ Head(q) \in Elems(q) /\ Elems(Tail(q)) \subseteq Elems(q)
<1>1. /\ Head(q) \in S /\ Tail(q) \in Seq(S) /\ Head(q) = q[1]
      /\ Len(q) \in Nat /\ Len(q) > 0 /\ DOMAIN q = 1 .. Len(q)
      /\ Len(Tail(q)) = Len(q) - 1 /\ DOMAIN Tail(q) = 1 .. Len(q) - 1
      /\ \A i \in 1 .. Len(q) - 1 : Tail(q)[i] = q[i + 1]
  BY HeadTailProperties, EmptySeq
<1>2. 1 \in DOMAIN q
  BY <1>1
<1>3. ASSUME NEW x \in Elems(Tail(q)) PROVE x \in Elems(q)
  <2>1. PICK i \in 1 .. Len(q) - 1 : x = q[i + 1]
    BY <1>1, <1>3 DEF Elems
  <2>2. i + 1 \in DOMAIN q
    BY <1>1, <2>1
  <2> QED
    BY <2>1, <2>2 DEF Elems
<1> QED
  BY <1>1, <1>2, <1>3 DEF Elems

LEMMA ElemsTyped == ASSUME NEW S, NEW q \in Seq(S) PROVE Elems(q) \subseteq S
BY DEF Elems

LEMMA CountTyped ==
  ASSUME NEW S, NEW q \in Seq(S), NEW K
  PROVE  IsFiniteSet(Places(q, K)) /\ Count(q, K) \in Nat
<1>1. Len(q) \in Nat /\ Places(q, K) \subseteq 1 .. Len(q)
  BY DEF Places
<1>2. IsFiniteSet(1 .. Len(q))
  BY <1>1, FS_Interval
<1> QED
  BY <1>1, <1>2, FS_Subset, FS_CardinalityType DEF Count

LEMMA CountEmpty == ASSUME NEW K PROVE Count(<<>>, K) = 0
BY FS_EmptySet DEF Count, Places

LEMMA CountAppend ==
  ASSUME NEW S, NEW q \in Seq(S), NEW x \in S, NEW K
  PROVE  Count(Append(q, x), K) = Count(q, K) + (IF x \in K THEN 1 ELSE 0)
<1>1. /\ Append(q, x) \in Seq(S) /\ Len(q) \in Nat
      /\ DOMAIN q = 1 .. Len(q) /\ DOMAIN Append(q, x) = 1 .. Len(q) + 1
      /\ \A i \in 1 .. Len(q) : Append(q, x)[i] = q[i]
      /\ Append(q, x)[Len(q) + 1] = x
  BY AppendProperties
<1>2. 1 .. Len(q) + 1 = 1 .. Len(q) \cup {Len(q) + 1} /\ Len(q) + 1 \notin 1 .. Len(q)
  BY <1>1
<1>3. Places(Append(q, x), K) = Places(q, K) \cup (IF x \in K THEN {Len(q) + 1} ELSE {})
  BY <1>1, <1>2, Zenon DEF Places
<1>4. Len(q) + 1 \notin Places(q, K)
  BY <1>1, <1>2 DEF Places
<1>5. IsFiniteSet(Places(q, K)) /\ Count(q, K) \in Nat
  BY CountTyped
<1>6. CASE x \in K
  BY <1>3, <1>4, <1>5, <1>6, FS_AddElement DEF Count
<1>7. CASE x \notin K
  BY <1>3, <1>5, <1>7 DEF Count
<1> QED
  BY <1>6, <1>7

LEMMA CountTail ==
  ASSUME NEW S, NEW q \in Seq(S), q # <<>>, NEW K
  PROVE  Count(q, K) = Count(Tail(q), K) + (IF Head(q) \in K THEN 1 ELSE 0)
<1>1. /\ Head(q) \in S /\ Tail(q) \in Seq(S) /\ Head(q) = q[1]
      /\ Len(q) \in Nat /\ Len(q) > 0 /\ DOMAIN q = 1 .. Len(q)
      /\ Len(Tail(q)) = Len(q) - 1 /\ DOMAIN Tail(q) = 1 .. Len(q) - 1
      /\ \A i \in 1 .. Len(q) - 1 : Tail(q)[i] = q[i + 1]
  BY HeadTailProperties, EmptySeq
<1> DEFINE P == Places(Tail(q), K)
           Q == {i \in 2 .. Len(q) : q[i] \in K}
           f == [i \in P |-> i + 1]
<1>2. P = {i \in 1 .. Len(q) - 1 : q[i + 1] \in K}
  BY <1>1 DEF Places
<1>3. f \in Bijection(P, Q)
  <2>1. \A i \in P : i + 1 \in Q
    BY <1>1, <1>2
  <2>2. \A i, j \in P : i + 1 = j + 1 => i = j
    BY <1>1, <1>2
  <2>3. \A j \in Q : j - 1 \in P /\ (j - 1) + 1 = j
    BY <1>1, <1>2
  <2>4. f \in Injection(P, Q)
    <3>1. f \in [P -> Q] /\ \A i \in P : f[i] = i + 1
      BY <2>1
    <3>2. \A i, j \in P : f[i] = f[j] => i = j
      BY <2>2, <3>1
    <3> HIDE DEF P, Q, f
    <3> QED
      BY <3>1, <3>2 DEF Injection, IsInjective
  <2>5. \A j \in Q : \E i \in P : f[i] = j
    BY <2>3
  <2> QED
    BY <2>4, <2>5 DEF Bijection, Surjection, Injection
<1>4. IsFiniteSet(P) /\ Cardinality(P) \in Nat
  BY <1>1, CountTyped DEF Count
<1>5. IsFiniteSet(Q) /\ Cardinality(Q) = Cardinality(P)
  BY <1>3, <1>4, FS_Bijection DEF ExistsBijection
<1>6. 1 .. Len(q) = {1} \cup 2 .. Len(q) /\ 1 \notin 2 .. Len(q)
  BY <1>1
<1>7. Places(q, K) = Q \cup (IF Head(q) \in K THEN {1} ELSE {}) /\ 1 \notin Q
  BY <1>1, <1>6, Zenon DEF Places
<1> HIDE DEF P, Q, f
<1>8. CASE Head(q) \in K
  <2>1. Places(q, K) = Q \cup {1}
    BY <1>7, <1>8
  <2> QED
    BY <1>5, <1>7, <1>8, <2>1, FS_AddElement DEF Count, P
<1>9. CASE Head(q) \notin K
  <2>1. Places(q, K) = Q
    BY <1>7, <1>9
  <2> QED
    BY <1>4, <1>5, <1>9, <2>1 DEF Count, P
<1> QED
  BY <1>8, <1>9

(* ------------------------------ DesktopVoice --------------------------- *)
ConnRecord == [session : Session \cup {Nobody}, interaction : Interaction \cup {Nobody},
               committed : BOOLEAN, replaced : BOOLEAN]
Message == [kind : Clicks \cup Kinds, voice : Voice \cup {Nobody}, session : Session \cup {Nobody}]
RuntimeEvents == Kinds \cup {"END"}
SesRecord == [state : {"unused", "IDLE", "ACTIVE", "CLOSED", "FAILED", "forgotten"},
              active : Interaction \cup {Nobody}, committed : BOOLEAN, turn : BOOLEAN,
              spoken : BOOLEAN]
StartClicks == {m \in Message : m.kind = "start"}
Working == slot \in {"open", "start", "reopen", "restart"}

(* A connection and an interaction for each click on start, at most.       *)
CountOK ==
  /\ starts + Count(inbox, StartClicks) + (IF Working THEN 1 ELSE 0) <= asked
  /\ Len(conn) + Count(inbox, StartClicks) <= asked

(* Which slots have a voice, and which one closes it.                      *)
SlotOK ==
  /\ voice # Nobody => voice = Len(conn)
  /\ slot \in {"open", "start", "reopen", "restart", "bind", "commit", "interrupt"} => voice # Nobody
  /\ slot \in {"cancel", "close", "join", "stopped"} => voice = Nobody
  /\ slot # "discard"
  /\ closing # Nobody <=> slot \in {"cancel", "close"}
  /\ closing \in 0 .. Len(conn)
  /\ app \in {"stopping", "stopped"} => slot = "stopped"

(* What the connection of the voice in use knows by then.                  *)
ConnOK ==
  voice # Nobody =>
    /\ slot \notin {"open", "reopen"} => conn[voice].session # Nobody
    /\ slot \in {"free", "commit", "interrupt", "bind"} => conn[voice].interaction # Nobody
    /\ slot = "bind" => ~conn[voice].committed
    /\ slot \in {"reopen", "restart"} => conn[voice].replaced

MicOK ==
  /\ slot \in {"cancel", "close", "join", "stopped", "commit"} => ~mic
  /\ slot \in {"free", "interrupt"} /\ mic => voice # Nobody /\ ~conn[voice].committed

(* Where the pump and its events come from; a connection that has yet to   *)
(* open its session has none.                                              *)
PumpOK ==
  /\ pump.state # "ended" => pump.voice \in 1 .. Len(conn)
  /\ pump.state = "reading" <=> pump.session # Nobody
  /\ \A m \in Elems(inbox) : m.kind \in Kinds => m.voice \in 1 .. Len(conn)
  /\ slot = "open" =>
       /\ pump.state # "ended" => pump.voice # voice
       /\ \A m \in Elems(inbox) : m.kind \in Kinds => m.voice # voice

(* The sessions of the runtime and what they have not delivered.           *)
RuntimeTyped == ses \in [Session -> SesRecord] /\ queue \in [Session -> Seq(RuntimeEvents)]
SesOK(s) ==
  /\ ses[s].committed => ses[s].state = "ACTIVE"
  /\ ses[s].active # Nobody => ses[s].state = "ACTIVE"
  /\ ses[s].state = "unused" => queue[s] = <<>>
  /\ "END" \in Elems(queue[s]) => ~Live(s)
  /\ "closed" \in Elems(queue[s]) => ses[s].state \in {"CLOSED", "forgotten"}
RuntimeOK == RuntimeTyped /\ \A s \in Session : SesOK(s)

(* A session is closed by the worker when its voice is over, or when the   *)
(* worker has stopped: no voice in use is told of it.                      *)
Closed(s) == ses[s].state = "CLOSED" \/ "closed" \in Elems(queue[s])
ClosedOK ==
  voice # Nobody =>
    /\ \A s \in Session : Closed(s) =>
         /\ conn[voice].session # s
         /\ pump.state = "reading" /\ pump.voice = voice => pump.session # s
    /\ \A m \in Elems(inbox) : m.kind = "closed" => m.voice # voice

(* The events of the voice in use are of its session, or of the one that   *)
(* it has replaced.                                                        *)
LateOK ==
  voice # Nobody /\ ~conn[voice].replaced =>
    /\ pump.state = "reading" /\ pump.voice = voice => pump.session = conn[voice].session
    /\ \A m \in Elems(inbox) :
         m.kind \in Kinds /\ m.voice = voice => m.session = conn[voice].session

(* Without faults a live session is the one of the voice in use, or of the *)
(* one that is being closed.                                               *)
OwnedOK ==
  faults = 0 => \A s \in Session : Live(s) =>
    \/ voice # Nobody /\ conn[voice].session = s
    \/ closing # Nobody /\ conn[closing].session = s

VoiceInv ==
  /\ TypeOK /\ CountOK /\ SlotOK /\ ConnOK /\ MicOK /\ PumpOK /\ RuntimeOK /\ ClosedOK /\ LateOK
  /\ OwnedOK

(* What TypeOK says of the parts.                                          *)
LEMMA Typed ==
  ASSUME TypeOK
  PROVE  /\ conn \in Seq(ConnRecord) /\ inbox \in Seq(Message)
         /\ RuntimeTyped
         /\ DOMAIN conn = 1 .. Len(conn) /\ Len(conn) \in Nat /\ Len(conn) <= MaxStarts
         /\ \A c \in 1 .. Len(conn) : conn[c] \in ConnRecord
         /\ \A s \in Session : ses[s] \in SesRecord /\ queue[s] \in Seq(RuntimeEvents)
         /\ MaxStarts \in Nat /\ MaxClicks \in Nat /\ MaxFaults \in Nat
         /\ Count(inbox, StartClicks) \in Nat
<1>1. conn \in Seq(ConnRecord) /\ inbox \in Seq(Message) /\ RuntimeTyped
  BY DEF TypeOK, ConnRecord, Message, RuntimeTyped, SesRecord, RuntimeEvents
<1>2. MaxStarts \in Nat /\ MaxClicks \in Nat /\ MaxFaults \in Nat
  BY DesktopVoiceAssumption DEF DesktopVoiceAssumption
<1>3. Len(conn) \in 0 .. MaxStarts
  BY DEF TypeOK
<1>4. DOMAIN conn = 1 .. Len(conn) /\ \A c \in 1 .. Len(conn) : conn[c] \in ConnRecord
  BY <1>1
<1>5. \A s \in Session : ses[s] \in SesRecord /\ queue[s] \in Seq(RuntimeEvents)
  BY <1>1 DEF RuntimeTyped
<1>6. Count(inbox, StartClicks) \in Nat
  BY <1>1, CountTyped
<1> QED
  BY <1>1, <1>2, <1>3, <1>4, <1>5, <1>6

(* The operations of the runtime keep its sessions in order; none revives  *)
(* a session or closes one, but for the last two.                          *)
Kept == \A x \in Session : (Live(x)' => Live(x)) /\ (Closed(x)' => Closed(x))

LEMMA Putting ==
  ASSUME RuntimeOK, NEW s \in Session,
         NEW st \in {"IDLE", "ACTIVE", "CLOSED", "FAILED"}, NEW i \in Interaction \cup {Nobody},
         NEW e \in Seq(RuntimeEvents), Put(s, st, i, e), i # Nobody => st = "ACTIVE",
         st \in {"IDLE", "ACTIVE"} => ~("END" \in Elems(e)) /\ (Live(s) \/ ses[s].state = "unused"),
         "closed" \in Elems(e) => st = "CLOSED",
         "closed" \in Elems(queue[s]) => st = "CLOSED"
  PROVE  /\ RuntimeOK'
         /\ \A x \in Session : x # s => (Live(x)' <=> Live(x)) /\ (Closed(x)' <=> Closed(x))
         /\ Live(s)' <=> st \in {"IDLE", "ACTIVE"}
         /\ Closed(s)' => st = "CLOSED" \/ Closed(s)
<1>1. /\ ses \in [Session -> SesRecord] /\ queue \in [Session -> Seq(RuntimeEvents)]
      /\ queue[s] \in Seq(RuntimeEvents)
  BY DEF RuntimeOK, RuntimeTyped
<1> DEFINE r == [Unused EXCEPT !.state = st, !.active = i]
<1>2. r \in SesRecord /\ r.state = st /\ r.active = i /\ r.committed = FALSE
  BY DEF Unused, SesRecord, Nobody
<1>3. /\ ses' = [ses EXCEPT ![s] = r] /\ queue' = [queue EXCEPT ![s] = queue[s] \o e]
  BY DEF Put
<1> HIDE DEF r
<1>4. queue[s] \o e \in Seq(RuntimeEvents) /\ Elems(queue[s] \o e) = Elems(queue[s]) \cup Elems(e)
  BY <1>1, ElemsConcat
<1>5. /\ RuntimeTyped' /\ ses'[s] = r /\ queue'[s] = queue[s] \o e
      /\ \A x \in Session : x # s => ses'[x] = ses[x] /\ queue'[x] = queue[x]
  BY <1>1, <1>2, <1>3, <1>4 DEF RuntimeTyped
<1>6. SesOK(s) /\ (ses[s].state = "unused" => Elems(queue[s]) = {})
  BY ElemsEmpty DEF RuntimeOK, SesOK
<1>7. SesOK(s)'
  BY <1>2, <1>4, <1>5, <1>6 DEF SesOK, Live
<1>8. ASSUME NEW x \in Session, x # s PROVE SesOK(x)'
  BY <1>5, <1>8 DEF RuntimeOK, SesOK, Live
<1> QED
  BY <1>2, <1>4, <1>5, <1>7, <1>8 DEF RuntimeOK, Live, Closed

LEMMA IfTurnTyped ==
  ASSUME NEW s, NEW k \in {"interrupted", "failed"}
  PROVE  IfTurn(s, k) \in Seq(RuntimeEvents) /\ Elems(IfTurn(s, k)) \subseteq {k}
<1>1. <<k>> \in Seq(RuntimeEvents) /\ Elems(<<k>>) = {k} /\ <<>> \in Seq(RuntimeEvents) /\ Elems(<<>>) = {}
  BY ElemsEmpty DEF RuntimeEvents, Kinds
<1> QED
  BY <1>1 DEF IfTurn

LEMMA IfTurnThen ==
  ASSUME NEW s, NEW k \in {"interrupted", "failed"}, NEW e \in Seq(RuntimeEvents)
  PROVE  /\ IfTurn(s, k) \o e \in Seq(RuntimeEvents)
         /\ Elems(IfTurn(s, k) \o e) \subseteq {k} \cup Elems(e)
BY IfTurnTyped, ElemsConcat

LEMMA OpensKeeps ==
  ASSUME RuntimeOK, NEW s \in Session, Opens(s)
  PROVE  /\ RuntimeOK' /\ ~Closed(s)' /\ ~Closed(s) /\ UNCHANGED starts
         /\ \A x \in Session : (Live(x)' => x = s) /\ (Closed(x)' => Closed(x))
<1>1. Put(s, "IDLE", Nobody, <<>>) /\ ses[s].state = "unused" /\ CanOpen
  BY DEF Opens
<1>2. <<>> \in Seq(RuntimeEvents) /\ Elems(<<>>) = {}
  BY ElemsEmpty
<1>3. ~Closed(s) /\ ~("closed" \in Elems(queue[s]))
  BY <1>1, <1>2 DEF RuntimeOK, SesOK, Closed
<1>4. /\ RuntimeOK'
      /\ \A x \in Session : x # s => (Live(x)' <=> Live(x)) /\ (Closed(x)' <=> Closed(x))
      /\ Closed(s)' => Closed(s)
  BY <1>1, <1>2, <1>3, Putting DEF Live
<1> QED
  BY <1>1, <1>3, <1>4 DEF CanOpen, Opens

LEMMA StartsKeeps ==
  ASSUME RuntimeOK, NEW s \in Session, Starts(s), starts + 1 \in Interaction
  PROVE  RuntimeOK' /\ Kept /\ starts' = starts + 1
<1>1. /\ Put(s, "ACTIVE", starts + 1, IfTurn(s, "interrupted"))
      /\ ses[s].state \in {"IDLE", "ACTIVE"} /\ starts' = starts + 1
  BY DEF Starts, CanStart
<1>2. IfTurn(s, "interrupted") \in Seq(RuntimeEvents) /\ Elems(IfTurn(s, "interrupted")) \subseteq {"interrupted"}
  BY IfTurnTyped
<1>3. Live(s) /\ ~("closed" \in Elems(queue[s]))
  BY <1>1 DEF Live, RuntimeOK, SesOK
<1>4. /\ RuntimeOK'
      /\ \A x \in Session : x # s => (Live(x)' <=> Live(x)) /\ (Closed(x)' <=> Closed(x))
      /\ Closed(s)' => Closed(s)
  BY <1>1, <1>2, <1>3, Putting
<1> QED
  BY <1>1, <1>3, <1>4 DEF Kept

LEMMA RetiresKeeps ==
  ASSUME RuntimeOK, NEW s \in Session, Retires(s), Live(s)
  PROVE  RuntimeOK' /\ Kept /\ UNCHANGED starts
<1>1. Put(s, "IDLE", Nobody, IfTurn(s, "interrupted")) /\ UNCHANGED starts
  BY DEF Retires
<1>2. IfTurn(s, "interrupted") \in Seq(RuntimeEvents) /\ Elems(IfTurn(s, "interrupted")) \subseteq {"interrupted"}
  BY IfTurnTyped
<1>3. ~("closed" \in Elems(queue[s]))
  BY DEF Live, RuntimeOK, SesOK
<1>4. /\ RuntimeOK'
      /\ \A x \in Session : x # s => (Live(x)' <=> Live(x)) /\ (Closed(x)' <=> Closed(x))
      /\ Closed(s)' => Closed(s)
  BY <1>1, <1>2, <1>3, Putting
<1> QED
  BY <1>1, <1>4 DEF Kept

LEMMA ClosesKeeps ==
  ASSUME RuntimeOK, NEW s \in Session, Closes(s)
  PROVE  /\ RuntimeOK' /\ ~Live(s)' /\ UNCHANGED starts
         /\ \A x \in Session : (Live(x)' => Live(x)) /\ (x # s => (Closed(x)' => Closed(x)))
<1>1. CASE Live(s)
  <2>1. Put(s, "CLOSED", Nobody, IfTurn(s, "interrupted") \o <<"closed", "END">>) /\ UNCHANGED starts
    BY <1>1 DEF Closes
  <2>2. <<"closed", "END">> \in Seq(RuntimeEvents) /\ Elems(<<"closed", "END">>) = {"closed", "END"}
    BY ElemsEmpty DEF RuntimeEvents, Kinds
  <2>3. IfTurn(s, "interrupted") \o <<"closed", "END">> \in Seq(RuntimeEvents)
    BY <2>2, IfTurnThen
  <2>4. PICK e \in Seq(RuntimeEvents) : Put(s, "CLOSED", Nobody, e)
    BY <2>1, <2>3
  <2>5. /\ RuntimeOK' /\ ~Live(s)'
        /\ \A x \in Session : x # s => (Live(x)' <=> Live(x)) /\ (Closed(x)' <=> Closed(x))
    BY <2>4, Putting
  <2> QED
    BY <2>1, <2>5
<1>2. CASE ~Live(s)
  BY <1>2 DEF Closes, runtime, RuntimeOK, RuntimeTyped, SesOK, Live, Closed
<1> QED
  BY <1>1, <1>2

(* A step that leaves the runtime alone, or changes a mark of a session.   *)
LEMMA RuntimeSame ==
  ASSUME RuntimeOK, UNCHANGED runtime
  PROVE  RuntimeOK' /\ Kept /\ UNCHANGED starts
BY DEF runtime, RuntimeOK, RuntimeTyped, SesOK, Live, Closed, Kept

LEMMA CommitsKeeps ==
  ASSUME RuntimeOK, NEW s \in Session, Commits(s), ses[s].state = "ACTIVE"
  PROVE  RuntimeOK' /\ Kept /\ UNCHANGED starts
<1>1. /\ ses' = [ses EXCEPT ![s].committed = TRUE] /\ UNCHANGED <<queue, starts>>
      /\ ses \in [Session -> SesRecord] /\ ses[s] \in SesRecord
  BY DEF Commits, RuntimeOK, RuntimeTyped
<1> DEFINE r == [ses[s] EXCEPT !.committed = TRUE]
<1>2. r \in SesRecord /\ r.state = "ACTIVE" /\ r.active = ses[s].active /\ ses' = [ses EXCEPT ![s] = r]
  BY <1>1 DEF SesRecord
<1> HIDE DEF r
<1>3. /\ ses' \in [Session -> SesRecord] /\ ses'[s] = r
      /\ \A x \in Session : x # s => ses'[x] = ses[x]
  BY <1>1, <1>2
<1>4. RuntimeTyped'
  BY <1>1, <1>3 DEF RuntimeOK, RuntimeTyped
<1>5. \A x \in Session : SesOK(x)' /\ (Live(x)' => Live(x)) /\ (Closed(x)' => Closed(x))
  BY <1>1, <1>2, <1>3 DEF RuntimeOK, SesOK, Live, Closed
<1> QED
  BY <1>1, <1>4, <1>5 DEF RuntimeOK, Kept

LEMMA ProviderKeeps ==
  ASSUME RuntimeOK, NEW s \in Session, Provider(s)
  PROVE  RuntimeOK' /\ Kept /\ UNCHANGED starts
<1>1. /\ ses \in [Session -> SesRecord] /\ ses[s] \in SesRecord /\ queue[s] \in Seq(RuntimeEvents)
      /\ queue \in [Session -> Seq(RuntimeEvents)] /\ UNCHANGED starts
      /\ HearsUser(s) \/ Speaks(s) \/ Completes(s) \/ FailsToAnswer(s) \/ LosesSession(s)
  BY DEF Provider, RuntimeOK, RuntimeTyped
<1>2. SesOK(s) /\ (Live(s) => ~("closed" \in Elems(queue[s])))
  BY DEF RuntimeOK, SesOK, Live
<1>3. ASSUME NEW r \in SesRecord, NEW q \in Seq(RuntimeEvents), r.state = ses[s].state, r.active = ses[s].active,
             r.committed = ses[s].committed, ses[s].committed,
             Elems(q) \subseteq Elems(queue[s]) \cup {"audio"},
             ses' = [ses EXCEPT ![s] = r], queue' = [queue EXCEPT ![s] = q]
      PROVE  RuntimeOK' /\ Kept
  <2>1. /\ RuntimeTyped' /\ ses'[s] = r /\ queue'[s] = q
        /\ \A x \in Session : x # s => ses'[x] = ses[x] /\ queue'[x] = queue[x]
    BY <1>1, <1>3 DEF RuntimeTyped
  <2>2. \A x \in Session : SesOK(x)' /\ (Live(x)' => Live(x)) /\ (Closed(x)' => Closed(x))
    BY <1>2, <1>3, <2>1 DEF RuntimeOK, SesOK, Live, Closed
  <2> QED
    BY <2>1, <2>2 DEF RuntimeOK, Kept
<1>4. CASE HearsUser(s)
  <2> DEFINE r == [ses[s] EXCEPT !.turn = TRUE]
  <2>1. /\ r \in SesRecord /\ r.state = ses[s].state /\ r.active = ses[s].active
        /\ r.committed = ses[s].committed /\ ses' = [ses EXCEPT ![s] = r]
    BY <1>1, <1>4 DEF HearsUser, SesRecord
  <2>2. ses[s].committed /\ queue' = [queue EXCEPT ![s] = queue[s]]
    BY <1>1, <1>4 DEF HearsUser
  <2> HIDE DEF r
  <2> QED
    BY <1>1, <1>3, <2>1, <2>2
<1>5. CASE Speaks(s)
  <2> DEFINE r == [ses[s] EXCEPT !.spoken = TRUE]
  <2>1. /\ r \in SesRecord /\ r.state = ses[s].state /\ r.active = ses[s].active
        /\ r.committed = ses[s].committed /\ ses' = [ses EXCEPT ![s] = r]
    BY <1>1, <1>5 DEF Speaks, SesRecord
  <2>2. ses[s].committed /\ queue' = [queue EXCEPT ![s] = Append(queue[s], "audio")]
    BY <1>1, <1>5 DEF Speaks
  <2>3. /\ Append(queue[s], "audio") \in Seq(RuntimeEvents)
        /\ Elems(Append(queue[s], "audio")) \subseteq Elems(queue[s]) \cup {"audio"}
    BY <1>1, ElemsAppend DEF RuntimeEvents, Kinds
  <2> HIDE DEF r
  <2> QED
    BY <1>1, <1>3, <2>1, <2>2, <2>3
<1>6. ASSUME NEW k \in {"completed", "failed"}, Live(s), Put(s, "IDLE", Nobody, <<k>>)
      PROVE  RuntimeOK' /\ Kept
  <2>1. <<k>> \in Seq(RuntimeEvents) /\ Elems(<<k>>) = {k}
    BY ElemsEmpty DEF RuntimeEvents, Kinds
  <2>2. PICK e \in Seq(RuntimeEvents) : Put(s, "IDLE", Nobody, e) /\ Elems(e) = {k}
    BY <1>6, <2>1
  <2>3. /\ RuntimeOK' /\ (Closed(s)' => Closed(s))
        /\ \A x \in Session : x # s => (Live(x)' <=> Live(x)) /\ (Closed(x)' <=> Closed(x))
    BY <1>2, <1>6, <2>2, Putting
  <2> QED
    BY <1>6, <2>3 DEF Kept
<1>7. CASE Completes(s) \/ FailsToAnswer(s)
  <2>1. Live(s)
    BY <1>2, <1>7 DEF Completes, FailsToAnswer, SesOK, Live
  <2>2. Put(s, "IDLE", Nobody, <<"completed">>) \/ Put(s, "IDLE", Nobody, <<"failed">>)
    BY <1>7 DEF Completes, FailsToAnswer
  <2> QED
    BY <1>1, <1>6, <2>1, <2>2
<1>8. CASE LosesSession(s)
  <2>1. Live(s) /\ Put(s, "FAILED", Nobody, IfTurn(s, "failed") \o <<"lost", "END">>)
    BY <1>8 DEF LosesSession
  <2>2. <<"lost", "END">> \in Seq(RuntimeEvents) /\ Elems(<<"lost", "END">>) = {"lost", "END"}
    BY ElemsEmpty DEF RuntimeEvents, Kinds
  <2>3. PICK e \in Seq(RuntimeEvents) : Put(s, "FAILED", Nobody, e) /\ Elems(e) \subseteq {"failed", "lost", "END"}
    BY <2>1, <2>2, IfTurnThen
  <2>4. /\ RuntimeOK' /\ (Closed(s)' => Closed(s))
        /\ \A x \in Session : x # s => (Live(x)' <=> Live(x)) /\ (Closed(x)' <=> Closed(x))
    BY <1>2, <2>1, <2>3, Putting
  <2> QED
    BY <1>1, <2>1, <2>4 DEF Kept
<1> QED
  BY <1>1, <1>4, <1>5, <1>7, <1>8

LEMMA PumpedKeeps ==
  ASSUME RuntimeOK, Pumped, pump.session \in Session
  PROVE  /\ RuntimeOK' /\ Kept /\ UNCHANGED starts
         /\ Head(queue[pump.session]) \in Elems(queue[pump.session]) \cap RuntimeEvents
<1>1. PICK s \in Session : s = pump.session
  OBVIOUS
<1>2. PICK q \in Seq(RuntimeEvents) : q = queue[s]
  BY DEF RuntimeOK, RuntimeTyped
<1>3. /\ q # <<>> /\ queue' = [queue EXCEPT ![s] = Tail(q)] /\ UNCHANGED starts
      /\ ses' = IF Head(q) = "END" THEN [ses EXCEPT ![s].state = "forgotten"] ELSE ses
  BY <1>1, <1>2 DEF Pumped
<1>4. /\ ses \in [Session -> SesRecord] /\ queue \in [Session -> Seq(RuntimeEvents)]
      /\ ses[s] \in SesRecord /\ SesOK(s)
  BY DEF RuntimeOK, RuntimeTyped
<1>5. PICK t \in Seq(RuntimeEvents) : t = Tail(q) /\ Elems(t) \subseteq Elems(q)
  BY <1>3, ElemsTail
<1>6. Head(q) \in Elems(q) /\ Head(q) \in RuntimeEvents
  BY <1>3, ElemsTail
<1>7. PICK r \in SesRecord : r = [ses[s] EXCEPT !.state = "forgotten"]
  BY <1>4 DEF SesRecord
<1>8. r.state = "forgotten" /\ r.active = ses[s].active /\ r.committed = ses[s].committed
  BY <1>4, <1>7 DEF SesRecord
<1>9. ses' = [ses EXCEPT ![s] = IF Head(q) = "END" THEN r ELSE ses[s]] /\ queue' = [queue EXCEPT ![s] = t]
  BY <1>3, <1>4, <1>5, <1>7
<1>10. /\ RuntimeTyped' /\ ses'[s] = (IF Head(q) = "END" THEN r ELSE ses[s]) /\ queue'[s] = t
       /\ \A x \in Session : x # s => ses'[x] = ses[x] /\ queue'[x] = queue[x]
  BY <1>4, <1>9 DEF RuntimeTyped
<1>11. SesOK(s)' /\ (Live(s)' => Live(s)) /\ (Closed(s)' => Closed(s))
  <2>1. CASE Head(q) = "END"
    <3>1. ~Live(s) /\ ~ses[s].committed /\ ses[s].active = Nobody
      BY <1>2, <1>4, <1>6, <2>1 DEF SesOK, Live, SesRecord
    <3> QED
      BY <1>2, <1>5, <1>8, <1>10, <2>1, <3>1 DEF SesOK, Live, Closed
  <2>2. CASE Head(q) # "END"
    <3>1. ses[s].state # "unused"
      BY <1>2, <1>3, <1>4 DEF SesOK
    <3> QED
      BY <1>2, <1>4, <1>5, <1>10, <2>2, <3>1 DEF SesOK, Live, Closed
  <2> QED
    BY <2>1, <2>2
<1>12. \A x \in Session : x # s => SesOK(x)' /\ (Live(x)' => Live(x)) /\ (Closed(x)' => Closed(x))
  BY <1>10 DEF RuntimeOK, SesOK, Live, Closed
<1> QED
  BY <1>1, <1>2, <1>3, <1>6, <1>10, <1>11, <1>12 DEF RuntimeOK, Kept

(* The parts of TypeOK that are no queue and no record.                    *)
PumpRecord == [state : {"starting", "reading", "ended"}, voice : Voice \cup {Nobody},
               session : Session \cup {Nobody}]
SlotName == {"free", "open", "start", "discard", "reopen", "restart", "bind", "commit",
             "interrupt", "cancel", "close", "join", "stopped"}
Plain ==
  /\ app \in {"new", "ready", "stopping", "stopped"} /\ slot \in SlotName
  /\ after \in {"stop", "quit", "failure", "event"} /\ closing \in Voice \cup {Nobody}
  /\ status \in VoiceStates /\ mic \in BOOLEAN /\ deaf \in BOOLEAN
  /\ Len(conn) \in 0 .. MaxStarts /\ voice \in 0 .. Len(conn)
  /\ starts \in 0 .. MaxStarts /\ asked \in 0 .. MaxStarts
  /\ clicks \in 0 .. MaxClicks /\ faults \in 0 .. MaxFaults

LEMMA TypeParts ==
  ASSUME TypeOK
  PROVE  Plain /\ conn \in Seq(ConnRecord) /\ inbox \in Seq(Message) /\ pump \in PumpRecord
BY DEF TypeOK, Plain, ConnRecord, Message, PumpRecord, SlotName

LEMMA TypedAgain ==
  ASSUME Plain', conn' \in Seq(ConnRecord), inbox' \in Seq(Message), pump' \in PumpRecord, RuntimeTyped'
  PROVE  TypeOK'
<1>1. MaxStarts \in Nat
  BY DesktopVoiceAssumption DEF DesktopVoiceAssumption
<1>2. voice' \in Voice \cup {Nobody}
  BY <1>1 DEF Plain, Voice, Nobody
<1>3. /\ app' \in {"new", "ready", "stopping", "stopped"}
      /\ slot' \in {"free", "open", "start", "discard", "reopen", "restart", "bind", "commit",
                     "interrupt", "cancel", "close", "join", "stopped"}
      /\ after' \in {"stop", "quit", "failure", "event"} /\ closing' \in Voice \cup {Nobody}
      /\ status' \in VoiceStates /\ mic' \in BOOLEAN /\ deaf' \in BOOLEAN
      /\ Len(conn)' \in 0 .. MaxStarts /\ voice' \in 0 .. Len(conn)'
      /\ starts' \in 0 .. MaxStarts /\ asked' \in 0 .. MaxStarts
      /\ clicks' \in 0 .. MaxClicks /\ faults' \in 0 .. MaxFaults
  BY DEF Plain, SlotName
<1>4. conn' \in Seq([session : Session \cup {Nobody}, interaction : Interaction \cup {Nobody},
                     committed : BOOLEAN, replaced : BOOLEAN])
  BY DEF ConnRecord
<1>5. inbox' \in Seq([kind : Clicks \cup Kinds, voice : Voice \cup {Nobody}, session : Session \cup {Nobody}])
  BY DEF Message
<1>6. pump' \in [state : {"starting", "reading", "ended"}, voice : Voice \cup {Nobody}, session : Session \cup {Nobody}]
  BY DEF PumpRecord
<1>7. /\ ses' \in [Session -> [state : {"unused", "IDLE", "ACTIVE", "CLOSED", "FAILED", "forgotten"},
                          active : Interaction \cup {Nobody}, committed : BOOLEAN, turn : BOOLEAN, spoken : BOOLEAN]]
      /\ queue' \in [Session -> Seq(Kinds \cup {"END"})]
  BY DEF RuntimeTyped, SesRecord, RuntimeEvents
<1> QED
  BY <1>2, <1>3, <1>4, <1>5, <1>6, <1>7, Zenon DEF TypeOK

LEMMA VoiceFacts ==
  ASSUME VoiceInv
  PROVE  /\ Plain /\ conn \in Seq(ConnRecord) /\ inbox \in Seq(Message) /\ pump \in PumpRecord
         /\ Len(conn) \in Nat /\ Count(inbox, StartClicks) \in Nat
         /\ starts \in Nat /\ asked \in Nat /\ MaxStarts \in Nat /\ MaxFaults \in Nat /\ MaxClicks \in Nat
         /\ faults \in Nat /\ clicks \in Nat
         /\ voice # Nobody => voice \in 1 .. Len(conn) /\ conn[voice] \in ConnRecord
         /\ closing # Nobody => closing \in 1 .. Len(conn) /\ conn[closing] \in ConnRecord
         /\ pump.state # "ended" => pump.voice \in 1 .. Len(conn) /\ conn[pump.voice] \in ConnRecord
         /\ RuntimeOK /\ Elems(inbox) \subseteq Message
<1>1. /\ Plain /\ conn \in Seq(ConnRecord) /\ inbox \in Seq(Message) /\ pump \in PumpRecord
      /\ MaxStarts \in Nat /\ MaxClicks \in Nat /\ MaxFaults \in Nat /\ RuntimeOK
      /\ Count(inbox, StartClicks) \in Nat
  BY TypeParts, Typed DEF VoiceInv
<1>2. Len(conn) \in Nat /\ \A c \in 1 .. Len(conn) : conn[c] \in ConnRecord
  BY <1>1
<1>3. starts \in Nat /\ asked \in Nat /\ faults \in Nat /\ clicks \in Nat
  BY <1>1 DEF Plain
<1>4. voice # Nobody => voice \in 1 .. Len(conn)
  BY <1>1 DEF Plain, Nobody
<1>5. closing # Nobody => closing \in 1 .. Len(conn)
  BY <1>1 DEF VoiceInv, SlotOK, Nobody
<1>6. pump.state # "ended" => pump.voice \in 1 .. Len(conn)
  BY DEF VoiceInv, PumpOK
<1>7. Elems(inbox) \subseteq Message
  BY <1>1, ElemsTyped
<1> QED
  BY <1>1, <1>2, <1>3, <1>4, <1>5, <1>6, <1>7

LEMMA TakenFacts ==
  ASSUME VoiceInv, inbox # <<>>, inbox' = Tail(inbox)
  PROVE  /\ inbox' \in Seq(Message) /\ Elems(inbox') \subseteq Elems(inbox)
         /\ Head(inbox) \in Message /\ Head(inbox) \in Elems(inbox)
         /\ Count(inbox', StartClicks) \in Nat
         /\ Count(inbox, StartClicks) =
              Count(inbox', StartClicks) + (IF Head(inbox).kind = "start" THEN 1 ELSE 0)
<1>1. inbox \in Seq(Message)
  BY VoiceFacts
<1>2. /\ inbox' \in Seq(Message) /\ Elems(inbox') \subseteq Elems(inbox)
      /\ Head(inbox) \in Message /\ Head(inbox) \in Elems(inbox)
  BY <1>1, ElemsTail
<1>3. Head(inbox) \in StartClicks <=> Head(inbox).kind = "start"
  BY <1>2 DEF StartClicks
<1>4. Count(inbox', StartClicks) \in Nat
  BY <1>2, CountTyped
<1>5. Count(inbox, StartClicks) =
        Count(inbox', StartClicks) + (IF Head(inbox) \in StartClicks THEN 1 ELSE 0)
  BY <1>1, CountTail
<1> QED
  BY <1>2, <1>3, <1>4, <1>5

LEMMA PostedFacts ==
  ASSUME VoiceInv, NEW m \in Message, inbox' = Append(inbox, m)
  PROVE  /\ inbox' \in Seq(Message) /\ Elems(inbox') = Elems(inbox) \cup {m}
         /\ Count(inbox', StartClicks) =
              Count(inbox, StartClicks) + (IF m.kind = "start" THEN 1 ELSE 0)
<1>1. inbox \in Seq(Message)
  BY VoiceFacts
<1>2. inbox' \in Seq(Message) /\ Elems(inbox') = Elems(inbox) \cup {m}
  BY <1>1, ElemsAppend
<1>3. m \in StartClicks <=> m.kind = "start"
  BY DEF StartClicks
<1>4. Count(inbox', StartClicks) =
        Count(inbox, StartClicks) + (IF m \in StartClicks THEN 1 ELSE 0)
  BY <1>1, CountAppend
<1> QED
  BY <1>2, <1>3, <1>4

LEMMA ConnChanged ==
  ASSUME conn \in Seq(ConnRecord), NEW c \in 1 .. Len(conn), NEW r \in ConnRecord,
         conn' = [conn EXCEPT ![c] = r]
  PROVE  /\ conn' \in Seq(ConnRecord) /\ Len(conn') = Len(conn) /\ conn'[c] = r
         /\ \A d \in 1 .. Len(conn) : d # c => conn'[d] = conn[d]
OBVIOUS

(* A slot of the worker that opens no voice leaves the pump and its events *)
(* as they are: what they are to the voice in use stays so.                *)
LEMMA Aside ==
  ASSUME VoiceInv, UNCHANGED pump, Elems(inbox') \subseteq Elems(inbox), slot' # "open",
         Len(conn') = Len(conn), voice' \in {voice, Nobody},
         \A x \in Session : Closed(x)' => Closed(x),
         voice' # Nobody => \/ slot = "open" \/ conn'[voice].replaced
                            \/ /\ conn'[voice].session = conn[voice].session
                               /\ conn'[voice].replaced = conn[voice].replaced,
         voice' # Nobody => \/ conn'[voice].session \in {conn[voice].session, Nobody}
                            \/ conn'[voice].session \in Session /\ ~Closed(conn'[voice].session)
  PROVE  PumpOK' /\ ClosedOK' /\ LateOK'
<1>1. PumpOK'
  BY DEF VoiceInv, PumpOK
<1>2. CASE voice' = Nobody
  BY <1>1, <1>2 DEF ClosedOK, LateOK
<1>3. CASE voice' # Nobody
  <2>1. voice' = voice /\ voice # Nobody
    BY <1>3
  <2>2. ClosedOK'
    <3>1. ASSUME NEW s \in Session, Closed(s)'
          PROVE  conn'[voice].session # s /\ (pump.state = "reading" /\ pump.voice = voice => pump.session # s)
      <4>1. Closed(s)
        BY <3>1
      <4> QED
        BY <1>3, <2>1, <4>1 DEF VoiceInv, ClosedOK, Nobody, Session
    <3>2. \A m \in Elems(inbox') : m.kind = "closed" => m.voice # voice
      BY <2>1 DEF VoiceInv, ClosedOK
    <3> QED
      BY <2>1, <3>1, <3>2 DEF ClosedOK
  <2>3. LateOK'
    <3>1. CASE slot = "open"
      <4>1. pump.state # "ended" => pump.voice # voice
        BY <3>1 DEF VoiceInv, PumpOK
      <4>2. \A m \in Elems(inbox') : m.kind \in Kinds => m.voice # voice
        BY <3>1 DEF VoiceInv, PumpOK
      <4> QED
        BY <2>1, <4>1, <4>2 DEF LateOK
    <3>2. CASE slot # "open" /\ ~conn'[voice].replaced
      BY <1>3, <2>1, <3>2 DEF VoiceInv, LateOK
    <3>3. CASE conn'[voice].replaced
      BY <2>1, <3>3 DEF LateOK
    <3> QED
      BY <3>1, <3>2, <3>3
  <2> QED
    BY <1>1, <2>2, <2>3
<1> QED
  BY <1>2, <1>3
(* Ending a voice, for whatever reason.                                    *)
LEMMA EndKeeps ==
  ASSUME VoiceInv, NEW why \in {"stop", "quit", "failure", "event"}, EndVoice(why),
         UNCHANGED <<app, user>>, status' \in VoiceStates,
         \/ pump' = pump
         \/ /\ pump' \in PumpRecord /\ pump'.voice \in 1 .. Len(conn)
            /\ pump'.state = "starting" /\ pump'.session = Nobody,
         slot \notin {"cancel", "close", "join", "stopped"}, why = "event" => voice # Nobody,
         inbox' \in Seq(Message), Elems(inbox') \subseteq Elems(inbox),
         Count(inbox', StartClicks) \in Nat, Count(inbox', StartClicks) <= Count(inbox, StartClicks),
         RuntimeOK', \A x \in Session : Closed(x)' => Closed(x),
         starts' \in Nat, starts' <= starts + (IF Working THEN 1 ELSE 0),
         faults' \in 0 .. MaxFaults,
         faults' = 0 => faults = 0 /\ \A x \in Session : Live(x)' => Live(x)
  PROVE  VoiceInv'
<1>1. /\ Plain /\ conn \in Seq(ConnRecord) /\ pump \in PumpRecord
      /\ Len(conn) \in Nat /\ Count(inbox, StartClicks) \in Nat
      /\ starts \in Nat /\ asked \in Nat /\ MaxStarts \in Nat
  BY VoiceFacts
<1>2. /\ mic' = FALSE /\ voice' = Nobody /\ after' = why /\ deaf' = FALSE /\ conn' = conn
      /\ closing' = voice
      /\ slot' \in {"cancel", "free", "join"}
      /\ slot' = "cancel" <=> voice # Nobody
  BY DEF EndVoice
<1>3. /\ app' = app /\ asked' = asked /\ clicks' = clicks /\ pump' \in PumpRecord
  BY <1>1 DEF user
<1>4. CountOK'
  BY <1>1, <1>2, <1>3 DEF VoiceInv, CountOK, Working
<1>5. SlotOK'
  BY <1>1, <1>2, <1>3 DEF VoiceInv, SlotOK, Plain, Nobody
<1>6. ConnOK' /\ MicOK'
  BY <1>2 DEF ConnOK, MicOK
<1>7. OwnedOK'
  BY <1>2 DEF VoiceInv, OwnedOK, SlotOK
<1>8. PumpOK' /\ ClosedOK' /\ LateOK'
  BY <1>2 DEF VoiceInv, PumpOK, ClosedOK, LateOK
<1>9. starts' \in 0 .. MaxStarts
  BY <1>1, <1>2, <1>3, <1>4 DEF CountOK, Plain, Working
<1>10. closing' \in Voice \cup {Nobody}
  BY <1>1, <1>2 DEF Plain, Voice, Nobody
<1>11. Plain'
  <2>1. slot' \in SlotName /\ voice' \in 0 .. Len(conn') /\ Len(conn') \in 0 .. MaxStarts
    BY <1>1, <1>2 DEF Plain, SlotName, Nobody
  <2>2. after' \in {"stop", "quit", "failure", "event"} /\ mic' \in BOOLEAN /\ deaf' \in BOOLEAN
    BY <1>2
  <2>3. /\ app' \in {"new", "ready", "stopping", "stopped"} /\ asked' \in 0 .. MaxStarts
        /\ clicks' \in 0 .. MaxClicks
    BY <1>1, <1>3 DEF Plain
  <2> QED
    BY <1>9, <1>10, <2>1, <2>2, <2>3 DEF Plain
<1>12. TypeOK'
  BY <1>1, <1>2, <1>3, <1>11, TypedAgain DEF RuntimeOK
<1> QED
  BY <1>4, <1>5, <1>6, <1>7, <1>8, <1>12 DEF VoiceInv

LEMMA StopKeeps == ASSUME VoiceInv, OnStop \/ OnQuit PROVE VoiceInv'
<1>1. /\ slot = "free" /\ inbox # <<>> /\ inbox' = Tail(inbox) /\ UNCHANGED <<app, pump, user>>
      /\ UNCHANGED status /\ UNCHANGED runtime /\ UNCHANGED faults
      /\ \E why \in {"stop", "quit"} : EndVoice(why)
  BY DEF OnStop, OnQuit, Take, Rest, Fine
<1>2. PICK why \in {"stop", "quit"} : EndVoice(why)
  BY <1>1
<1>3. RuntimeOK' /\ Kept /\ UNCHANGED starts
  BY <1>1, RuntimeSame DEF VoiceInv
<1>4. /\ inbox' \in Seq(Message) /\ Elems(inbox') \subseteq Elems(inbox)
      /\ Count(inbox', StartClicks) \in Nat /\ Count(inbox', StartClicks) <= Count(inbox, StartClicks)
  BY <1>1, TakenFacts
<1>5. status' \in VoiceStates /\ faults' \in 0 .. MaxFaults /\ starts' \in Nat /\ starts \in Nat
  BY <1>1, <1>3, VoiceFacts DEF Plain
<1> QED
  BY <1>1, <1>2, <1>3, <1>4, <1>5, EndKeeps DEF Kept

(* A slot that changes no connection and no voice.                         *)
LEMMA SlotKeeps ==
  ASSUME VoiceInv, UNCHANGED <<app, pump, user, voice, closing>>, after' \in {after, "stop"},
         slot' # "open",
         status' \in VoiceStates, mic' \in BOOLEAN, deaf' \in BOOLEAN,
         inbox' \in Seq(Message), Elems(inbox') \subseteq Elems(inbox),
         conn' \in Seq(ConnRecord), Len(conn') = Len(conn), CountOK', SlotOK', ConnOK', MicOK',
         slot' \in SlotName, slot # "open",
         \A c \in 1 .. Len(conn) : conn'[c].session = conn[c].session
                                   /\ conn'[c].replaced = conn[c].replaced,
         RuntimeOK', Kept, starts' \in Nat, faults' \in 0 .. MaxFaults, faults' = 0 => faults = 0
  PROVE  VoiceInv'
<1>1. /\ Plain /\ pump \in PumpRecord /\ Len(conn) \in Nat /\ asked \in Nat /\ MaxStarts \in Nat
      /\ voice # Nobody => voice \in 1 .. Len(conn)
      /\ closing # Nobody => closing \in 1 .. Len(conn)
  BY VoiceFacts
<1>2. starts' \in 0 .. MaxStarts
  <2>1. Count(inbox', StartClicks) \in Nat
    BY CountTyped
  <2> QED
    BY <1>1, <2>1 DEF CountOK, Plain, Working, user
<1>3. Plain'
  BY <1>1, <1>2 DEF Plain, user
<1>4. TypeOK'
  BY <1>1, <1>3, TypedAgain DEF RuntimeOK
<1>5. OwnedOK'
  BY <1>1 DEF VoiceInv, OwnedOK, Kept
<1>6. PumpOK' /\ ClosedOK' /\ LateOK'
  BY <1>1, Aside DEF Kept
<1> QED
  BY <1>4, <1>5, <1>6 DEF VoiceInv

LEMMA OnCommitKeeps == ASSUME VoiceInv, OnCommit PROVE VoiceInv'
<1>1. /\ slot = "free" /\ inbox # <<>> /\ inbox' = Tail(inbox) /\ UNCHANGED <<app, pump, user>>
      /\ mic' = FALSE /\ slot' = IF voice = Nobody THEN "free" ELSE "commit"
      /\ UNCHANGED <<status, voice, after, closing, conn, deaf>>
      /\ UNCHANGED runtime /\ UNCHANGED faults /\ Head(inbox).kind = "commit"
  BY DEF OnCommit, Take, Rest, Fine, Only
<1>2. RuntimeOK' /\ Kept /\ UNCHANGED starts
  BY <1>1, RuntimeSame DEF VoiceInv
<1>3. /\ inbox' \in Seq(Message) /\ Elems(inbox') \subseteq Elems(inbox)
      /\ Count(inbox', StartClicks) = Count(inbox, StartClicks)
  BY <1>1, TakenFacts
<1>4. Plain /\ conn \in Seq(ConnRecord) /\ starts \in Nat
  BY VoiceFacts
<1>5. CountOK'
  BY <1>1, <1>2, <1>3 DEF VoiceInv, CountOK, Working, user
<1>6. SlotOK' /\ ConnOK' /\ MicOK'
  BY <1>1 DEF VoiceInv, SlotOK, ConnOK, MicOK
<1> QED
  BY <1>1, <1>2, <1>3, <1>4, <1>5, <1>6, SlotKeeps DEF Plain, SlotName

LEMMA OnInterruptKeeps == ASSUME VoiceInv, OnInterrupt PROVE VoiceInv'
<1>1. /\ slot = "free" /\ inbox # <<>> /\ inbox' = Tail(inbox) /\ UNCHANGED <<app, pump, user>>
      /\ slot' = IF voice = Nobody THEN "free" ELSE "interrupt"
      /\ status' \in {status, "IDLE"}
      /\ UNCHANGED <<voice, mic, after, closing, conn, deaf>>
      /\ UNCHANGED runtime /\ UNCHANGED faults /\ Head(inbox).kind = "interrupt"
  BY DEF OnInterrupt, Take, Rest, Fine, Only
<1>2. RuntimeOK' /\ Kept /\ UNCHANGED starts
  BY <1>1, RuntimeSame DEF VoiceInv
<1>3. /\ inbox' \in Seq(Message) /\ Elems(inbox') \subseteq Elems(inbox)
      /\ Count(inbox', StartClicks) = Count(inbox, StartClicks)
  BY <1>1, TakenFacts
<1>4. Plain /\ conn \in Seq(ConnRecord) /\ starts \in Nat
  BY VoiceFacts
<1>5. CountOK'
  BY <1>1, <1>2, <1>3 DEF VoiceInv, CountOK, Working, user
<1>6. SlotOK' /\ ConnOK' /\ MicOK'
  BY <1>1 DEF VoiceInv, SlotOK, ConnOK, MicOK
<1>7. status' \in VoiceStates
  BY <1>1, <1>4 DEF Plain, VoiceStates
<1> QED
  BY <1>1, <1>2, <1>3, <1>4, <1>5, <1>6, <1>7, SlotKeeps DEF Plain, SlotName

LEMMA JoinPumpKeeps == ASSUME VoiceInv, JoinPump PROVE VoiceInv'
<1>1. /\ slot = "join" /\ slot' \in {"stopped", "free"} /\ UNCHANGED <<app, pump, user>>
      /\ status' \in {status, "IDLE"}
      /\ after' \in {after, "stop"}
      /\ UNCHANGED <<closing, voice, conn, mic, deaf, inbox>>
      /\ UNCHANGED runtime /\ UNCHANGED faults
  BY DEF JoinPump, Elsewhere, Fine
<1>2. RuntimeOK' /\ Kept /\ UNCHANGED starts
  BY <1>1, RuntimeSame DEF VoiceInv
<1>3. Plain /\ conn \in Seq(ConnRecord) /\ starts \in Nat /\ inbox \in Seq(Message)
  BY VoiceFacts
<1>4. CountOK'
  BY <1>1, <1>2 DEF VoiceInv, CountOK, Working, user
<1>5. SlotOK' /\ ConnOK' /\ MicOK'
  BY <1>1 DEF VoiceInv, SlotOK, ConnOK, MicOK
<1>6. status' \in VoiceStates
  BY <1>1, <1>3 DEF Plain, VoiceStates
<1> QED
  BY <1>1, <1>2, <1>3, <1>4, <1>5, <1>6, SlotKeeps DEF Plain, SlotName
LEMMA CommitKeeps == ASSUME VoiceInv, Commit PROVE VoiceInv'
<1>1. /\ slot = "commit" /\ slot' = "free" /\ UNCHANGED <<app, pump, user>>
      /\ UNCHANGED <<after, closing, voice, mic, deaf>> /\ UNCHANGED inbox
  BY DEF Commit, Here
<1>2. /\ Plain /\ conn \in Seq(ConnRecord) /\ starts \in Nat /\ inbox \in Seq(Message)
      /\ voice \in 1 .. Len(conn) /\ conn[voice] \in ConnRecord /\ faults \in Nat /\ MaxFaults \in Nat
  BY <1>1, VoiceFacts DEF VoiceInv, SlotOK
<1>3. PICK c \in ConnRecord : c = conn[voice]
  BY <1>2
<1>4. /\ c.session # Nobody => c.session \in Session
      /\ [c EXCEPT !.committed = TRUE] \in ConnRecord
  BY <1>3 DEF ConnRecord
<1>5. /\ \/ /\ c.session # Nobody /\ ses[c.session].state = "ACTIVE" /\ Commits(c.session)
         \/ UNCHANGED runtime
      /\ \/ status' = "RESPONDING" /\ conn' = [conn EXCEPT ![voice] = [c EXCEPT !.committed = TRUE]]
         \/ UNCHANGED <<status, conn>>
      /\ faults' = faults \/ (faults < MaxFaults /\ faults' = faults + 1)
  BY <1>3 DEF Commit, Calls, Fine, MayFail
<1>6. RuntimeOK' /\ Kept /\ starts' = starts
  BY <1>4, <1>5, RuntimeSame, CommitsKeeps DEF VoiceInv
<1>7. /\ conn' \in Seq(ConnRecord) /\ Len(conn') = Len(conn)
      /\ \A d \in 1 .. Len(conn) : /\ conn'[d].session = conn[d].session
                                   /\ conn'[d].replaced = conn[d].replaced
                                   /\ conn'[d].interaction = conn[d].interaction
  <2>1. CASE conn' = conn
    BY <1>2, <2>1
  <2>2. CASE conn' = [conn EXCEPT ![voice] = [c EXCEPT !.committed = TRUE]]
    <3>1. PICK r \in ConnRecord : r = [c EXCEPT !.committed = TRUE]
      BY <1>4
    <3>2. r.session = c.session /\ r.replaced = c.replaced /\ r.interaction = c.interaction
      BY <1>3, <3>1 DEF ConnRecord
    <3>3. conn' = [conn EXCEPT ![voice] = r]
      BY <2>2, <3>1
    <3> QED
      BY <1>2, <1>3, <3>2, <3>3, ConnChanged
  <2> QED
    BY <1>5, <2>1, <2>2
<1>8. CountOK'
  BY <1>1, <1>6, <1>7 DEF VoiceInv, CountOK, Working, user
<1>9. SlotOK' /\ ConnOK' /\ MicOK'
  BY <1>1, <1>2, <1>7 DEF VoiceInv, SlotOK, ConnOK, MicOK
<1>10. status' \in VoiceStates /\ faults' \in 0 .. MaxFaults /\ (faults' = 0 => faults = 0)
  BY <1>2, <1>5 DEF Plain, VoiceStates
<1> QED
  BY <1>1, <1>2, <1>6, <1>7, <1>8, <1>9, <1>10, SlotKeeps DEF Plain, SlotName

LEMMA InterruptKeeps == ASSUME VoiceInv, Interrupt PROVE VoiceInv'
<1>1. /\ slot = "interrupt" /\ slot' = "free" /\ UNCHANGED <<app, pump, user>>
      /\ UNCHANGED <<after, closing, voice, mic, deaf>> /\ UNCHANGED inbox
  BY DEF Interrupt, Here
<1>2. /\ Plain /\ conn \in Seq(ConnRecord) /\ starts \in Nat /\ inbox \in Seq(Message)
      /\ voice \in 1 .. Len(conn) /\ conn[voice] \in ConnRecord /\ faults \in Nat /\ MaxFaults \in Nat
  BY <1>1, VoiceFacts DEF VoiceInv, SlotOK
<1>3. PICK c \in ConnRecord : c = conn[voice]
  BY <1>2
<1>4. /\ c.session # Nobody => c.session \in Session
      /\ [c EXCEPT !.committed = FALSE] \in ConnRecord
  BY <1>3 DEF ConnRecord
<1>5. /\ \/ /\ c.session # Nobody /\ c.interaction # Nobody
            /\ ses[c.session].active = c.interaction /\ Retires(c.session)
         \/ UNCHANGED runtime
      /\ \/ status' = "INTERRUPTED" /\ conn' = [conn EXCEPT ![voice] = [c EXCEPT !.committed = FALSE]]
         \/ status' = "ERROR" /\ UNCHANGED conn
      /\ faults' = faults \/ (faults < MaxFaults /\ faults' = faults + 1)
  BY <1>3 DEF Interrupt, Calls, Fine, MayFail
<1>6. RuntimeOK' /\ Kept /\ starts' = starts
  <2>1. CASE UNCHANGED runtime
    BY <2>1, RuntimeSame DEF VoiceInv
  <2>2. CASE /\ c.session # Nobody /\ c.interaction # Nobody
             /\ ses[c.session].active = c.interaction /\ Retires(c.session)
    <3>1. Live(c.session)
      BY <1>4, <2>2 DEF VoiceInv, RuntimeOK, SesOK, Live
    <3> QED
      BY <1>4, <2>2, <3>1, RetiresKeeps DEF VoiceInv
  <2> QED
    BY <1>5, <2>1, <2>2
<1>7. /\ conn' \in Seq(ConnRecord) /\ Len(conn') = Len(conn)
      /\ conn[voice].committed = FALSE => conn'[voice].committed = FALSE
      /\ \A d \in 1 .. Len(conn) : /\ conn'[d].session = conn[d].session
                                   /\ conn'[d].replaced = conn[d].replaced
                                   /\ conn'[d].interaction = conn[d].interaction
  <2>1. CASE conn' = conn
    BY <1>2, <2>1
  <2>2. CASE conn' = [conn EXCEPT ![voice] = [c EXCEPT !.committed = FALSE]]
    <3>1. PICK r \in ConnRecord : r = [c EXCEPT !.committed = FALSE]
      BY <1>4
    <3>2. /\ r.session = c.session /\ r.replaced = c.replaced /\ r.interaction = c.interaction
          /\ r.committed = FALSE
      BY <1>3, <3>1 DEF ConnRecord
    <3>3. conn' = [conn EXCEPT ![voice] = r]
      BY <2>2, <3>1
    <3> QED
      BY <1>2, <1>3, <3>2, <3>3, ConnChanged
  <2> QED
    BY <1>5, <2>1, <2>2
<1>8. CountOK'
  BY <1>1, <1>6, <1>7 DEF VoiceInv, CountOK, Working, user
<1>9. SlotOK' /\ ConnOK' /\ MicOK'
  <2>1. SlotOK'
    BY <1>1, <1>2, <1>7 DEF VoiceInv, SlotOK
  <2>2. ConnOK'
    BY <1>1, <1>2, <1>7 DEF VoiceInv, ConnOK
  <2>3. MicOK'
    BY <1>1, <1>2, <1>7, <1>3, <1>4 DEF VoiceInv, MicOK, ConnRecord
  <2> QED
    BY <2>1, <2>2, <2>3
<1>10. status' \in VoiceStates /\ faults' \in 0 .. MaxFaults /\ (faults' = 0 => faults = 0)
  BY <1>2, <1>5 DEF Plain, VoiceStates
<1> QED
  BY <1>1, <1>2, <1>6, <1>7, <1>8, <1>9, <1>10, SlotKeeps DEF Plain, SlotName

LEMMA OnEventKeeps == ASSUME VoiceInv, OnEvent PROVE VoiceInv'
<1>1. /\ slot = "free" /\ inbox # <<>> /\ inbox' = Tail(inbox) /\ UNCHANGED <<app, pump, user>>
      /\ UNCHANGED runtime /\ UNCHANGED faults /\ Head(inbox).kind \in Kinds
  BY DEF OnEvent, Take, Rest, Fine
<1>2. RuntimeOK' /\ Kept /\ UNCHANGED starts
  BY <1>1, RuntimeSame DEF VoiceInv
<1>3. /\ inbox' \in Seq(Message) /\ Elems(inbox') \subseteq Elems(inbox)
      /\ Count(inbox', StartClicks) = Count(inbox, StartClicks) /\ Count(inbox', StartClicks) \in Nat
      /\ Head(inbox) \in Elems(inbox)
  BY <1>1, TakenFacts DEF Kinds
<1>4. /\ Plain /\ conn \in Seq(ConnRecord) /\ starts \in Nat /\ faults' \in 0 .. MaxFaults
      /\ Count(inbox, StartClicks) \in Nat
  BY <1>1, VoiceFacts DEF Plain
<1>5. Current(Head(inbox)) => voice # Nobody /\ Head(inbox).kind # "closed"
  BY <1>1, <1>3 DEF VoiceInv, PumpOK, ClosedOK, Current, Nobody
<1>6. \/ UNCHANGED worker
      \/ status' \in {"RESPONDING", "READY"} /\ Only("free") /\ UNCHANGED <<voice, mic>>
      \/ status' = "ERROR" /\ voice # Nobody /\ EndVoice("event")
  BY <1>5 DEF OnEvent
<1>7. CASE status' = "ERROR" /\ voice # Nobody /\ EndVoice("event")
  <2>1. status' \in VoiceStates
    BY <1>7 DEF VoiceStates
  <2> QED
    BY <1>1, <1>2, <1>3, <1>4, <1>7, <2>1, EndKeeps DEF Kept
<1>8. CASE \/ UNCHANGED worker
           \/ status' \in {"RESPONDING", "READY"} /\ Only("free") /\ UNCHANGED <<voice, mic>>
  <2>1. slot' = slot /\ UNCHANGED <<after, closing, voice, conn, mic, deaf>> /\ status' \in VoiceStates
    BY <1>1, <1>4, <1>8 DEF worker, Only, VoiceStates, Plain
  <2>2. CountOK'
    BY <1>1, <1>2, <1>3, <2>1 DEF VoiceInv, CountOK, Working, user
  <2>3. SlotOK' /\ ConnOK' /\ MicOK'
    BY <1>1, <2>1 DEF VoiceInv, SlotOK, ConnOK, MicOK
  <2> QED
    BY <1>1, <1>2, <1>3, <1>4, <2>1, <2>2, <2>3, SlotKeeps DEF Plain, SlotName
<1> QED
  BY <1>6, <1>7, <1>8
LEMMA CancelInputKeeps == ASSUME VoiceInv, CancelInput PROVE VoiceInv'
<1>1. /\ slot = "cancel" /\ slot' = "close" /\ UNCHANGED <<app, pump, user>>
      /\ UNCHANGED <<after, closing, status, voice, conn, mic, deaf, inbox>>
  BY DEF CancelInput, Elsewhere
<1>2. /\ Plain /\ conn \in Seq(ConnRecord) /\ starts \in Nat /\ inbox \in Seq(Message)
      /\ closing \in 1 .. Len(conn) /\ conn[closing] \in ConnRecord /\ faults \in Nat /\ MaxFaults \in Nat
  BY <1>1, VoiceFacts DEF VoiceInv, SlotOK
<1>3. PICK c \in ConnRecord : c = conn[closing]
  BY <1>2
<1>4. c.session # Nobody => c.session \in Session
  BY <1>3 DEF ConnRecord
<1>5. /\ \/ /\ c.session # Nobody /\ c.interaction # Nobody
            /\ ses[c.session].active = c.interaction /\ Retires(c.session)
         \/ UNCHANGED runtime
      /\ faults' = faults \/ (faults < MaxFaults /\ faults' = faults + 1)
  BY <1>3 DEF CancelInput, Calls, Fine, MayFail
<1>6. RuntimeOK' /\ Kept /\ starts' = starts
  <2>1. CASE UNCHANGED runtime
    BY <2>1, RuntimeSame DEF VoiceInv
  <2>2. CASE /\ c.session # Nobody /\ c.interaction # Nobody
             /\ ses[c.session].active = c.interaction /\ Retires(c.session)
    <3>1. Live(c.session)
      BY <1>4, <2>2 DEF VoiceInv, RuntimeOK, SesOK, Live
    <3> QED
      BY <1>4, <2>2, <3>1, RetiresKeeps DEF VoiceInv
  <2> QED
    BY <1>5, <2>1, <2>2
<1>7. CountOK'
  BY <1>1, <1>6 DEF VoiceInv, CountOK, Working, user
<1>8. SlotOK' /\ ConnOK' /\ MicOK'
  BY <1>1, <1>2 DEF VoiceInv, SlotOK, ConnOK, MicOK
<1>9. faults' \in 0 .. MaxFaults /\ (faults' = 0 => faults = 0)
  BY <1>2, <1>5 DEF Plain
<1> QED
  BY <1>1, <1>2, <1>6, <1>7, <1>8, <1>9, SlotKeeps DEF Plain, SlotName

LEMMA CloseSessionKeeps == ASSUME VoiceInv, CloseSession PROVE VoiceInv'
<1>1. /\ slot = "close" /\ slot' \in {"free", "join"} /\ closing' = Nobody
      /\ UNCHANGED <<app, pump, user>> /\ after' \in {after, "stop"}
      /\ UNCHANGED <<status, voice, mic, deaf, inbox>>
      /\ conn' = [conn EXCEPT ![closing] = Emptied]
  BY DEF CloseSession, Elsewhere
<1>2. /\ Plain /\ conn \in Seq(ConnRecord) /\ starts \in Nat /\ inbox \in Seq(Message)
      /\ pump \in PumpRecord /\ Len(conn) \in Nat
      /\ closing \in 1 .. Len(conn) /\ conn[closing] \in ConnRecord /\ faults \in Nat /\ MaxFaults \in Nat
      /\ voice = Nobody
  BY <1>1, VoiceFacts DEF VoiceInv, SlotOK
<1>3. PICK c \in ConnRecord : c = conn[closing]
  BY <1>2
<1>4. (c.session # Nobody => c.session \in Session) /\ Nobody \notin Session
  BY <1>3 DEF ConnRecord, Session, Nobody
<1>5. /\ \/ c.session # Nobody /\ Closes(c.session)
         \/ UNCHANGED runtime /\ (c.session = Nobody \/ faults' # faults)
      /\ faults' = faults \/ (faults < MaxFaults /\ faults' = faults + 1)
  BY <1>2, <1>3 DEF CloseSession, Calls, Fine, MayFail
<1>6. RuntimeOK' /\ starts' = starts /\ \A x \in Session : Live(x)' => Live(x)
  BY <1>4, <1>5, RuntimeSame, ClosesKeeps DEF VoiceInv, Kept
<1>7. faults' = 0 => \A x \in Session : ~Live(x)'
  <2>1. SUFFICES ASSUME faults' = 0, NEW x \in Session, Live(x)' PROVE FALSE
    OBVIOUS
  <2>2. faults = 0 /\ faults' = faults
    BY <1>2, <1>5, <2>1
  <2>3. x = c.session
    BY <1>2, <1>3, <1>6, <2>1, <2>2 DEF VoiceInv, OwnedOK
  <2>4. Closes(c.session)
    BY <1>4, <1>5, <2>2, <2>3
  <2> QED
    BY <2>1, <2>3, <2>4, ClosesKeeps DEF VoiceInv
<1>8. conn' \in Seq(ConnRecord) /\ Len(conn') = Len(conn)
  <2>1. Emptied \in ConnRecord
    BY DEF ConnRecord, Emptied
  <2> QED
    BY <1>1, <1>2, <1>3, <2>1, ConnChanged
<1>9. CountOK'
  BY <1>1, <1>6, <1>8 DEF VoiceInv, CountOK, Working, user
<1>10. SlotOK' /\ ConnOK' /\ MicOK' /\ PumpOK' /\ ClosedOK' /\ LateOK'
  BY <1>1, <1>2, <1>8 DEF VoiceInv, SlotOK, ConnOK, MicOK, PumpOK, ClosedOK, LateOK, Nobody
<1>11. OwnedOK'
  BY <1>7 DEF OwnedOK
<1>12. Plain'
  BY <1>1, <1>2, <1>5, <1>6, <1>8 DEF Plain, SlotName, user
<1>13. TypeOK'
  BY <1>1, <1>2, <1>6, <1>8, <1>12, TypedAgain DEF RuntimeOK
<1> QED
  BY <1>6, <1>9, <1>10, <1>11, <1>13 DEF VoiceInv

LEMMA OnStartKeeps == ASSUME VoiceInv, OnStart PROVE VoiceInv'
<1>1. /\ slot = "free" /\ inbox # <<>> /\ inbox' = Tail(inbox) /\ UNCHANGED <<app, pump, user>>
      /\ UNCHANGED runtime /\ UNCHANGED faults /\ Head(inbox).kind = "start"
  BY DEF OnStart, Take, Rest, Fine
<1>2. RuntimeOK' /\ Kept /\ UNCHANGED starts
  BY <1>1, RuntimeSame DEF VoiceInv
<1>3. /\ inbox' \in Seq(Message) /\ Elems(inbox') \subseteq Elems(inbox)
      /\ Count(inbox, StartClicks) = Count(inbox', StartClicks) + 1 /\ Count(inbox', StartClicks) \in Nat
  BY <1>1, TakenFacts
<1>4. /\ Plain /\ conn \in Seq(ConnRecord) /\ starts \in Nat /\ asked \in Nat /\ Len(conn) \in Nat
      /\ faults' \in 0 .. MaxFaults /\ Count(inbox, StartClicks) \in Nat /\ pump \in PumpRecord
      /\ MaxStarts \in Nat
  BY <1>1, VoiceFacts DEF Plain
<1>5. CASE \/ UNCHANGED worker
           \/ status' = "CONNECTING" /\ voice # Nobody /\ slot' = "start"
              /\ UNCHANGED <<after, closing, mic, deaf, voice, conn>>
  <2>1. /\ slot' = slot \/ (slot' = "start" /\ voice # Nobody)
        /\ status' \in VoiceStates
        /\ UNCHANGED <<after, closing, voice, conn, mic, deaf>>
    BY <1>1, <1>4, <1>5 DEF worker, VoiceStates, Plain
  <2>2. CountOK'
    <3>1. CountOK /\ ~Working /\ asked' = asked /\ starts' = starts /\ conn' = conn
      BY <1>1, <1>2, <2>1 DEF VoiceInv, Working, user
    <3> QED
      BY <1>3, <1>4, <3>1 DEF CountOK
  <2>3. SlotOK' /\ ConnOK' /\ MicOK'
    BY <1>1, <2>1 DEF VoiceInv, SlotOK, ConnOK, MicOK
  <2> QED
    BY <1>1, <1>2, <1>3, <1>4, <1>5, <2>1, <2>2, <2>3, SlotKeeps DEF Plain, SlotName, worker, VoiceStates
<1>6. CASE /\ status' = "CONNECTING" /\ UNCHANGED <<after, closing, mic, deaf>>
           /\ voice = Nobody /\ slot' = "open"
           /\ conn' = Append(conn, Emptied)
           /\ voice' = Len(conn) + 1
  <2>1. PICK r \in ConnRecord : r = Emptied
    BY DEF ConnRecord, Emptied
  <2>2. /\ r.session = Nobody /\ r.interaction = Nobody /\ r.committed = FALSE
        /\ conn' = Append(conn, r)
    BY <1>6, <2>1 DEF Emptied
  <2>3. /\ conn' \in Seq(ConnRecord) /\ Len(conn') = Len(conn) + 1 /\ conn'[Len(conn) + 1] = r
        /\ \A d \in 1 .. Len(conn) : conn'[d] = conn[d]
    BY <1>4, <2>2, AppendProperties
  <2>4. CountOK'
    BY <1>1, <1>2, <1>3, <1>4, <1>6, <2>3 DEF VoiceInv, CountOK, Working, user
  <2>5. SlotOK'
    BY <1>1, <1>4, <1>6, <2>3 DEF VoiceInv, SlotOK
  <2>6. ConnOK' /\ MicOK'
    BY <1>6 DEF ConnOK, MicOK
  <2>7. /\ pump.state # "ended" => pump.voice \in 1 .. Len(conn)
        /\ \A m \in Elems(inbox) : m.kind \in Kinds => m.voice \in 1 .. Len(conn)
        /\ pump.state = "reading" <=> pump.session # Nobody
    BY DEF VoiceInv, PumpOK
  <2>8. \A m \in Elems(inbox') : m.kind \in Kinds => m.voice # Len(conn) + 1
    BY <1>3, <1>4, <2>7
  <2>9. PumpOK'
    BY <1>1, <1>3, <1>4, <1>6, <2>3, <2>7, <2>8 DEF PumpOK
  <2>10. ClosedOK'
    <3>1. conn'[voice'].session = Nobody /\ Nobody \notin Session
      BY <1>6, <2>2, <2>3 DEF Session, Nobody
    <3> QED
      BY <1>1, <1>4, <1>6, <2>7, <2>8, <3>1 DEF ClosedOK, Kinds
  <2>11. LateOK'
    BY <1>1, <1>4, <1>6, <2>7, <2>8 DEF LateOK
  <2>12. OwnedOK'
    <3>1. faults' = 0 => \A x \in Session : ~Live(x)
      BY <1>1, <1>6 DEF VoiceInv, OwnedOK, SlotOK
    <3> QED
      BY <1>2, <3>1 DEF OwnedOK, Kept
  <2>13. Len(conn') \in 0 .. MaxStarts
    BY <1>3, <1>4, <2>3 DEF VoiceInv, CountOK, Plain
  <2>14. Plain'
    BY <1>1, <1>2, <1>4, <1>6, <2>3, <2>13 DEF Plain, SlotName, VoiceStates, user
  <2>15. TypeOK'
    BY <1>1, <1>2, <1>3, <1>4, <2>3, <2>14, TypedAgain DEF RuntimeOK
  <2> QED
    BY <1>2, <2>4, <2>5, <2>6, <2>9, <2>10, <2>11, <2>12, <2>15 DEF VoiceInv
<1> QED
  BY <1>5, <1>6 DEF OnStart
LEMMA OpenSessionKeeps == ASSUME VoiceInv, OpenSession PROVE VoiceInv'
<1>1. slot \in {"open", "reopen"} /\ UNCHANGED <<inbox, app, pump, user>>
  BY DEF OpenSession, Here
<1>2. /\ Plain /\ conn \in Seq(ConnRecord) /\ starts \in Nat /\ inbox \in Seq(Message)
      /\ pump \in PumpRecord /\ Len(conn) \in Nat /\ asked \in Nat /\ MaxStarts \in Nat
      /\ Count(inbox, StartClicks) \in Nat
      /\ voice \in 1 .. Len(conn) /\ voice # Nobody /\ conn[voice] \in ConnRecord
      /\ faults \in Nat /\ MaxFaults \in Nat
  BY <1>1, VoiceFacts DEF VoiceInv, SlotOK
<1>3. PICK s \in Session :
        Calls(CanOpen, Opens(s),
              /\ conn' = [conn EXCEPT ![voice].session = s]
              /\ StartGoesOn(IF slot = "open" THEN "start" ELSE "restart"),
              StartFails)
  BY DEF OpenSession
<1>4. CASE StartFails /\ (Opens(s) \/ UNCHANGED runtime)
           /\ (UNCHANGED faults \/ (faults < MaxFaults /\ faults' = faults + 1))
           /\ (faults' = faults => UNCHANGED runtime)
  <2>1. RuntimeOK' /\ starts' = starts /\ \A x \in Session : Closed(x)' => Closed(x)
    BY <1>4, OpensKeeps, RuntimeSame DEF VoiceInv, Kept
  <2>2. faults' \in 0 .. MaxFaults
    BY <1>2, <1>4 DEF Plain
  <2>3. faults' = 0 => faults = 0 /\ \A x \in Session : Live(x)' => Live(x)
    BY <1>2, <1>4, RuntimeSame DEF VoiceInv, Kept
  <2>4. status' \in VoiceStates /\ EndVoice("failure")
    BY <1>4 DEF StartFails, VoiceStates
  <2> QED
    BY <1>1, <1>2, <2>1, <2>2, <2>3, <2>4, EndKeeps
<1>5. CASE /\ Opens(s) /\ conn' = [conn EXCEPT ![voice].session = s] /\ UNCHANGED faults
           /\ StartGoesOn(IF slot = "open" THEN "start" ELSE "restart")
  <2>1. /\ slot' = IF slot = "open" THEN "start" ELSE "restart"
        /\ UNCHANGED <<after, closing, status, voice, mic, deaf>>
    BY <1>5 DEF StartGoesOn
  <2>2. PICK c \in ConnRecord : c = conn[voice]
    BY <1>2
  <2>3. PICK r \in ConnRecord : r = [c EXCEPT !.session = s]
    BY <2>2 DEF ConnRecord
  <2>4. r.session = s /\ r.replaced = c.replaced /\ conn' = [conn EXCEPT ![voice] = r]
    BY <1>2, <1>5, <2>2, <2>3 DEF ConnRecord
  <2>5. /\ conn' \in Seq(ConnRecord) /\ Len(conn') = Len(conn) /\ conn'[voice] = r
    BY <1>2, <2>4, ConnChanged
  <2>6. /\ RuntimeOK' /\ ~Closed(s) /\ starts' = starts
        /\ \A x \in Session : (Live(x)' => x = s) /\ (Closed(x)' => Closed(x))
    BY <1>5, OpensKeeps DEF VoiceInv
  <2>7. s # Nobody
    BY DEF Session, Nobody
  <2>8. PumpOK' /\ ClosedOK' /\ LateOK'
    <3>1. slot = "open" \/ conn'[voice].replaced
      BY <1>1, <1>2, <2>2, <2>4, <2>5 DEF VoiceInv, ConnOK
    <3>2. conn'[voice].session \in Session /\ ~Closed(conn'[voice].session)
      BY <2>4, <2>5, <2>6
    <3> QED
      BY <1>1, <2>1, <2>5, <2>6, <3>1, <3>2, Aside
  <2>9. CountOK'
    BY <1>1, <2>1, <2>5, <2>6 DEF VoiceInv, CountOK, Working, user
  <2>10. SlotOK'
    BY <1>1, <2>1, <2>5 DEF VoiceInv, SlotOK
  <2>11. ConnOK' /\ MicOK'
    BY <1>1, <1>2, <2>1, <2>2, <2>4, <2>5, <2>7 DEF VoiceInv, ConnOK, MicOK
  <2>12. OwnedOK'
    BY <1>2, <2>1, <2>4, <2>5, <2>6 DEF OwnedOK
  <2>13. Plain'
    BY <1>1, <1>2, <1>5, <2>1, <2>5, <2>6 DEF Plain, SlotName, user
  <2>14. TypeOK'
    BY <1>1, <1>2, <2>5, <2>6, <2>13, TypedAgain DEF RuntimeOK
  <2> QED
    BY <2>6, <2>8, <2>9, <2>10, <2>11, <2>12, <2>14 DEF VoiceInv
<1> QED
  <2>1. faults' = faults + 1 => faults' # faults
    BY <1>2
  <2> QED
    BY <1>3, <1>4, <1>5, <2>1 DEF Calls, Fine, MayFail

LEMMA StartInteractionKeeps == ASSUME VoiceInv, StartInteraction PROVE VoiceInv'
<1>1. slot \in {"start", "restart"} /\ UNCHANGED <<inbox, app, pump, user>>
  BY DEF StartInteraction, Here
<1>2. /\ Plain /\ conn \in Seq(ConnRecord) /\ starts \in Nat /\ inbox \in Seq(Message)
      /\ pump \in PumpRecord /\ Len(conn) \in Nat /\ asked \in Nat /\ MaxStarts \in Nat
      /\ Count(inbox, StartClicks) \in Nat
      /\ voice \in 1 .. Len(conn) /\ voice # Nobody /\ conn[voice] \in ConnRecord
      /\ faults \in Nat /\ MaxFaults \in Nat
  BY <1>1, VoiceFacts DEF VoiceInv, SlotOK
<1>3. PICK c \in ConnRecord : c = conn[voice]
  BY <1>2
<1>4. PICK s \in Session : s = c.session
  BY <1>1, <1>2, <1>3 DEF VoiceInv, ConnOK, ConnRecord
<1>5. starts + 1 \in Interaction /\ starts + 1 # Nobody
  BY <1>1, <1>2 DEF VoiceInv, CountOK, Plain, Working, Interaction, Nobody
<1>6. CASE StartFails /\ (Starts(s) \/ UNCHANGED runtime)
           /\ (UNCHANGED faults \/ (faults < MaxFaults /\ faults' = faults + 1))
  <2>1. RuntimeOK' /\ Kept /\ starts' \in {starts, starts + 1}
    BY <1>5, <1>6, StartsKeeps, RuntimeSame DEF VoiceInv
  <2>2. starts' \in Nat /\ starts' <= starts + (IF Working THEN 1 ELSE 0)
    BY <1>1, <1>2, <2>1 DEF Working
  <2>3. faults' \in 0 .. MaxFaults /\ (faults' = 0 => faults = 0)
    BY <1>2, <1>6 DEF Plain
  <2>4. status' \in VoiceStates /\ EndVoice("failure")
    BY <1>6 DEF StartFails, VoiceStates
  <2> QED
    BY <1>1, <1>2, <2>1, <2>2, <2>3, <2>4, EndKeeps DEF Kept
<1>7. CASE /\ Starts(s) /\ StartGoesOn("bind") /\ UNCHANGED faults
           /\ conn' = [conn EXCEPT ![voice].interaction = starts + 1, ![voice].committed = FALSE]
  <2>1. slot' = "bind" /\ UNCHANGED <<after, closing, status, voice, mic, deaf>>
    BY <1>7 DEF StartGoesOn
  <2>2. PICK r \in ConnRecord : r = [c EXCEPT !.interaction = starts + 1, !.committed = FALSE]
    BY <1>3, <1>5 DEF ConnRecord
  <2>3. /\ r.session = s /\ r.replaced = c.replaced /\ r.interaction = starts + 1 /\ r.committed = FALSE
        /\ conn' = [conn EXCEPT ![voice] = r]
    BY <1>2, <1>3, <1>4, <1>7, <2>2 DEF ConnRecord
  <2>4. /\ conn' \in Seq(ConnRecord) /\ Len(conn') = Len(conn) /\ conn'[voice] = r
    BY <1>2, <2>3, ConnChanged
  <2>5. RuntimeOK' /\ Kept /\ starts' = starts + 1
    BY <1>5, <1>7, StartsKeeps DEF VoiceInv
  <2>6. s # Nobody
    BY DEF Session, Nobody
  <2>7. PumpOK' /\ ClosedOK' /\ LateOK'
    BY <1>1, <1>3, <1>4, <2>1, <2>3, <2>4, <2>5, Aside DEF Kept
  <2>8. CountOK'
    BY <1>1, <1>2, <2>1, <2>4, <2>5 DEF VoiceInv, CountOK, Working, user
  <2>9. SlotOK'
    BY <1>1, <1>2, <2>1, <2>4 DEF VoiceInv, SlotOK
  <2>10. ConnOK' /\ MicOK'
    BY <1>1, <1>2, <1>5, <2>1, <2>3, <2>4, <2>6 DEF ConnOK, MicOK
  <2>11. OwnedOK'
    BY <1>1, <1>2, <1>3, <1>4, <1>7, <2>1, <2>3, <2>4, <2>5 DEF VoiceInv, OwnedOK, Kept, SlotOK
  <2>12. starts' \in 0 .. MaxStarts
    BY <1>5, <2>5 DEF Interaction
  <2>13. Plain'
    BY <1>1, <1>2, <1>7, <2>1, <2>4, <2>12 DEF Plain, SlotName, user
  <2>14. TypeOK'
    BY <1>1, <1>2, <2>4, <2>5, <2>13, TypedAgain DEF RuntimeOK
  <2> QED
    BY <2>5, <2>7, <2>8, <2>9, <2>10, <2>11, <2>14 DEF VoiceInv
<1>8. CASE /\ slot = "start" /\ NotIdle(s) /\ StartGoesOn("reopen") /\ UNCHANGED runtime /\ UNCHANGED faults
           /\ conn' = [conn EXCEPT ![voice] = [Emptied EXCEPT !.replaced = TRUE]]
  <2>1. slot' = "reopen" /\ UNCHANGED <<after, closing, status, voice, mic, deaf>>
    BY <1>8 DEF StartGoesOn
  <2>2. PICK r \in ConnRecord : r = [Emptied EXCEPT !.replaced = TRUE]
    BY <1>3 DEF ConnRecord, Emptied
  <2>3. r.session = Nobody /\ r.replaced = TRUE /\ conn' = [conn EXCEPT ![voice] = r]
    BY <1>3, <1>8, <2>2 DEF ConnRecord, Emptied
  <2>4. /\ conn' \in Seq(ConnRecord) /\ Len(conn') = Len(conn) /\ conn'[voice] = r
    BY <1>2, <2>3, ConnChanged
  <2>5. RuntimeOK' /\ Kept /\ starts' = starts
    BY <1>8, RuntimeSame DEF VoiceInv
  <2>6. PumpOK' /\ ClosedOK' /\ LateOK'
    BY <1>1, <2>1, <2>3, <2>4, <2>5, Aside DEF Kept
  <2>7. CountOK'
    BY <1>1, <1>2, <2>1, <2>4, <2>5 DEF VoiceInv, CountOK, Working, user
  <2>8. SlotOK'
    BY <1>1, <1>2, <2>1, <2>4 DEF VoiceInv, SlotOK
  <2>9. ConnOK' /\ MicOK'
    BY <1>1, <1>2, <2>1, <2>3, <2>4 DEF ConnOK, MicOK
  <2>10. ~Live(s)
    BY <1>8 DEF NotIdle, Live
  <2>11. OwnedOK'
    BY <1>1, <1>3, <1>4, <1>8, <2>5, <2>10 DEF VoiceInv, OwnedOK, Kept, SlotOK
  <2>12. Plain'
    BY <1>1, <1>2, <1>8, <2>1, <2>4, <2>5 DEF Plain, SlotName, user
  <2>13. TypeOK'
    BY <1>1, <1>2, <2>4, <2>5, <2>12, TypedAgain DEF RuntimeOK
  <2> QED
    BY <2>5, <2>6, <2>7, <2>8, <2>9, <2>11, <2>13 DEF VoiceInv
<1> QED
  <2>1. \/ Calls(CanStart(s), Starts(s),
                 /\ conn' = [conn EXCEPT ![voice].interaction = starts + 1, ![voice].committed = FALSE]
                 /\ StartGoesOn("bind"),
                 StartFails)
        \/ /\ slot = "start" /\ NotIdle(s)
           /\ conn' = [conn EXCEPT ![voice] = [Emptied EXCEPT !.replaced = TRUE]]
           /\ StartGoesOn("reopen") /\ UNCHANGED runtime /\ Fine
    BY <1>3, <1>4 DEF StartInteraction
  <2> QED
    BY <1>6, <1>7, <1>8, <2>1 DEF Calls, Fine, MayFail

LEMMA BindDevicesKeeps == ASSUME VoiceInv, BindDevices PROVE VoiceInv'
<1>1. slot = "bind" /\ UNCHANGED <<inbox, app, user, conn>> /\ UNCHANGED runtime
  BY DEF BindDevices, Here
<1>2. /\ Plain /\ conn \in Seq(ConnRecord) /\ starts \in Nat /\ inbox \in Seq(Message)
      /\ pump \in PumpRecord /\ Len(conn) \in Nat
      /\ Count(inbox, StartClicks) \in Nat
      /\ voice \in 1 .. Len(conn) /\ voice # Nobody /\ conn[voice] \in ConnRecord
      /\ faults \in Nat /\ MaxFaults \in Nat /\ MaxStarts \in Nat
  BY <1>1, VoiceFacts DEF VoiceInv, SlotOK
<1>3. RuntimeOK' /\ Kept /\ starts' = starts
  BY <1>1, RuntimeSame DEF VoiceInv
<1>4. CASE /\ pump' \in {pump, [state |-> "starting", voice |-> voice, session |-> Nobody]}
           /\ StartFails /\ MayFail
  <2>1. faults' \in 0 .. MaxFaults /\ (faults' = 0 => faults = 0)
    BY <1>2, <1>4 DEF MayFail
  <2>2. status' \in VoiceStates /\ EndVoice("failure") /\ starts' <= starts + (IF Working THEN 1 ELSE 0)
    BY <1>2, <1>3, <1>4 DEF StartFails, VoiceStates
  <2>3. voice \in Voice
    BY <1>2 DEF Plain, Voice
  <2>4. \/ pump' = pump
        \/ /\ pump' \in PumpRecord /\ pump'.voice \in 1 .. Len(conn)
           /\ pump'.state = "starting" /\ pump'.session = Nobody
    BY <1>2, <1>4, <2>3 DEF PumpRecord
  <2> QED
    BY <1>1, <1>2, <1>3, <2>1, <2>2, <2>4, EndKeeps DEF Kept
<1>5. CASE /\ pump' \in {pump, [state |-> "starting", voice |-> voice, session |-> Nobody]}
           /\ deaf' \in BOOLEAN
           /\ mic' = TRUE /\ status' = "LISTENING" /\ slot' = "free"
           /\ UNCHANGED <<after, closing, voice>> /\ UNCHANGED faults
  <2>1. CountOK'
    BY <1>1, <1>2, <1>3, <1>5 DEF VoiceInv, CountOK, Working, user
  <2>2. SlotOK' /\ ConnOK' /\ MicOK'
    BY <1>1, <1>5 DEF VoiceInv, SlotOK, ConnOK, MicOK
  <2>3. PumpOK'
    BY <1>1, <1>2, <1>5 DEF VoiceInv, PumpOK
  <2>4. pump' = pump \/ pump'.state = "starting"
    BY <1>5
  <2>5. ClosedOK' /\ LateOK'
    BY <1>1, <1>3, <1>5, <2>4 DEF VoiceInv, ClosedOK, LateOK, Kept
  <2>6. OwnedOK'
    BY <1>1, <1>3, <1>5 DEF VoiceInv, OwnedOK, Kept
  <2>7. pump' \in PumpRecord
    <3>1. voice \in Voice
      BY <1>2 DEF Plain, Voice
    <3> QED
      BY <1>2, <1>5, <3>1 DEF PumpRecord
  <2>8. Plain'
    BY <1>1, <1>2, <1>3, <1>5 DEF Plain, SlotName, VoiceStates, user
  <2>9. TypeOK'
    BY <1>1, <1>2, <1>3, <2>7, <2>8, TypedAgain DEF RuntimeOK
  <2> QED
    BY <1>3, <2>1, <2>2, <2>3, <2>5, <2>6, <2>9 DEF VoiceInv
<1> QED
  <2>1. deaf' = (pump.state # "ended"
                   /\ (pump.voice # voice \/ pump.session # conn[voice].session)) => deaf' \in BOOLEAN
    OBVIOUS
  <2> QED
    BY <1>4, <1>5, <2>1 DEF BindDevices, Fine
(* The pump reads on, posts an event or ends.                              *)
LEMMA PumpStepKeeps ==
  ASSUME VoiceInv, UNCHANGED <<app, worker, user>>, RuntimeOK', Kept, starts' = starts,
         faults' \in 0 .. MaxFaults, faults' = 0 => faults = 0, pump.state # "ended",
         \/ pump' = pump \/ pump' = Silent
         \/ /\ pump' = [pump EXCEPT !.state = "reading", !.session = conn[pump.voice].session]
            /\ conn[pump.voice].session # Nobody,
         \/ inbox' = inbox
         \/ \E k \in Kinds :
              /\ inbox' = Append(inbox, Posted(k))
              /\ k = "closed" => pump.state = "reading" /\ Closed(pump.session)
              /\ pump.state = "starting" => conn[pump.voice].session = Nobody
  PROVE  VoiceInv'
<1>1. /\ Plain /\ conn \in Seq(ConnRecord) /\ starts \in Nat /\ inbox \in Seq(Message)
      /\ pump \in PumpRecord /\ Len(conn) \in Nat /\ Count(inbox, StartClicks) \in Nat
      /\ pump.voice \in 1 .. Len(conn) /\ conn[pump.voice] \in ConnRecord
  BY VoiceFacts
<1>2. /\ UNCHANGED <<app, slot, after, closing, status, voice, conn, mic, deaf, asked, clicks>>
  BY DEF worker, user
<1>3. /\ pump' \in PumpRecord
      /\ pump'.state # "ended" => pump'.voice = pump.voice
      /\ pump'.state = "reading" <=> pump'.session # Nobody
      /\ pump'.state = "reading" => \/ pump'.session = conn[pump.voice].session
                                    \/ pump.state = "reading" /\ pump'.session = pump.session
  <2>1. CASE pump' = pump
    BY <1>1, <2>1 DEF VoiceInv, PumpOK
  <2>2. CASE pump' = Silent
    BY <2>2 DEF Silent, PumpRecord
  <2>3. CASE /\ pump' = [pump EXCEPT !.state = "reading", !.session = conn[pump.voice].session]
             /\ conn[pump.voice].session # Nobody
    <3>1. conn[pump.voice].session \in Session
      BY <1>1, <2>3 DEF ConnRecord
    <3> QED
      BY <1>1, <2>3, <3>1 DEF PumpRecord
  <2> QED
    BY <2>1, <2>2, <2>3
<1> DEFINE Origin(m) == /\ m.kind \in Kinds /\ m.voice = pump.voice /\ m.session = pump.session
                        /\ m.kind = "closed" => pump.state = "reading" /\ Closed(pump.session)
                        /\ pump.state = "starting" => conn[pump.voice].session = Nobody
           Added(new) == /\ inbox' \in Seq(Message) /\ Elems(inbox') = Elems(inbox) \cup new
                         /\ Count(inbox', StartClicks) = Count(inbox, StartClicks)
                         /\ \A m \in new : Origin(m)
<1>4. PICK new : Added(new)
  <2>1. CASE inbox' = inbox
    <3>1. /\ inbox' \in Seq(Message) /\ Elems(inbox') = Elems(inbox) \cup {}
          /\ Count(inbox', StartClicks) = Count(inbox, StartClicks)
      BY <1>1, <2>1
    <3>2. Added({})
      BY <3>1
    <3> HIDE DEF Added
    <3> QED
      BY <3>2, Zenon
  <2>2. CASE \E k \in Kinds :
               /\ inbox' = Append(inbox, Posted(k))
               /\ k = "closed" => pump.state = "reading" /\ Closed(pump.session)
               /\ pump.state = "starting" => conn[pump.voice].session = Nobody
    <3>1. PICK k \in Kinds :
               /\ inbox' = Append(inbox, Posted(k))
               /\ k = "closed" => pump.state = "reading" /\ Closed(pump.session)
               /\ pump.state = "starting" => conn[pump.voice].session = Nobody
      BY <2>2
    <3>2. PICK m \in Message : m = Posted(k) /\ m.kind = k /\ m.voice = pump.voice /\ m.session = pump.session
      <4>1. pump.voice \in Voice \cup {Nobody} /\ pump.session \in Session \cup {Nobody}
        BY <1>1 DEF PumpRecord
      <4>2. Posted(k) \in Message
        BY <4>1 DEF Message, Posted
      <4>3. Posted(k).kind = k /\ Posted(k).voice = pump.voice /\ Posted(k).session = pump.session
        BY DEF Posted
      <4> QED
        BY <4>2, <4>3
    <3>3. /\ inbox' \in Seq(Message) /\ Elems(inbox') = Elems(inbox) \cup {m}
          /\ Count(inbox', StartClicks) = Count(inbox, StartClicks) + (IF m.kind = "start" THEN 1 ELSE 0)
      BY <3>1, <3>2, PostedFacts
    <3>4. Count(inbox', StartClicks) = Count(inbox, StartClicks)
      BY <1>1, <3>2, <3>3 DEF Kinds
    <3>5. Origin(m)
      BY <3>1, <3>2
    <3>6. Added({m})
      BY <3>3, <3>4, <3>5
    <3> QED
      BY <3>6, Zenon
  <2> QED
    BY <2>1, <2>2
<1>5. CountOK'
  BY <1>1, <1>2, <1>4 DEF VoiceInv, CountOK, Working
<1>6. SlotOK' /\ ConnOK' /\ MicOK'
  BY <1>2 DEF VoiceInv, SlotOK, ConnOK, MicOK
<1>7. PumpOK'
  BY <1>1, <1>2, <1>3, <1>4 DEF VoiceInv, PumpOK
<1>8. ASSUME voice # Nobody PROVE ClosedOK' /\ LateOK'
  <2>1. \A x \in Session : Closed(x)' => Closed(x)
    BY DEF Kept
  <2>2. /\ \A x \in Session : Closed(x) =>
             /\ conn[voice].session # x
             /\ pump.state = "reading" /\ pump.voice = voice => pump.session # x
        /\ \A m \in Elems(inbox) : m.kind = "closed" => m.voice # voice
    BY <1>8 DEF VoiceInv, ClosedOK
  <2>3. pump.state = "reading" => pump.session \in Session
    BY <1>1 DEF VoiceInv, PumpOK, PumpRecord
  <2>4. \A m \in Elems(inbox') : m.kind = "closed" => m.voice # voice
    BY <1>4, <2>2, <2>3
  <2>5. \A x \in Session : Closed(x)' =>
             /\ conn[voice].session # x
             /\ pump'.state = "reading" /\ pump'.voice = voice => pump'.session # x
    BY <1>3, <2>1, <2>2
  <2>6. ClosedOK'
    BY <1>2, <2>4, <2>5 DEF ClosedOK
  <2>7. LateOK'
    <3>1. SUFFICES ASSUME ~conn[voice].replaced
                   PROVE  /\ pump'.state = "reading" /\ pump'.voice = voice => pump'.session = conn[voice].session
                          /\ \A m \in Elems(inbox') :
                               m.kind \in Kinds /\ m.voice = voice => m.session = conn[voice].session
      BY <1>2 DEF LateOK
    <3>2. /\ pump.state = "reading" /\ pump.voice = voice => pump.session = conn[voice].session
          /\ \A m \in Elems(inbox) :
               m.kind \in Kinds /\ m.voice = voice => m.session = conn[voice].session
      BY <1>8, <3>1 DEF VoiceInv, LateOK
    <3>3. pump.state \in {"starting", "reading"} /\ (pump.state = "starting" => pump.session = Nobody)
      BY <1>1 DEF VoiceInv, PumpOK, PumpRecord
    <3>4. \A m \in Elems(inbox') :
            m.kind \in Kinds /\ m.voice = voice => m.session = conn[voice].session
      BY <1>4, <3>2, <3>3
    <3> QED
      BY <1>3, <3>2, <3>4
  <2> QED
    BY <2>6, <2>7
<1>9. ClosedOK' /\ LateOK'
  BY <1>2, <1>8 DEF ClosedOK, LateOK
<1>10. OwnedOK'
  BY <1>2 DEF VoiceInv, OwnedOK, Kept
<1>11. Plain'
  BY <1>1, <1>2 DEF Plain
<1>12. TypeOK'
  BY <1>1, <1>2, <1>3, <1>4, <1>11, TypedAgain DEF RuntimeOK
<1> QED
  BY <1>5, <1>6, <1>7, <1>9, <1>10, <1>12 DEF VoiceInv

LEMMA PumpThreadKeeps == ASSUME VoiceInv, Bind \/ Pumped \/ StreamBreaks PROVE VoiceInv'
<1>1. /\ Plain /\ starts \in Nat /\ pump \in PumpRecord /\ faults \in Nat /\ MaxFaults \in Nat
      /\ faults \in 0 .. MaxFaults
  BY VoiceFacts DEF Plain
<1>2. CASE Bind
  <2>1. RuntimeOK' /\ Kept /\ starts' = starts
    BY <1>2, RuntimeSame DEF VoiceInv, Bind
  <2>2. /\ UNCHANGED <<app, worker, user>> /\ faults' = faults /\ pump.state = "starting"
        /\ \/ /\ pump' = Silent /\ inbox' = Append(inbox, Posted("broken"))
              /\ conn[pump.voice].session = Nobody
           \/ /\ pump' = [pump EXCEPT !.state = "reading", !.session = conn[pump.voice].session]
              /\ inbox' = inbox /\ conn[pump.voice].session # Nobody
    BY <1>2 DEF Bind, Fine
  <2>3. "broken" \in Kinds
    BY DEF Kinds
  <2> QED
    BY <1>1, <2>1, <2>2, <2>3, PumpStepKeeps
<1>3. CASE Pumped
  <2>1. pump.state = "reading" /\ pump.session \in Session
    BY <1>1, <1>3 DEF Pumped, VoiceInv, PumpOK, PumpRecord
  <2>2. PICK e \in RuntimeEvents : e = Head(queue[pump.session]) /\ e \in Elems(queue[pump.session])
    BY <1>3, <2>1, PumpedKeeps DEF VoiceInv
  <2>3. RuntimeOK' /\ Kept /\ starts' = starts
    BY <1>3, <2>1, PumpedKeeps DEF VoiceInv
  <2>4. /\ UNCHANGED <<app, worker, user>> /\ faults' = faults
        /\ IF e = "END" THEN pump' = Silent /\ inbox' = inbox
                        ELSE inbox' = Append(inbox, Posted(e)) /\ pump' = pump
    BY <1>3, <2>2 DEF Pumped, Fine
  <2>5. e # "END" => e \in Kinds
    BY <2>2 DEF RuntimeEvents
  <2>6. e = "closed" => Closed(pump.session)
    BY <2>2 DEF Closed
  <2> QED
    BY <1>1, <2>1, <2>3, <2>4, <2>5, <2>6, PumpStepKeeps
<1>4. CASE StreamBreaks
  <2>1. RuntimeOK' /\ Kept /\ starts' = starts
    BY <1>4, RuntimeSame DEF VoiceInv, StreamBreaks
  <2>2. /\ UNCHANGED <<app, worker, user>> /\ faults < MaxFaults /\ faults' = faults + 1
        /\ pump.state = "reading" /\ pump' = Silent /\ inbox' = Append(inbox, Posted("broken"))
    BY <1>4 DEF StreamBreaks, MayFail
  <2>3. "broken" \in Kinds
    BY DEF Kinds
  <2>4. faults' \in 0 .. MaxFaults /\ faults' # 0
    BY <1>1, <2>2
  <2> QED
    BY <1>1, <2>1, <2>2, <2>3, <2>4, PumpStepKeeps
<1> QED
  BY <1>2, <1>3, <1>4

LEMMA UserClicksKeeps == ASSUME VoiceInv, UserClicks PROVE VoiceInv'
<1>1. /\ Plain /\ conn \in Seq(ConnRecord) /\ starts \in Nat /\ inbox \in Seq(Message)
      /\ pump \in PumpRecord /\ Len(conn) \in Nat /\ Count(inbox, StartClicks) \in Nat
      /\ MaxStarts \in Nat /\ MaxClicks \in Nat /\ asked \in Nat /\ clicks \in Nat
  BY VoiceFacts
<1>2. PICK k \in Clicks :
        /\ inbox' = Append(inbox, Click(k))
        /\ IF k = "start" THEN asked < MaxStarts /\ asked' = asked + 1 /\ UNCHANGED clicks
                          ELSE clicks < MaxClicks /\ clicks' = clicks + 1 /\ UNCHANGED asked
  BY DEF UserClicks
<1>3. UNCHANGED <<app, slot, after, closing, status, voice, conn, mic, deaf, pump>> /\ faults' = faults
  BY DEF UserClicks, worker, Fine
<1>4. RuntimeOK' /\ Kept /\ starts' = starts
  BY RuntimeSame DEF VoiceInv, UserClicks
<1>5. PICK m \in Message : m = Click(k) /\ m.kind = k
  <2>1. Click(k) \in Message
    BY DEF Message, Click
  <2>2. Click(k).kind = k
    BY DEF Click
  <2> QED
    BY <2>1, <2>2
<1>6. /\ inbox' \in Seq(Message) /\ Elems(inbox') = Elems(inbox) \cup {m}
      /\ Count(inbox', StartClicks) = Count(inbox, StartClicks) + (IF k = "start" THEN 1 ELSE 0)
  BY <1>2, <1>5, PostedFacts
<1>7. m.kind \notin Kinds /\ m.kind # "closed"
  BY <1>5 DEF Clicks, Kinds
<1>8. CountOK'
  BY <1>1, <1>2, <1>3, <1>4, <1>6 DEF VoiceInv, CountOK, Working
<1>9. SlotOK' /\ ConnOK' /\ MicOK'
  BY <1>3 DEF VoiceInv, SlotOK, ConnOK, MicOK
<1>10. PumpOK'
  BY <1>3, <1>6, <1>7 DEF VoiceInv, PumpOK
<1>11. ClosedOK' /\ LateOK'
  BY <1>3, <1>4, <1>6, <1>7 DEF VoiceInv, ClosedOK, LateOK, Kept
<1>12. OwnedOK'
  BY <1>3, <1>4 DEF VoiceInv, OwnedOK, Kept
<1>13. asked' \in 0 .. MaxStarts /\ clicks' \in 0 .. MaxClicks
  BY <1>1, <1>2 DEF Plain
<1>14. Plain'
  BY <1>1, <1>3, <1>4, <1>13 DEF Plain
<1>15. TypeOK'
  BY <1>1, <1>3, <1>4, <1>6, <1>14, TypedAgain DEF RuntimeOK
<1> QED
  BY <1>4, <1>8, <1>9, <1>10, <1>11, <1>12, <1>15 DEF VoiceInv

(* A step of the provider or of the application.                           *)
LEMMA OutsideKeeps ==
  ASSUME VoiceInv, AppStarts \/ AppStops \/ CloseAll \/ \E s \in Session : Provider(s)
  PROVE  VoiceInv'
<1>1. /\ Plain /\ conn \in Seq(ConnRecord) /\ starts \in Nat /\ inbox \in Seq(Message)
      /\ pump \in PumpRecord
  BY VoiceFacts
<1>2. UNCHANGED <<slot, after, closing, status, voice, conn, mic, deaf, pump, inbox, asked, clicks, faults>>
  BY DEF AppStarts, AppStops, CloseAll, Provider, worker, user, Fine
<1>3. /\ app' \in {"new", "ready", "stopping", "stopped"}
      /\ app' = app \/ app' = "ready" \/ slot = "stopped"
  BY <1>1 DEF AppStarts, AppStops, CloseAll, Provider, Plain, VoiceInv, SlotOK
<1>4. /\ RuntimeOK' /\ starts' = starts /\ \A x \in Session : Live(x)' => Live(x)
      /\ voice = Nobody \/ \A x \in Session : Closed(x)' => Closed(x)
  <2>1. CASE AppStarts \/ AppStops
    BY <2>1, RuntimeSame DEF VoiceInv, AppStarts, AppStops, Kept
  <2>2. CASE \E s \in Session : Provider(s)
    BY <2>2, ProviderKeeps DEF VoiceInv, Kept
  <2>3. CASE CloseAll
    <3>1. voice = Nobody
      BY <2>3 DEF CloseAll, VoiceInv, SlotOK
    <3>2. (\E s \in Session : Closes(s)) \/ UNCHANGED runtime
      BY <2>3 DEF CloseAll
    <3> QED
      BY <3>1, <3>2, RuntimeSame, ClosesKeeps DEF VoiceInv, Kept
  <2> QED
    BY <2>1, <2>2, <2>3
<1>5. CountOK' /\ ConnOK' /\ MicOK' /\ PumpOK'
  BY <1>2, <1>4 DEF VoiceInv, CountOK, Working, ConnOK, MicOK, PumpOK
<1>6. SlotOK'
  BY <1>2, <1>3 DEF VoiceInv, SlotOK
<1>7. ClosedOK' /\ LateOK'
  BY <1>2, <1>4 DEF VoiceInv, ClosedOK, LateOK
<1>8. OwnedOK'
  BY <1>2, <1>4 DEF VoiceInv, OwnedOK
<1>9. Plain'
  BY <1>1, <1>2, <1>3, <1>4 DEF Plain
<1>10. TypeOK'
  BY <1>1, <1>2, <1>4, <1>9, TypedAgain DEF RuntimeOK
<1> QED
  BY <1>4, <1>5, <1>6, <1>7, <1>8, <1>10 DEF VoiceInv

LEMMA VoiceInitially == Init => VoiceInv
<1> SUFFICES ASSUME Init PROVE VoiceInv
  OBVIOUS
<1>1. /\ MaxStarts \in Nat /\ MaxClicks \in Nat /\ MaxFaults \in Nat
  BY DesktopVoiceAssumption DEF DesktopVoiceAssumption
<1>2. conn = <<>> /\ inbox = <<>> /\ Len(conn) = 0 /\ Elems(inbox) = {} /\ Count(inbox, StartClicks) = 0
  BY ElemsEmpty, CountEmpty DEF Init
<1>3. \A s \in Session : ses[s] = Unused /\ queue[s] = <<>>
  BY DEF Init
<1>4. Unused \in SesRecord /\ Unused.state = "unused" /\ Unused.committed = FALSE /\ Unused.active = Nobody
  BY DEF Unused, SesRecord, Nobody
<1>5. RuntimeTyped
  <2>1. ses = [s \in Session |-> Unused] /\ queue = [s \in Session |-> <<>>]
    BY DEF Init
  <2> HIDE DEF Unused
  <2> QED
    BY <1>4, <2>1 DEF RuntimeTyped
<1>6. RuntimeOK
  BY <1>3, <1>4, <1>5, ElemsEmpty DEF RuntimeOK, SesOK
<1>7. OwnedOK
  BY <1>3, <1>4 DEF OwnedOK, Live
<1>8. CountOK /\ SlotOK /\ ConnOK /\ MicOK /\ PumpOK /\ ClosedOK /\ LateOK
  BY <1>2 DEF Init, CountOK, Working, SlotOK, ConnOK, MicOK, PumpOK, ClosedOK, LateOK, Silent, Nobody
<1>9. Plain
  <2>1. /\ app \in {"new", "ready", "stopping", "stopped"} /\ slot \in SlotName
        /\ after \in {"stop", "quit", "failure", "event"} /\ closing \in Voice \cup {Nobody}
        /\ status \in VoiceStates /\ mic \in BOOLEAN /\ deaf \in BOOLEAN
    BY DEF Init, SlotName, VoiceStates
  <2>2. /\ Len(conn) \in 0 .. MaxStarts /\ voice \in 0 .. Len(conn)
        /\ starts \in 0 .. MaxStarts /\ asked \in 0 .. MaxStarts
        /\ clicks \in 0 .. MaxClicks /\ faults \in 0 .. MaxFaults
    BY <1>1, <1>2 DEF Init, Nobody
  <2> QED
    BY <2>1, <2>2 DEF Plain
<1>10. conn \in Seq(ConnRecord) /\ inbox \in Seq(Message) /\ pump \in PumpRecord
  BY <1>2 DEF Init, Silent, PumpRecord
<1>11. TypeOK
  <2>1. voice \in Voice \cup {Nobody}
    BY DEF Init
  <2> HIDE DEF Nobody
  <2> QED
    BY <1>5, <1>9, <1>10, <2>1 DEF TypeOK, Plain, ConnRecord, Message, PumpRecord, RuntimeTyped, SesRecord, RuntimeEvents, SlotName
<1> QED
  BY <1>6, <1>7, <1>8, <1>11 DEF VoiceInv

LEMMA VoiceStuttering == ASSUME VoiceInv, UNCHANGED vars PROVE VoiceInv'
<1>1. UNCHANGED <<app, slot, after, closing, status, voice, conn, mic, deaf, inbox, pump, ses, queue, starts,
                  asked, clicks, faults>>
  BY DEF vars, worker, runtime, user
<1>2. RuntimeOK'
  BY <1>1, RuntimeSame DEF VoiceInv, runtime
<1>3. CountOK' /\ SlotOK' /\ ConnOK' /\ MicOK' /\ PumpOK'
  BY <1>1 DEF VoiceInv, CountOK, Working, SlotOK, ConnOK, MicOK, PumpOK
<1>4. ClosedOK' /\ LateOK' /\ OwnedOK'
  BY <1>1 DEF VoiceInv, ClosedOK, Closed, LateOK, OwnedOK, Live
<1>5. TypeOK'
  BY <1>1 DEF VoiceInv, TypeOK
<1> QED
  BY <1>2, <1>3, <1>4, <1>5 DEF VoiceInv

LEMMA VoiceSteps == VoiceInv /\ [Next]_vars => VoiceInv'
<1> SUFFICES ASSUME VoiceInv, [Next]_vars PROVE VoiceInv'
  OBVIOUS
<1>1. CASE WorkerStep
  BY <1>1, OnStartKeeps, OpenSessionKeeps, StartInteractionKeeps, BindDevicesKeeps, OnCommitKeeps,
     CommitKeeps, OnInterruptKeeps, InterruptKeeps, StopKeeps, OnEventKeeps, CancelInputKeeps,
     CloseSessionKeeps, JoinPumpKeeps DEF WorkerStep
<1>2. CASE ~WorkerStep /\ Next
  BY <1>2, PumpThreadKeeps, UserClicksKeeps, OutsideKeeps DEF Next
<1>3. CASE UNCHANGED vars
  BY <1>3, VoiceStuttering
<1> QED
  BY <1>1, <1>2, <1>3

(* Always the voice in use is told only of its own sessions, each of which *)
(* is live, over or replaced, and the worker has one slot at a time.       *)
THEOREM VoiceInvariance == Spec => []VoiceInv
<1>1. Init => VoiceInv
  BY VoiceInitially
<1>2. VoiceInv /\ [Next]_vars => VoiceInv'
  BY VoiceSteps
<1> QED
  BY <1>1, <1>2, PTL DEF Spec

(* Between two slots of the worker the microphone runs for the interaction *)
(* in use only, and no live session is left behind that is not of the      *)
(* voice in use, whatever ended the voices before it.                      *)
THEOREM VoiceStaysInOrder == Spec => []VoiceInOrder
<1>1. VoiceInv => VoiceInOrder
  <2> SUFFICES ASSUME VoiceInv PROVE VoiceInOrder
    OBVIOUS
  <2>1. MicrophoneHasInput
    BY DEF VoiceInv, MicrophoneHasInput, Between, MicOK, ConnOK, SlotOK
  <2>2. SessionsAreOwned
    BY DEF VoiceInv, SessionsAreOwned, Between, OwnedOK, SlotOK
  <2> QED
    BY <2>1, <2>2 DEF VoiceInOrder, VoiceInv
<1> QED
  BY <1>1, VoiceInvariance, PTL

(* The failure of a voice that is closed does not end the voice after it,  *)
(* although its events are read and queued by then.                        *)
THEOREM LateEventsStayHarmless == Spec => LateEventsEndNothing
<1>1. VoiceInv /\ [Next]_vars =>
        ((Between /\ voice # Nobody /\ voice' = Nobody /\ Head(inbox).kind \in Kinds)
           => (Head(inbox).session = conn[voice].session \/ conn[voice].replaced))
  <2> SUFFICES ASSUME VoiceInv, [Next]_vars,
                      Between, voice # Nobody, voice' = Nobody, Head(inbox).kind \in Kinds
               PROVE  Head(inbox).session = conn[voice].session \/ conn[voice].replaced
    OBVIOUS
  <2>1. slot = "free"
    BY DEF Between, VoiceInv, SlotOK
  <2>2. OnEvent
    <3>1. voice' # voice
      OBVIOUS
    <3>2. Head(inbox).kind \notin Clicks
      BY DEF Clicks, Kinds
    <3>3. WorkerStep
      BY <3>1 DEF Next, vars, worker, Bind, Pumped, StreamBreaks, Provider, UserClicks, AppStarts, AppStops, CloseAll
    <3> QED
      BY <2>1, <3>1, <3>2, <3>3 DEF WorkerStep, OnStart, OpenSession, StartInteraction, BindDevices, OnCommit, Commit,
         OnInterrupt, Interrupt, OnStop, OnQuit, CancelInput, CloseSession, JoinPump, Take, Clicks
  <2>3. Current(Head(inbox)) /\ inbox # <<>>
    BY <2>2 DEF OnEvent, Take, worker
  <2>4. Head(inbox) \in Elems(inbox)
    BY <2>3, ElemsTail, VoiceFacts
  <2> QED
    BY <2>3, <2>4 DEF VoiceInv, LateOK, Current
<1> QED
  BY <1>1, VoiceInvariance, PTL DEF Spec, LateEventsEndNothing

(* ------------------------- DesktopConversation ------------------------- *)
(* A sequence, whatever it holds.                                          *)
IsSeq(q) == q \in Seq(Elems(q))

LEMMA SeqEmpty == IsSeq(<<>>) /\ Elems(<<>>) = {} /\ \A x : IsSeq(<<x>>) /\ Elems(<<x>>) = {x}
<1>1. \A x : <<x>> \in Seq({x}) /\ Elems(<<x>>) = {x}
  BY ElemsEmpty
<1> QED
  BY <1>1, ElemsEmpty DEF IsSeq

LEMMA AppendFacts ==
  ASSUME NEW q, IsSeq(q), NEW x
  PROVE  /\ IsSeq(Append(q, x)) /\ Elems(Append(q, x)) = Elems(q) \cup {x} /\ Append(q, x) # <<>>
         /\ Len(q) \in Nat /\ DOMAIN q = 1 .. Len(q) /\ DOMAIN Append(q, x) = 1 .. (Len(q) + 1)
         /\ \A i \in DOMAIN Append(q, x) : i # Len(q) + 1 => i \in DOMAIN q
         /\ \A i \in DOMAIN q : Append(q, x)[i] = q[i] /\ i \in Nat /\ i < Len(q) + 1
         /\ Append(q, x)[Len(q) + 1] = x
<1> DEFINE S == Elems(q) \cup {x}
<1>1. q \in Seq(S) /\ x \in S
  BY DEF IsSeq
<1>2. Append(q, x) \in Seq(S) /\ Elems(Append(q, x)) = S
  BY <1>1, ElemsAppend
<1>3. /\ Len(q) \in Nat /\ DOMAIN q = 1 .. Len(q) /\ DOMAIN Append(q, x) = 1 .. (Len(q) + 1)
      /\ \A i \in 1 .. Len(q) : Append(q, x)[i] = q[i]
      /\ Append(q, x)[Len(q) + 1] = x /\ Len(Append(q, x)) = Len(q) + 1
  BY <1>1, AppendProperties
<1> HIDE DEF S
<1>4. Append(q, x) # <<>>
  BY <1>3
<1> QED
  BY <1>2, <1>3, <1>4 DEF IsSeq, S

LEMMA TailFacts ==
  ASSUME NEW q, IsSeq(q), q # <<>>
  PROVE  /\ IsSeq(Tail(q)) /\ Head(q) \in Elems(q) /\ Elems(Tail(q)) \subseteq Elems(q)
         /\ Head(q) = q[1] /\ 1 \in DOMAIN q /\ Len(q) \in Nat /\ DOMAIN q = 1 .. Len(q)
         /\ DOMAIN Tail(q) = 1 .. (Len(q) - 1)
         /\ \A i \in DOMAIN Tail(q) : i \in Nat /\ i > 0 /\ i + 1 \in DOMAIN q /\ Tail(q)[i] = q[i + 1]
         /\ \A m \in Elems(q) : m = Head(q) \/ m \in Elems(Tail(q))
<1>1. /\ Head(q) = q[1] /\ Tail(q) \in Seq(Elems(q))
      /\ Len(q) \in Nat /\ Len(q) > 0 /\ DOMAIN q = 1 .. Len(q)
      /\ Len(Tail(q)) = Len(q) - 1 /\ DOMAIN Tail(q) = 1 .. (Len(q) - 1)
      /\ \A i \in 1 .. (Len(q) - 1) : Tail(q)[i] = q[i + 1]
  BY HeadTailProperties, EmptySeq DEF IsSeq
<1>2. Head(q) \in Elems(q) /\ Elems(Tail(q)) \subseteq Elems(q)
  BY ElemsTail DEF IsSeq
<1>3. Tail(q) \in Seq(Elems(Tail(q)))
  <2>1. Range(Tail(q)) = Elems(Tail(q))
    BY DEF Range, Elems
  <2> QED
    BY <1>1, <2>1, SeqOfRange
<1>4. ASSUME NEW m \in Elems(q) PROVE m = Head(q) \/ m \in Elems(Tail(q))
  <2>1. PICK i \in 1 .. Len(q) : m = q[i]
    BY <1>1, <1>4 DEF Elems
  <2>2. CASE i = 1
    BY <1>1, <2>1, <2>2
  <2>3. CASE i # 1
    <3>1. i - 1 \in 1 .. (Len(q) - 1) /\ (i - 1) + 1 = i
      BY <1>1, <2>1, <2>3
    <3>2. Tail(q)[i - 1] = m /\ i - 1 \in DOMAIN Tail(q)
      BY <1>1, <2>1, <3>1
    <3> QED
      BY <3>2 DEF Elems
  <2> QED
    BY <2>2, <2>3
<1> QED
  BY <1>1, <1>2, <1>3, <1>4 DEF IsSeq

LEMMA ConcatFacts ==
  ASSUME NEW q, IsSeq(q), NEW p, IsSeq(p)
  PROVE  IsSeq(q \o p) /\ Elems(q \o p) = Elems(q) \cup Elems(p)
<1>1. q \in Seq(Elems(q) \cup Elems(p)) /\ p \in Seq(Elems(q) \cup Elems(p))
  BY DEF IsSeq
<1> QED
  BY <1>1, ElemsConcat DEF IsSeq

LEMMA TwoMore ==
  ASSUME NEW q, IsSeq(q), NEW x, NEW y
  PROVE  q \o <<x, y>> = Append(Append(q, x), y)
<1>1. PICK S : S = Elems(q) \cup {x, y}
  OBVIOUS
<1>2. q \in Seq(S) /\ x \in S /\ y \in S /\ <<x, y>> \in Seq(S) /\ Len(<<x, y>>) = 2
  BY <1>1 DEF IsSeq
<1>3. /\ Append(q, x) \in Seq(S) /\ Len(Append(q, x)) = Len(q) + 1 /\ Len(q) \in Nat
      /\ \A i \in 1 .. Len(q) : Append(q, x)[i] = q[i]
      /\ Append(q, x)[Len(q) + 1] = x
  BY <1>2, AppendProperties
<1>4. /\ Append(Append(q, x), y) \in Seq(S) /\ Len(Append(Append(q, x), y)) = Len(q) + 2
      /\ \A i \in 1 .. Len(q) + 1 : Append(Append(q, x), y)[i] = Append(q, x)[i]
      /\ Append(Append(q, x), y)[Len(q) + 2] = y
  BY <1>2, <1>3, AppendProperties
<1>5. /\ q \o <<x, y>> \in Seq(S) /\ Len(q \o <<x, y>>) = Len(q) + 2
      /\ \A i \in 1 .. Len(q) + 2 : (q \o <<x, y>>)[i] = IF i <= Len(q) THEN q[i] ELSE <<x, y>>[i - Len(q)]
  BY <1>2, ConcatProperties
<1>6. ASSUME NEW i \in 1 .. Len(q) + 2
      PROVE  (q \o <<x, y>>)[i] = Append(Append(q, x), y)[i]
  <2>1. CASE i <= Len(q)
    BY <1>3, <1>4, <1>5, <1>6, <2>1
  <2>2. CASE i = Len(q) + 1
    <3>1. i - Len(q) = 1 /\ ~(i <= Len(q))
      BY <1>3, <2>2
    <3> QED
      BY <1>3, <1>4, <1>5, <2>2, <3>1
  <2>3. CASE i = Len(q) + 2
    <3>1. i - Len(q) = 2 /\ ~(i <= Len(q))
      BY <1>3, <2>3
    <3> QED
      BY <1>3, <1>4, <1>5, <2>3, <3>1
  <2> QED
    BY <1>3, <1>6, <2>1, <2>2, <2>3
<1> QED
  BY <1>3, <1>4, <1>5, <1>6, SeqEqual
(* What is known of a request, of a signal and of the page it carries.     *)
PageOK(p, n) ==
  /\ p.numbers \in Seq(Nat) /\ p.older \in BOOLEAN
  /\ p.numbers = <<>> => ~p.older
  /\ p.numbers # <<>> =>
       /\ Head(p.numbers) \in 1 .. n /\ (p.older <=> Head(p.numbers) > 1)
       /\ \A i \in DOMAIN p.numbers : p.numbers[i] >= Head(p.numbers)

RequestOK(m) ==
  /\ m.kind \in {"list", "new", "open", "older", "send"}
  /\ m.kind = "open" => m.conv \in born
  /\ m.kind = "older" =>
       /\ m.conv \in Conv /\ m.before \in 2 .. Len(turns[m.conv])
       /\ m.showing \in 0 .. showing /\ (m.showing = showing => m.conv = current)
  /\ m.kind = "send" => m.text \in 1 .. Len(typed)

SignalOK(m) ==
  /\ m.kind \in {"listed", "opened", "older", "started", "finished", "failed", "recovered"}
  /\ m.kind = "opened" => m.conv \in born /\ PageOK(m.page, Len(turns[m.conv]))
  /\ m.kind = "older" =>
       /\ m.conv \in Conv /\ PageOK(m.page, Len(turns[m.conv])) /\ m.page.numbers # <<>>
       /\ m.showing \in 0 .. showing /\ (m.showing = showing => m.conv = current)
  /\ m.kind \in {"started", "finished", "failed", "recovered"} => m.text \in 1 .. Len(typed)

JobOK ==
  \/ job.kind = "idle"
  \/ RequestOK(job) /\ (job.kind = "open" => service = job.conv)
  \/ job.kind \in {"stream", "recover"} /\ job.text \in 1 .. Len(typed) /\ service # None

QueuesOK ==
  /\ IsSeq(requests) /\ IsSeq(told) /\ IsSeq(shown)
  /\ typed \in Seq([conv : Conv, settled : BOOLEAN]) /\ Len(typed) <= MaxTexts
  /\ \A m \in Elems(requests) : RequestOK(m)
  /\ \A m \in Elems(told) : SignalOK(m)
  /\ JobOK
  /\ service # None => service \in born
  /\ current \in born

(* What the window shows.                                                  *)
ShownTurns(q) == {m \in Elems(q) : m.kind = "turn"}
WindowOK ==
  /\ hasOlder => oldest \in 2 .. Len(turns[current])
  /\ \A m \in ShownTurns(shown) : /\ m.conv = current /\ m.number \in Nat
                                  /\ crossed \/ m.number >= oldest
  /\ ShownTurns(shown) # {} =>
       (\E m \in ShownTurns(shown) : m.number = oldest) /\ (hasOlder <=> oldest > 1)
  /\ ShownTurns(shown) = {} => ~hasOlder

(* The older pages asked for in this showing of the Conversation come in   *)
(* the order asked: each starts at or before the oldest Turn shown by      *)
(* then, and not before what its next page would start with.               *)
FirstOf(b) == IF b > PageSize THEN b - PageSize ELSE 1
Pending(m, n) == m.kind = "older" /\ m.showing = n
SignalStart(m) == Head(m.page.numbers)
RequestStart(m) == FirstOf(m.before)
Near(h, o) == h <= o /\ FirstOf(o) <= h
SignalsDown(q, n) ==
  \A i, j \in DOMAIN q : i < j /\ Pending(q[i], n) /\ Pending(q[j], n) => SignalStart(q[j]) <= SignalStart(q[i])
RequestsDown(q, n) ==
  \A i, j \in DOMAIN q : i < j /\ Pending(q[i], n) /\ Pending(q[j], n) => RequestStart(q[j]) <= RequestStart(q[i])
OrderOK ==
  ~crossed =>
    /\ \A m \in Elems(told) : Pending(m, showing) => Near(SignalStart(m), oldest)
    /\ \A m \in Elems(requests) : Pending(m, showing) => Near(RequestStart(m), oldest)
    /\ Pending(job, showing) => Near(RequestStart(job), oldest)
    /\ SignalsDown(told, showing) /\ RequestsDown(requests, showing)
    /\ \A m \in Elems(told) : \A n \in Elems(requests) :
         Pending(m, showing) /\ Pending(n, showing) => RequestStart(n) <= SignalStart(m)
    /\ \A m \in Elems(told) : Pending(m, showing) /\ Pending(job, showing) => RequestStart(job) <= SignalStart(m)
    /\ \A n \in Elems(requests) :
         Pending(n, showing) /\ Pending(job, showing) => RequestStart(n) <= RequestStart(job)

(* The Conversation the worker sends texts to: that of the last opening    *)
(* the window has not handled, or else the one the window names.           *)
LastOpened(q, c) ==
  \A i \in DOMAIN q :
    q[i].kind = "opened" /\ (\A j \in DOMAIN q : j > i => q[j].kind # "opened") => q[i].conv = c
Listing == job.kind = "list" \/ \E m \in Elems(requests) : m.kind = "list"
ServiceOK ==
  /\ \A i \in DOMAIN requests : requests[i].kind = "list" => i = 1 /\ job.kind = "idle"
  /\ Listing => told = <<>> /\ ~restored /\ service = None
  /\ (\E m \in Elems(told) : m.kind = "opened") => service # None
  /\ service = None /\ ~lost =>
       \/ Listing
       \/ ~restored /\ \E m \in Elems(told) : m.kind = "listed"
       \/ \E m \in Elems(requests) : m.kind = "open"
  /\ service # None /\ ~lost /\ job.kind # "open" =>
       /\ (\A m \in Elems(told) : m.kind # "opened") => service = current
       /\ LastOpened(told, service)

(* A text sent by a settled window waits behind nothing that opens a       *)
(* Conversation.                                                           *)
Quiet(q, T) ==
  \A i \in DOMAIN q : q[i].kind = "send" /\ T[q[i].text].settled =>
    \A j \in DOMAIN q : j < i => ~Opening(q[j])
TextOK ==
  /\ Quiet(requests, typed)
  /\ \A m \in Elems(requests) : m.kind = "send" /\ typed[m.text].settled =>
       service = typed[m.text].conv /\ ~Opening(job)
  /\ job.kind \in {"send", "stream"} /\ typed[job.text].settled => service = typed[job.text].conv
  /\ \A k \in Text : went[k] # None => k \in DOMAIN typed
  /\ TextGoesWhereShown

(* What the flags of a stream tell of all that was heard.                  *)
Early(h) == \A i \in DOMAIN h : h[i] \in {"delta", "tool"}
Spoilt(h) == \E i \in DOMAIN h : h[i] = "foreign" \/ (i < Len(h) /\ h[i] \in {"completed", "failed"})
Ended(h, how) == /\ h # <<>> /\ h[Len(h)] = how
                 /\ \A i \in 1 .. (Len(h) - 1) : h[i] \in {"delta", "tool"}
Flags == [invalid : BOOLEAN, tool : BOOLEAN, terminal : {"none", "completed", "failed"}]
StreamFits(s, h) ==
  /\ h \in Seq(Events) /\ s \in Flags
  /\ s.invalid => Spoilt(h)
  /\ ~s.invalid => (s.tool <=> \E i \in DOMAIN h : h[i] = "tool")
  /\ ~s.invalid /\ s.terminal = "none" => Early(h)
  /\ ~s.invalid /\ s.terminal # "none" => Ended(h, s.terminal)
StreamOK ==
  job.kind = "stream" =>
    /\ job = [kind |-> "stream", text |-> job.text, stream |-> job.stream, heard |-> job.heard]
    /\ StreamFits(job.stream, job.heard)

PageInv ==
  /\ PageTypeOK /\ QueuesOK /\ WindowOK /\ OrderOK /\ ServiceOK /\ TextOK /\ StreamOK

LEMMA StreamBegins == StreamFits(Unheard, <<>>)
<1>1. Unheard \in Flags /\ ~Unheard.invalid /\ ~Unheard.tool /\ Unheard.terminal = "none"
  BY DEF Unheard, Flags
<1> QED
  BY <1>1 DEF StreamFits, Early

LEMMA HearFits ==
  ASSUME NEW s, NEW h, StreamFits(s, h), NEW e \in Events
  PROVE  StreamFits(Hear(s, e), Append(h, e))
<1>1. h \in Seq(Events) /\ s \in Flags
  BY DEF StreamFits
<1>2. PICK g \in Seq(Events) : g = Append(h, e)
  BY <1>1, AppendProperties
<1>3. /\ Len(h) \in Nat /\ DOMAIN h = 1 .. Len(h) /\ DOMAIN g = 1 .. (Len(h) + 1) /\ Len(g) = Len(h) + 1
      /\ \A i \in 1 .. Len(h) : g[i] = h[i]
      /\ g[Len(h) + 1] = e
  BY <1>1, <1>2, AppendProperties
<1>4. g # <<>> /\ (\A i \in 1 .. (Len(h) + 1) : i \in 1 .. Len(h) \/ i = Len(h) + 1)
  BY <1>3
<1>5. /\ s.invalid \in BOOLEAN /\ s.tool \in BOOLEAN /\ s.terminal \in {"none", "completed", "failed"}
  BY <1>1 DEF Flags
<1>6. Hear(s, e) \in Flags
  BY <1>1 DEF Hear, Flags, Breach, Events
<1>7. CASE s.invalid
  <2>1. Hear(s, e).invalid
    BY <1>1, <1>5, <1>7 DEF Hear, Breach, Flags
  <2>2. Spoilt(g)
    <3>1. PICK i \in 1 .. Len(h) : h[i] = "foreign" \/ (i < Len(h) /\ h[i] \in {"completed", "failed"})
      BY <1>3, <1>7 DEF StreamFits, Spoilt
    <3>2. i \in 1 .. (Len(h) + 1) /\ (i < Len(h) => i < Len(h) + 1)
      BY <1>3, <3>1
    <3> QED
      BY <1>3, <3>1, <3>2 DEF Spoilt
  <2> QED
    BY <1>2, <1>6, <2>1, <2>2 DEF StreamFits
<1>8. CASE ~s.invalid /\ Breach(s, e)
  <2>1. Hear(s, e).invalid
    BY <1>1, <1>8 DEF Hear, Flags
  <2>2. Spoilt(g)
    <3>1. CASE e = "foreign"
      BY <1>3, <3>1 DEF Spoilt
    <3>2. CASE s.terminal # "none"
      <4>1. h # <<>> /\ h[Len(h)] \in {"completed", "failed"}
        BY <1>5, <1>8, <3>2 DEF StreamFits, Ended
      <4>2. Len(h) \in 1 .. (Len(h) + 1) /\ Len(h) \in 1 .. Len(h) /\ Len(h) < Len(h) + 1
        BY <1>1, <1>3, <4>1, EmptySeq
      <4> QED
        BY <1>3, <4>1, <4>2 DEF Spoilt
    <3> QED
      BY <1>8, <3>1, <3>2 DEF Breach
  <2> QED
    BY <1>2, <1>6, <2>1, <2>2 DEF StreamFits
<1>9. CASE ~s.invalid /\ ~Breach(s, e)
  <2>1. /\ s.terminal = "none" /\ e # "foreign" /\ Early(h)
        /\ s.tool <=> \E i \in DOMAIN h : h[i] = "tool"
    BY <1>9 DEF Breach, StreamFits
  <2>2. CASE e \in {"completed", "failed"}
    <3>1. /\ Hear(s, e).terminal = e /\ ~Hear(s, e).invalid /\ Hear(s, e).tool = s.tool
      BY <1>1, <1>9, <2>2 DEF Hear, Flags
    <3>2. Ended(g, e)
      BY <1>3, <1>4, <2>1 DEF Ended, Early
    <3>3. s.tool <=> \E i \in DOMAIN g : g[i] = "tool"
      BY <1>3, <1>4, <2>1, <2>2
    <3> QED
      BY <1>2, <1>6, <2>2, <3>1, <3>2, <3>3 DEF StreamFits
  <2>3. CASE e = "tool"
    <3>1. /\ Hear(s, e).terminal = "none" /\ ~Hear(s, e).invalid /\ Hear(s, e).tool
      BY <1>1, <1>9, <2>1, <2>3 DEF Hear, Flags
    <3>2. Early(g) /\ \E i \in DOMAIN g : g[i] = "tool"
      BY <1>3, <1>4, <2>1, <2>3 DEF Early
    <3> QED
      BY <1>2, <1>6, <3>1, <3>2 DEF StreamFits
  <2>4. CASE e = "delta"
    <3>1. /\ Hear(s, e).terminal = "none" /\ ~Hear(s, e).invalid /\ Hear(s, e).tool = s.tool
      BY <1>1, <1>9, <2>1, <2>4 DEF Hear, Flags
    <3>2. Early(g)
      BY <1>3, <1>4, <2>1, <2>4 DEF Early
    <3>3. s.tool <=> \E i \in DOMAIN g : g[i] = "tool"
      BY <1>3, <1>4, <2>1, <2>4
    <3> QED
      BY <1>2, <1>6, <3>1, <3>2, <3>3 DEF StreamFits
  <2> QED
    BY <2>1, <2>2, <2>3, <2>4 DEF Events
<1> QED
  BY <1>5, <1>7, <1>8, <1>9

(* The flags amount to the contract of the whole stream.                   *)
LEMMA EndFits ==
  ASSUME NEW s, NEW h, StreamFits(s, h)
  PROVE  /\ TurnStatus(s, FALSE) = "COMPLETED" <=> Whole(h)
         /\ TurnStatus(s, TRUE) = "FAILED"
         /\ \A raised \in BOOLEAN : TurnStatus(s, raised) \in {"COMPLETED", "FAILED"}
<1>1. /\ h \in Seq(Events) /\ s.invalid \in BOOLEAN /\ s.tool \in BOOLEAN
      /\ s.terminal \in {"none", "completed", "failed"}
      /\ Len(h) \in Nat /\ DOMAIN h = 1 .. Len(h) /\ (h # <<>> => Len(h) > 0)
  BY EmptySeq DEF StreamFits, Flags
<1>6. \A n \in Nat : \A i \in 1 .. n : i = n \/ (i \in 1 .. (n - 1) /\ i < n)
  OBVIOUS
<1>2. ASSUME s.invalid PROVE ~Whole(h)
  <2>1. PICK i \in 1 .. Len(h) : h[i] = "foreign" \/ (i < Len(h) /\ h[i] \in {"completed", "failed"})
    BY <1>1, <1>2 DEF StreamFits, Spoilt
  <2>2. i = Len(h) \/ (i \in 1 .. (Len(h) - 1) /\ i < Len(h))
    BY <1>1, <1>6, <2>1
  <2>3. CASE i = Len(h)
    BY <1>1, <2>1, <2>3 DEF Whole
  <2>4. CASE i \in 1 .. (Len(h) - 1)
    BY <2>1, <2>4 DEF Whole
  <2> QED
    BY <2>2, <2>3, <2>4
<1>3. ASSUME ~s.invalid, s.terminal = "none" PROVE ~Whole(h)
  BY <1>1, <1>3 DEF StreamFits, Early, Whole
<1>4. ASSUME ~s.invalid, s.terminal = "failed" PROVE ~Whole(h)
  BY <1>4 DEF StreamFits, Ended, Whole
<1>5. ASSUME ~s.invalid, s.terminal = "completed" PROVE ~s.tool <=> Whole(h)
  <2>1. /\ h # <<>> /\ h[Len(h)] = "completed" /\ \A i \in 1 .. (Len(h) - 1) : h[i] \in {"delta", "tool"}
        /\ s.tool <=> \E i \in 1 .. Len(h) : h[i] = "tool"
    BY <1>1, <1>5 DEF StreamFits, Ended
  <2>2. \A i \in 1 .. Len(h) : i = Len(h) \/ i \in 1 .. (Len(h) - 1)
    BY <1>1, <1>6
  <2>3. \A i \in 1 .. (Len(h) - 1) : i \in 1 .. Len(h)
    BY <1>1
  <2> QED
    BY <2>1, <2>2, <2>3 DEF Whole
<1> QED
  BY <1>1, <1>2, <1>3, <1>4, <1>5 DEF TurnStatus
(* A page of the Core.                                                     *)
LEMMA PageFacts ==
  ASSUME NEW c, Len(turns[c]) \in Nat, NEW b \in 1 .. (Len(turns[c]) + 1)
  PROVE  /\ PageOK(Page(c, b), Len(turns[c]))
         /\ b >= 2 => Page(c, b).numbers # <<>> /\ Head(Page(c, b).numbers) = FirstOf(b)
<1>1. PageSize \in Nat /\ PageSize > 0
  BY DesktopConversationAssumption DEF DesktopConversationAssumption
<1>2. PICK last \in Nat : last = b - 1
  OBVIOUS
<1>3. Least(b - 1, Len(turns[c])) = last
  BY <1>2 DEF Least
<1>4. PICK size \in Nat : size = Least(PageSize, last)
  BY <1>1, <1>2 DEF Least
<1>5. size <= last /\ size <= PageSize /\ (size = 0 => last = 0) /\ (size # last => size = PageSize)
  BY <1>1, <1>2, <1>4 DEF Least
<1> DEFINE ns == [i \in 1 .. size |-> last - size + i]
<1>6. Page(c, b) = [numbers |-> ns, older |-> last > size]
  BY <1>2, <1>3, <1>4 DEF Page
<1>7. ns \in [1 .. size -> Nat] /\ (\A i \in 1 .. size : ns[i] = last - size + i /\ ns[i] >= last - size + 1)
  BY <1>2, <1>4, <1>5
<1>8. ns \in Seq(Nat) /\ DOMAIN ns = 1 .. size
  <2>1. DOMAIN ns = 1 .. size
    BY <1>7
  <2>2. \E k \in Nat : ns \in [1 .. k -> Nat]
    BY <1>4, <1>7
  <2> QED
    BY <2>1, <2>2, SeqDef
<1> HIDE DEF ns
<1>9. Page(c, b).numbers = ns /\ (Page(c, b).older <=> last > size) /\ Page(c, b).older \in BOOLEAN
  <2>1. CASE last > size
    <3>1. Page(c, b) = [numbers |-> ns, older |-> TRUE]
      BY <1>6, <2>1
    <3> QED
      BY <2>1, <3>1
  <2>2. CASE ~(last > size)
    <3>1. (last > size) = FALSE
      BY <2>2
    <3>2. Page(c, b) = [numbers |-> ns, older |-> FALSE]
      BY <1>6, <3>1
    <3> QED
      BY <2>2, <3>2
  <2> QED
    BY <2>1, <2>2
<1>10. CASE size = 0
  <2>1. ns = <<>>
    <3>1. Len(ns) \in Nat /\ 1 \notin 1 .. Len(ns)
      BY <1>8, <1>10, LenProperties
    <3>2. Len(ns) = 0
      BY <3>1
    <3> QED
      BY <1>8, <3>2, EmptySeq
  <2> QED
    BY <1>2, <1>5, <1>8, <1>9, <1>10, <2>1 DEF PageOK
<1>11. CASE size # 0
  <2>1. 1 \in DOMAIN ns
    BY <1>4, <1>8, <1>11
  <2>2. ns # <<>>
    BY <2>1
  <2>3. Head(ns) = ns[1]
    BY <1>8, <2>2, HeadTailProperties
  <2>4. Head(ns) = last - size + 1 /\ Head(ns) \in Nat
    BY <1>2, <1>4, <1>5, <1>7, <1>8, <2>1, <2>3
  <2>5. Head(ns) \in 1 .. Len(turns[c]) /\ (last > size <=> Head(ns) > 1)
    BY <1>2, <1>4, <1>5, <1>11, <2>4
  <2>6. \A i \in DOMAIN ns : ns[i] >= Head(ns)
    BY <1>7, <1>8, <2>4
  <2>7. Head(ns) = FirstOf(b)
    BY <1>1, <1>2, <1>4, <1>5, <2>4 DEF FirstOf, Least
  <2> QED
    BY <1>8, <1>9, <2>2, <2>5, <2>6, <2>7 DEF PageOK
<1> QED
  BY <1>10, <1>11

(* The Turns of a page, as the list shows them.                            *)
LEMMA RenderedFacts ==
  ASSUME NEW c, NEW p, NEW n \in Nat, PageOK(p, n)
  PROVE  /\ IsSeq(Rendered(c, p))
         /\ \A m \in Elems(Rendered(c, p)) : /\ m.kind = "turn" /\ m.conv = c /\ m.number \in Nat
                                             /\ p.numbers # <<>> /\ m.number >= Head(p.numbers)
         /\ p.numbers # <<>> =>
              \E m \in Elems(Rendered(c, p)) : m.kind = "turn" /\ m.number = Head(p.numbers)
<1>1. PICK ns \in Seq(Nat) : ns = p.numbers
  BY DEF PageOK
<1>2. Len(ns) \in Nat /\ DOMAIN ns = 1 .. Len(ns) /\ \A i \in DOMAIN ns : ns[i] \in Nat
  BY <1>1
<1> DEFINE r == Rendered(c, p)
           E(x) == [kind |-> "turn", conv |-> c, number |-> x]
<1>3. DOMAIN r = 1 .. Len(ns) /\ \A i \in 1 .. Len(ns) : r[i] = E(ns[i])
  BY <1>1, <1>2 DEF Rendered
<1>4. r = [i \in 1 .. Len(ns) |-> r[i]]
  BY <1>1, <1>2 DEF Rendered
<1> HIDE DEF r
<1>5. IsSeq(r)
  <2>1. r \in [1 .. Len(ns) -> Elems(r)]
    BY <1>3, <1>4 DEF Elems
  <2> QED
    BY <1>2, <2>1, SeqDef DEF IsSeq
<1>6. ASSUME NEW m \in Elems(r)
      PROVE  m.kind = "turn" /\ m.conv = c /\ m.number \in Nat /\ ns # <<>> /\ m.number >= Head(ns)
  <2>1. PICK i \in 1 .. Len(ns) : m = E(ns[i])
    BY <1>3, <1>6 DEF Elems
  <2>2. ns # <<>> /\ ns[i] \in Nat
    BY <1>2, <2>1
  <2>3. ns[i] >= Head(ns)
    BY <1>1, <1>2, <2>1, <2>2 DEF PageOK
  <2> QED
    BY <2>1, <2>2, <2>3
<1>7. ASSUME ns # <<>> PROVE \E m \in Elems(r) : m.kind = "turn" /\ m.number = Head(ns)
  <2>1. 1 \in 1 .. Len(ns) /\ Head(ns) = ns[1]
    BY <1>2, <1>7, EmptySeq, HeadTailProperties
  <2>2. E(Head(ns)) \in Elems(r)
    BY <1>3, <2>1 DEF Elems
  <2> QED
    BY <2>2
<1> QED
  BY <1>1, <1>5, <1>6, <1>7 DEF r
(* What no step takes back, and what holds while the Conversation on the   *)
(* page is not opened again.                                               *)
Grows ==
  /\ born \subseteq born' /\ born' \subseteq Conv
  /\ \A c \in Conv : Len(turns[c]) \in Nat /\ Len(turns'[c]) \in Nat /\ Len(turns[c]) <= Len(turns'[c])
  /\ Len(typed) \in Nat /\ Len(typed') \in Nat /\ Len(typed) <= Len(typed')
Stays ==
  /\ showing \in Nat /\ showing' \in Nat /\ showing <= showing'
  /\ showing' = showing => current' = current

LEMMA PageGrows ==
  ASSUME NEW m \in Nat, NEW n \in Nat, m <= n
  PROVE  \A p : PageOK(p, m) => PageOK(p, n)
BY DEF PageOK

LEMMA RequestKept ==
  ASSUME Grows, Stays
  PROVE  \A m : RequestOK(m) => RequestOK(m)'
<1> SUFFICES ASSUME NEW m, RequestOK(m) PROVE RequestOK(m)'
  OBVIOUS
<1>1. m.kind = "older" =>
        /\ m.conv \in Conv /\ m.before \in 2 .. Len(turns'[m.conv])
        /\ m.showing \in 0 .. showing' /\ (m.showing = showing' => m.conv = current')
  BY DEF RequestOK, Grows, Stays
<1>2. m.kind = "send" => m.text \in 1 .. Len(typed')
  BY DEF RequestOK, Grows
<1>3. m.kind = "open" => m.conv \in born'
  BY DEF RequestOK, Grows
<1> QED
  BY <1>1, <1>2, <1>3 DEF RequestOK

LEMMA SignalKept ==
  ASSUME Grows, Stays
  PROVE  \A m : SignalOK(m) => SignalOK(m)'
<1> SUFFICES ASSUME NEW m, SignalOK(m) PROVE SignalOK(m)'
  OBVIOUS
<1>1. m.kind = "older" =>
        /\ m.conv \in Conv /\ PageOK(m.page, Len(turns'[m.conv])) /\ m.page.numbers # <<>>
        /\ m.showing \in 0 .. showing' /\ (m.showing = showing' => m.conv = current')
  BY PageGrows DEF SignalOK, Grows, Stays
<1>2. m.kind = "opened" => m.conv \in born' /\ PageOK(m.page, Len(turns'[m.conv]))
  BY PageGrows DEF SignalOK, Grows
<1>3. m.kind \in {"started", "finished", "failed", "recovered"} => m.text \in 1 .. Len(typed')
  BY DEF SignalOK, Grows
<1> QED
  BY <1>1, <1>2, <1>3 DEF SignalOK

LEMMA QueuesKept ==
  ASSUME QueuesOK, Grows, Stays,
         IsSeq(requests'), IsSeq(told'), IsSeq(shown'),
         typed' \in Seq([conv : Conv, settled : BOOLEAN]), Len(typed') <= MaxTexts,
         \A m \in Elems(requests') : m \in Elems(requests) \/ RequestOK(m)',
         \A m \in Elems(told') : m \in Elems(told) \/ SignalOK(m)',
         JobOK', service' # None => service' \in born', current' \in born'
  PROVE  QueuesOK'
<1>1. \A m \in Elems(requests') : RequestOK(m)'
  BY RequestKept DEF QueuesOK
<1>2. \A m \in Elems(told') : SignalOK(m)'
  BY SignalKept DEF QueuesOK
<1> QED
  BY <1>1, <1>2 DEF QueuesOK

(* A job that is not changed stays what it is.                             *)
LEMMA JobKept ==
  ASSUME JobOK, Grows, Stays, job' = job, service' = service
  PROVE  JobOK'
<1>1. CASE job.kind = "idle"
  BY <1>1 DEF JobOK
<1>2. CASE RequestOK(job) /\ (job.kind = "open" => service = job.conv)
  <2>1. PICK m : m = job
    OBVIOUS
  <2>2. RequestOK(m)'
    BY <1>2, <2>1, RequestKept
  <2>3. RequestOK(job)'
    BY <2>1, <2>2 DEF RequestOK
  <2> QED
    BY <1>2, <2>3 DEF JobOK
<1>3. CASE job.kind \in {"stream", "recover"} /\ job.text \in 1 .. Len(typed) /\ service # None
  BY <1>3 DEF JobOK, Grows
<1> QED
  BY <1>1, <1>2, <1>3 DEF JobOK

LEMMA WindowKept ==
  ASSUME WindowOK, Grows, current \in Conv, current' = current, oldest' = oldest, hasOlder' = hasOlder,
         crossed' = crossed, ShownTurns(shown') = ShownTurns(shown)
  PROVE  WindowOK'
<1>1. hasOlder' => oldest' \in 2 .. Len(turns'[current'])
  BY DEF WindowOK, Grows
<1> QED
  BY <1>1 DEF WindowOK

(* A queue that gives its head, or takes something else than older Turns.  *)
LEMMA OlderKept ==
  ASSUME NEW q, NEW r, NEW n, IsSeq(q),
         r = q \/ (q # <<>> /\ r = Tail(q)) \/ (\E x : x.kind # "older" /\ r = Append(q, x))
  PROVE  /\ IsSeq(r)
         /\ \A m \in Elems(r) : Pending(m, n) => m \in Elems(q)
         /\ SignalsDown(q, n) => SignalsDown(r, n)
         /\ RequestsDown(q, n) => RequestsDown(r, n)
<1>1. CASE r = q
  BY <1>1
<1>2. CASE q # <<>> /\ r = Tail(q)
  <2>1. /\ IsSeq(r) /\ Elems(r) \subseteq Elems(q)
        /\ \A i \in DOMAIN r : i \in Nat /\ i > 0 /\ i + 1 \in DOMAIN q /\ r[i] = q[i + 1]
    BY <1>2, TailFacts
  <2>2. \A i, j \in DOMAIN r : i < j => i + 1 < j + 1
    BY <2>1
  <2>3. SignalsDown(q, n) => SignalsDown(r, n)
    BY <2>1, <2>2 DEF SignalsDown
  <2>4. RequestsDown(q, n) => RequestsDown(r, n)
    BY <2>1, <2>2 DEF RequestsDown
  <2> QED
    BY <2>1, <2>3, <2>4
<1>3. CASE \E x : x.kind # "older" /\ r = Append(q, x)
  <2>1. PICK x : x.kind # "older" /\ r = Append(q, x)
    BY <1>3
  <2>2. /\ IsSeq(r) /\ Elems(r) = Elems(q) \cup {x}
        /\ \A i \in DOMAIN r : i # Len(q) + 1 => i \in DOMAIN q
        /\ \A i \in DOMAIN q : r[i] = q[i] /\ i \in Nat /\ i < Len(q) + 1
        /\ r[Len(q) + 1] = x
    BY <2>1, AppendFacts
  <2>3. ~Pending(x, n)
    BY <2>1 DEF Pending
  <2>4. SignalsDown(q, n) => SignalsDown(r, n)
    BY <2>2, <2>3 DEF SignalsDown
  <2>5. RequestsDown(q, n) => RequestsDown(r, n)
    BY <2>2, <2>3 DEF RequestsDown
  <2> QED
    BY <2>2, <2>3, <2>4, <2>5
<1> QED
  BY <1>1, <1>2, <1>3

LEMMA OrderKept ==
  ASSUME OrderOK, showing' = showing, oldest' = oldest, crossed' = crossed,
         \A m \in Elems(told') : Pending(m, showing) => m \in Elems(told),
         \A m \in Elems(requests') : Pending(m, showing) => m \in Elems(requests),
         job' = job \/ job'.kind # "older",
         SignalsDown(told, showing) => SignalsDown(told', showing),
         RequestsDown(requests, showing) => RequestsDown(requests', showing)
  PROVE  OrderOK'
<1> SUFFICES ASSUME ~crossed' PROVE OrderOK'
  BY DEF OrderOK
<1>0. Pending(job', showing) => job' = job
  BY DEF Pending
<1>1. /\ \A m \in Elems(told') : Pending(m, showing) => Near(SignalStart(m), oldest)
      /\ \A m \in Elems(requests') : Pending(m, showing) => Near(RequestStart(m), oldest)
      /\ Pending(job', showing) => Near(RequestStart(job'), oldest)
  BY <1>0 DEF OrderOK
<1>2. SignalsDown(told', showing) /\ RequestsDown(requests', showing)
  BY DEF OrderOK
<1>3. /\ \A m \in Elems(told') : \A n \in Elems(requests') :
           Pending(m, showing) /\ Pending(n, showing) => RequestStart(n) <= SignalStart(m)
      /\ \A m \in Elems(told') :
           Pending(m, showing) /\ Pending(job', showing) => RequestStart(job') <= SignalStart(m)
      /\ \A n \in Elems(requests') :
           Pending(n, showing) /\ Pending(job', showing) => RequestStart(n) <= RequestStart(job')
  BY <1>0 DEF OrderOK
<1> QED
  BY <1>1, <1>2, <1>3 DEF OrderOK

(* The last opening a queue tells of, when none comes or goes.             *)
HasKind(q, kind) == \E m \in Elems(q) : m.kind = kind
LEMMA OpenedKept ==
  ASSUME NEW q, NEW r, IsSeq(q),
         \/ r = q
         \/ q # <<>> /\ Head(q).kind # "opened" /\ r = Tail(q)
         \/ \E x : x.kind # "opened" /\ r = Append(q, x)
  PROVE  /\ HasKind(r, "opened") <=> HasKind(q, "opened")
         /\ \A c : LastOpened(q, c) => LastOpened(r, c)
<1>1. CASE r = q
  BY <1>1
<1>2. CASE q # <<>> /\ Head(q).kind # "opened" /\ r = Tail(q)
  <2>1. /\ Elems(r) \subseteq Elems(q)
        /\ \A m \in Elems(q) : m = Head(q) \/ m \in Elems(r)
        /\ Len(q) \in Nat /\ DOMAIN q = 1 .. Len(q) /\ DOMAIN r = 1 .. (Len(q) - 1)
        /\ \A i \in DOMAIN r : i \in Nat /\ i > 0 /\ i + 1 \in DOMAIN q /\ r[i] = q[i + 1]
    BY <1>2, TailFacts
  <2>2. HasKind(r, "opened") <=> HasKind(q, "opened")
    BY <1>2, <2>1 DEF HasKind
  <2>3. \A i \in DOMAIN r : \A j \in DOMAIN q : j > i + 1 => j - 1 \in DOMAIN r /\ j - 1 > i /\ r[j - 1] = q[j]
    <3>1. \A i \in DOMAIN r : \A j \in DOMAIN q : j > i + 1 => j - 1 \in DOMAIN r /\ j - 1 > i /\ (j - 1) + 1 = j
      <4>1. \A n \in Nat : \A i \in 1 .. (n - 1) : \A j \in 1 .. n :
              j > i + 1 => j - 1 \in 1 .. (n - 1) /\ j - 1 > i /\ (j - 1) + 1 = j
        OBVIOUS
      <4> QED
        BY <2>1, <4>1
    <3> QED
      BY <2>1, <3>1
  <2>4. ASSUME NEW c, LastOpened(q, c), NEW i \in DOMAIN r, r[i].kind = "opened",
               \A j \in DOMAIN r : j > i => r[j].kind # "opened"
        PROVE  r[i].conv = c
    <3>1. i + 1 \in DOMAIN q /\ q[i + 1] = r[i]
      BY <2>1
    <3>2. \A j \in DOMAIN q : j > i + 1 => q[j].kind # "opened"
      BY <2>3, <2>4
    <3> QED
      BY <2>4, <3>1, <3>2 DEF LastOpened
  <2>5. \A c : LastOpened(q, c) => LastOpened(r, c)
    BY <2>4 DEF LastOpened
  <2> QED
    BY <2>2, <2>5
<1>3. CASE \E x : x.kind # "opened" /\ r = Append(q, x)
  <2>1. PICK x : x.kind # "opened" /\ r = Append(q, x)
    BY <1>3
  <2>2. /\ Elems(r) = Elems(q) \cup {x}
        /\ \A i \in DOMAIN r : i # Len(q) + 1 => i \in DOMAIN q
        /\ \A i \in DOMAIN q : i \in DOMAIN r /\ r[i] = q[i]
        /\ r[Len(q) + 1] = x
    BY <2>1, AppendFacts
  <2>3. HasKind(r, "opened") <=> HasKind(q, "opened")
    BY <2>1, <2>2 DEF HasKind
  <2>4. \A c : LastOpened(q, c) => LastOpened(r, c)
    BY <2>1, <2>2 DEF LastOpened
  <2> QED
    BY <2>3, <2>4
<1> QED
  BY <1>1, <1>2, <1>3

(* The last opening is the one just told.                                  *)
LEMMA OpenedLast ==
  ASSUME NEW q, IsSeq(q), NEW x, x.kind = "opened"
  PROVE  LastOpened(Append(q, x), x.conv) /\ HasKind(Append(q, x), "opened")
<1>1. PICK r : r = Append(q, x)
  OBVIOUS
<1>2. /\ Elems(r) = Elems(q) \cup {x}
      /\ \A i \in DOMAIN r : i # Len(q) + 1 => i \in DOMAIN q
      /\ \A i \in DOMAIN q : r[i] = q[i] /\ i < Len(q) + 1
      /\ r[Len(q) + 1] = x /\ Len(q) \in Nat /\ DOMAIN q = 1 .. Len(q)
      /\ DOMAIN r = 1 .. (Len(q) + 1)
  BY <1>1, AppendFacts
<1>3. Len(q) + 1 \in DOMAIN r
  BY <1>2
<1>4. LastOpened(r, x.conv)
  <2>1. ASSUME NEW i \in DOMAIN r, r[i].kind = "opened",
               \A j \in DOMAIN r : j > i => r[j].kind # "opened"
        PROVE  r[i].conv = x.conv
    <3>1. CASE i = Len(q) + 1
      BY <1>2, <3>1
    <3>2. CASE i # Len(q) + 1
      <4>1. Len(q) + 1 > i
        BY <1>2, <3>2
      <4> QED
        BY <1>2, <1>3, <2>1, <4>1
    <3> QED
      BY <3>1, <3>2
  <2> QED
    BY <2>1 DEF LastOpened
<1> QED
  BY <1>1, <1>2, <1>4 DEF HasKind

LEMMA ServiceKept ==
  ASSUME ServiceOK, service' = service, lost' = lost, restored' = restored, current' = current,
         \A i \in DOMAIN requests' : requests'[i].kind = "list" => i = 1 /\ job'.kind = "idle",
         Listing <=> Listing', Listing => told' = told,
         HasKind(told', "opened") <=> HasKind(told, "opened"),
         HasKind(told, "listed") => HasKind(told', "listed"),
         HasKind(requests, "open") => HasKind(requests', "open"),
         job.kind = "open" => job'.kind = "open",
         \A c : LastOpened(told, c) => LastOpened(told', c)
  PROVE  ServiceOK'
<1>1. Listing' => told' = <<>> /\ ~restored' /\ service' = None
  BY DEF ServiceOK
<1>2. (\E m \in Elems(told') : m.kind = "opened") => service' # None
  BY DEF ServiceOK, HasKind
<1>3. service' = None /\ ~lost' =>
       \/ Listing'
       \/ ~restored' /\ \E m \in Elems(told') : m.kind = "listed"
       \/ \E m \in Elems(requests') : m.kind = "open"
  BY DEF ServiceOK, HasKind
<1>4. service' # None /\ ~lost' /\ job'.kind # "open" =>
       /\ (\A m \in Elems(told') : m.kind # "opened") => service' = current'
       /\ LastOpened(told', service')
  BY DEF ServiceOK, HasKind
<1> QED
  BY <1>1, <1>2, <1>3, <1>4 DEF ServiceOK

LEMMA TextKept ==
  ASSUME TextOK, IsSeq(requests), service' = service, typed' = typed, went' = went,
         requests' = requests \/ (\E x : x.kind # "send" /\ requests' = Append(requests, x)),
         Opening(job') => Opening(job),
         job'.kind \in {"send", "stream"} => job.kind \in {"send", "stream"} /\ job'.text = job.text
  PROVE  TextOK'
<1>1. CASE requests' = requests
  BY <1>1 DEF TextOK, TextGoesWhereShown
<1>2. CASE \E x : x.kind # "send" /\ requests' = Append(requests, x)
  <2>1. PICK x : x.kind # "send" /\ requests' = Append(requests, x)
    BY <1>2
  <2>2. /\ Elems(requests') = Elems(requests) \cup {x}
        /\ \A i \in DOMAIN requests' : i # Len(requests) + 1 => i \in DOMAIN requests
        /\ \A i \in DOMAIN requests : requests'[i] = requests[i] /\ i \in Nat /\ i < Len(requests) + 1
        /\ requests'[Len(requests) + 1] = x /\ Len(requests) \in Nat
    BY <2>1, AppendFacts
  <2>3. Quiet(requests', typed')
    <3>1. ASSUME NEW i \in DOMAIN requests', requests'[i].kind = "send", typed[requests'[i].text].settled,
                 NEW j \in DOMAIN requests', j < i
          PROVE  ~Opening(requests'[j])
      <4>1. i \in DOMAIN requests /\ i < Len(requests) + 1 /\ requests'[i] = requests[i]
        BY <2>1, <2>2, <3>1
      <4>2. j # Len(requests) + 1
        BY <2>2, <3>1, <4>1
      <4> QED
        BY <2>2, <3>1, <4>1, <4>2 DEF TextOK, Quiet
    <3> QED
      BY <3>1 DEF Quiet
  <2>4. \A m \in Elems(requests') : m.kind = "send" /\ typed'[m.text].settled =>
          service' = typed'[m.text].conv /\ ~Opening(job')
    BY <2>1, <2>2 DEF TextOK
  <2> QED
    BY <2>3, <2>4 DEF TextOK, TextGoesWhereShown
<1> QED
  BY <1>1, <1>2
LEMMA InvFacts ==
  ASSUME PageInv
  PROVE  /\ PageTypeOK /\ QueuesOK /\ WindowOK /\ OrderOK /\ ServiceOK /\ TextOK /\ StreamOK /\ JobOK
         /\ IsSeq(requests) /\ IsSeq(told) /\ IsSeq(shown)
         /\ turns \in [Conv -> Seq(Text \cup {0})] /\ \A c \in Conv : Len(turns[c]) \in Nat
         /\ typed \in Seq([conv : Conv, settled : BOOLEAN]) /\ Len(typed) \in Nat /\ Len(typed) <= MaxTexts
         /\ DOMAIN typed = 1 .. Len(typed)
         /\ showing \in Nat /\ oldest \in Nat /\ crossed \in BOOLEAN /\ MaxTexts \in Nat
         /\ born \subseteq Conv /\ current \in born /\ current \in Conv /\ None \notin Conv
         /\ service # None => service \in born /\ service \in Conv
<1>1. PageTypeOK /\ QueuesOK /\ WindowOK /\ OrderOK /\ ServiceOK /\ TextOK /\ StreamOK
  BY DEF PageInv
<1>2. turns \in [Conv -> Seq(Text \cup {0})] /\ \A c \in Conv : Len(turns[c]) \in Nat
  BY <1>1 DEF PageTypeOK
<1>3. /\ typed \in Seq([conv : Conv, settled : BOOLEAN]) /\ Len(typed) \in Nat /\ Len(typed) <= MaxTexts
      /\ DOMAIN typed = 1 .. Len(typed)
  BY <1>1 DEF QueuesOK
<1>4. None \notin Conv /\ MaxTexts \in Nat
  BY DesktopConversationAssumption DEF DesktopConversationAssumption
<1> QED
  BY <1>1, <1>2, <1>3, <1>4 DEF PageTypeOK, QueuesOK

(* A step that leaves the Conversations, the texts and the page.           *)
LEMMA NothingGrows ==
  ASSUME PageInv, turns' = turns, born' = born, typed' = typed, showing' = showing, current' = current
  PROVE  Grows /\ Stays
BY InvFacts DEF Grows, Stays

(* The window asks for something.                                          *)
LEMMA AskKeeps ==
  ASSUME PageInv, NEW x, requests' = Append(requests, x), x.kind \in {"open", "new", "older"}, RequestOK(x),
         UNCHANGED <<core, clientWorker, told, current, restored, showing, onPage, typed, went, answered>>,
         row' \in Conv \cup {None},
         x.kind # "older" \/ OrderOK'
  PROVE  PageInv'
<1>0. /\ turns' = turns /\ born' = born /\ turnStatus' = turnStatus /\ job' = job /\ service' = service
      /\ lost' = lost /\ told' = told /\ current' = current /\ restored' = restored /\ showing' = showing
      /\ shown' = shown /\ oldest' = oldest /\ hasOlder' = hasOlder /\ crossed' = crossed
      /\ typed' = typed /\ went' = went /\ answered' = answered
  BY DEF core, clientWorker, onPage
<1>1. /\ Elems(requests') = Elems(requests) \cup {x} /\ IsSeq(requests')
      /\ \A i \in DOMAIN requests' : i # Len(requests) + 1 => i \in DOMAIN requests
      /\ \A i \in DOMAIN requests : requests'[i] = requests[i]
      /\ requests'[Len(requests) + 1] = x
  BY InvFacts, AppendFacts
<1>2. PageTypeOK'
  BY <1>0, InvFacts DEF PageTypeOK
<1>3. Grows /\ Stays
  BY <1>0, NothingGrows
<1>4. QueuesOK'
  <2>1. RequestOK(x)'
    BY <1>3, RequestKept
  <2>2. JobOK'
    BY <1>0, <1>3, JobKept, InvFacts
  <2>3. \A m \in Elems(told') : m \in Elems(told)
    BY <1>0
  <2> QED
    BY <1>0, <1>1, <1>3, <2>1, <2>2, <2>3, InvFacts, QueuesKept
<1>5. WindowOK'
  BY <1>0, <1>3, InvFacts, WindowKept
<1>6. OrderOK'
  <2>1. CASE x.kind # "older"
    <3>1. /\ \A m \in Elems(requests') : Pending(m, showing) => m \in Elems(requests)
          /\ RequestsDown(requests, showing) => RequestsDown(requests', showing)
      BY <2>1, InvFacts, OlderKept
    <3> QED
      BY <1>0, <3>1, InvFacts, OrderKept
  <2> QED
    BY <2>1
<1>7. ServiceOK'
  <2>1. \A i \in DOMAIN requests' : requests'[i].kind = "list" => i = 1 /\ job'.kind = "idle"
    BY <1>0, <1>1, InvFacts DEF ServiceOK
  <2>2. Listing <=> Listing'
    BY <1>0, <1>1 DEF Listing
  <2>3. HasKind(requests, "open") => HasKind(requests', "open")
    BY <1>1 DEF HasKind
  <2> QED
    BY <1>0, <2>1, <2>2, <2>3, InvFacts, ServiceKept
<1>8. TextOK'
  BY <1>0, InvFacts, TextKept
<1>9. StreamOK'
  BY <1>0, InvFacts DEF StreamOK
<1> QED
  BY <1>2, <1>4, <1>5, <1>6, <1>7, <1>8, <1>9 DEF PageInv

(* The worker tells of something, and goes on to the end of the request.   *)
LEMMA TellKeeps ==
  ASSUME PageInv, NEW s, told' = Append(told, s), SignalOK(s), s.kind # "opened",
         job.kind \notin {"idle", "list", "open"}, JobOK',
         job'.kind \in {"idle", "stream", "recover"},
         job'.kind = "stream" => job.kind = "send" /\ job'.text = job.text /\ StreamOK',
         UNCHANGED <<core, requests, service, window, typed, went, answered>>,
         lost' = lost,
         s.kind # "older" \/ OrderOK'
  PROVE  PageInv'
<1>0. /\ turns' = turns /\ born' = born /\ turnStatus' = turnStatus /\ requests' = requests /\ service' = service
      /\ current' = current /\ restored' = restored /\ showing' = showing /\ row' = row
      /\ shown' = shown /\ oldest' = oldest /\ hasOlder' = hasOlder /\ crossed' = crossed
      /\ typed' = typed /\ went' = went /\ answered' = answered
  BY DEF core, window, onPage
<1>1. Elems(told') = Elems(told) \cup {s} /\ IsSeq(told')
  BY InvFacts, AppendFacts
<1>2. PageTypeOK'
  BY <1>0, InvFacts DEF PageTypeOK
<1>3. Grows /\ Stays
  BY <1>0, NothingGrows
<1>4. QueuesOK'
  <2>1. SignalOK(s)'
    BY <1>3, SignalKept
  <2>2. \A m \in Elems(requests') : m \in Elems(requests)
    BY <1>0
  <2> QED
    BY <1>0, <1>1, <1>3, <2>1, <2>2, InvFacts, QueuesKept
<1>5. WindowOK'
  BY <1>0, <1>3, InvFacts, WindowKept
<1>6. OrderOK'
  <2>1. CASE s.kind # "older"
    <3>1. /\ \A m \in Elems(told') : Pending(m, showing) => m \in Elems(told)
          /\ SignalsDown(told, showing) => SignalsDown(told', showing)
      BY <2>1, InvFacts, OlderKept
    <3> QED
      BY <1>0, <3>1, InvFacts, OrderKept
  <2> QED
    BY <2>1
<1>7. ServiceOK'
  <2>1. ~Listing /\ ~Listing' /\ \A i \in DOMAIN requests : requests[i].kind # "list"
    <3>1. \A i \in DOMAIN requests : requests[i].kind # "list"
      BY InvFacts DEF ServiceOK
    <3>2. \A m \in Elems(requests) : m.kind # "list"
      BY <3>1 DEF Elems
    <3> QED
      BY <1>0, <3>1, <3>2 DEF Listing
  <2>2. (HasKind(told', "opened") <=> HasKind(told, "opened")) /\ \A c : LastOpened(told, c) => LastOpened(told', c)
    BY InvFacts, OpenedKept
  <2>3. HasKind(told, "listed") => HasKind(told', "listed")
    BY <1>1 DEF HasKind
  <2> QED
    BY <1>0, <2>1, <2>2, <2>3, InvFacts, ServiceKept
<1>8. TextOK'
  <2>1. ~Opening(job')
    BY DEF Opening
  <2>2. job'.kind \in {"send", "stream"} => job.kind \in {"send", "stream"} /\ job'.text = job.text
    OBVIOUS
  <2> QED
    BY <1>0, <2>1, <2>2, InvFacts, TextKept
<1>9. StreamOK'
  BY DEF StreamOK
<1> QED
  BY <1>2, <1>4, <1>5, <1>6, <1>7, <1>8, <1>9 DEF PageInv

(* The window handles a signal that opens nothing.                         *)
LEMMA HandleKeeps ==
  ASSUME PageInv, told # <<>>, told' = Tail(told), Head(told).kind \notin {"opened", "listed"},
         UNCHANGED <<core, requests, clientWorker, current, row, restored, showing, oldest, hasOlder,
                     crossed, typed, went>>,
         answered' \subseteq DOMAIN typed, IsSeq(shown'), ShownTurns(shown') = ShownTurns(shown)
  PROVE  PageInv'
<1>0. /\ turns' = turns /\ born' = born /\ turnStatus' = turnStatus /\ requests' = requests /\ service' = service
      /\ current' = current /\ restored' = restored /\ showing' = showing /\ row' = row
      /\ oldest' = oldest /\ hasOlder' = hasOlder /\ crossed' = crossed /\ lost' = lost /\ job' = job
      /\ typed' = typed /\ went' = went
  BY DEF core, clientWorker
<1>1. /\ Elems(told') \subseteq Elems(told) /\ IsSeq(told') /\ Head(told) \in Elems(told)
      /\ \A m \in Elems(told) : m = Head(told) \/ m \in Elems(told')
  BY InvFacts, TailFacts
<1>2. PageTypeOK'
  BY <1>0, InvFacts DEF PageTypeOK
<1>3. Grows /\ Stays
  BY <1>0, NothingGrows
<1>4. QueuesOK'
  <2>1. JobOK'
    BY <1>0, <1>3, JobKept, InvFacts
  <2>2. \A m \in Elems(requests') : m \in Elems(requests)
    BY <1>0
  <2> QED
    BY <1>0, <1>1, <1>3, <2>1, <2>2, InvFacts, QueuesKept
<1>5. WindowOK'
  BY <1>0, <1>3, InvFacts, WindowKept
<1>6. OrderOK'
  <2>1. /\ \A m \in Elems(told') : Pending(m, showing) => m \in Elems(told)
        /\ SignalsDown(told, showing) => SignalsDown(told', showing)
    BY InvFacts, OlderKept
  <2> QED
    BY <1>0, <2>1, InvFacts, OrderKept
<1>7. ServiceOK'
  <2>1. ~Listing
    BY InvFacts DEF ServiceOK
  <2>2. (HasKind(told', "opened") <=> HasKind(told, "opened")) /\ \A c : LastOpened(told, c) => LastOpened(told', c)
    BY InvFacts, OpenedKept
  <2>3. HasKind(told, "listed") => HasKind(told', "listed")
    BY <1>1 DEF HasKind
  <2>4. Listing <=> Listing'
    BY <1>0 DEF Listing
  <2>5. \A i \in DOMAIN requests' : requests'[i].kind = "list" => i = 1 /\ job'.kind = "idle"
    BY <1>0, InvFacts DEF ServiceOK
  <2> QED
    BY <1>0, <2>1, <2>2, <2>3, <2>4, <2>5, InvFacts, ServiceKept
<1>8. TextOK'
  BY <1>0, InvFacts, TextKept
<1>9. StreamOK'
  BY <1>0, InvFacts DEF StreamOK
<1> QED
  BY <1>2, <1>4, <1>5, <1>6, <1>7, <1>8, <1>9 DEF PageInv

(* The Core works; the worker and the window do not.                       *)
LEMMA CoreKeeps ==
  ASSUME PageInv, UNCHANGED <<born, requests, service, lost, told, window, typed, answered>>,
         PageTypeOK', \A c \in Conv : Len(turns[c]) <= Len(turns'[c]),
         JobOK', StreamOK', TextOK',
         job'.kind = job.kind, job' = job \/ job.kind # "older"
  PROVE  PageInv'
<1>0. /\ born' = born /\ requests' = requests /\ service' = service /\ told' = told
      /\ current' = current /\ restored' = restored /\ showing' = showing /\ row' = row
      /\ oldest' = oldest /\ hasOlder' = hasOlder /\ crossed' = crossed /\ lost' = lost
      /\ typed' = typed /\ answered' = answered /\ shown' = shown
  BY DEF window, onPage
<1>1. \A c \in Conv : Len(turns'[c]) \in Nat
  BY DEF PageTypeOK
<1>2. Grows /\ Stays
  BY <1>0, <1>1, InvFacts DEF Grows, Stays
<1>3. QueuesOK'
  <2>1. (\A m \in Elems(requests') : m \in Elems(requests)) /\ (\A m \in Elems(told') : m \in Elems(told))
    BY <1>0
  <2> QED
    BY <1>0, <1>2, <2>1, InvFacts, QueuesKept
<1>4. WindowOK'
  BY <1>0, <1>2, InvFacts, WindowKept
<1>5. OrderOK'
  BY <1>0, InvFacts, OrderKept
<1>6. ServiceOK'
  BY <1>0, InvFacts DEF ServiceOK, Listing
<1> QED
  BY <1>3, <1>4, <1>5, <1>6 DEF PageInv
(* Nothing moves that the invariant speaks of, the selected row apart.     *)
LEMMA RowKeeps ==
  ASSUME PageInv, row' \in Conv \cup {None},
         UNCHANGED <<core, requests, clientWorker, told, current, restored, showing, onPage, typed, went, answered>>
  PROVE  PageInv'
<1>0. /\ turns' = turns /\ born' = born /\ turnStatus' = turnStatus /\ job' = job /\ service' = service
      /\ lost' = lost /\ told' = told /\ current' = current /\ restored' = restored /\ showing' = showing
      /\ shown' = shown /\ oldest' = oldest /\ hasOlder' = hasOlder /\ crossed' = crossed
      /\ typed' = typed /\ went' = went /\ answered' = answered /\ requests' = requests
  BY DEF core, clientWorker, onPage
<1>1. PageTypeOK'
  BY <1>0, InvFacts DEF PageTypeOK
<1>2. QueuesOK'
  <2>1. Grows /\ Stays
    BY <1>0, NothingGrows
  <2>2. JobOK'
    BY <1>0, <2>1, JobKept, InvFacts
  <2>3. (\A m \in Elems(requests') : m \in Elems(requests)) /\ (\A m \in Elems(told') : m \in Elems(told))
    BY <1>0
  <2> QED
    BY <1>0, <2>1, <2>2, <2>3, InvFacts, QueuesKept
<1>3. WindowOK'
  BY <1>0, InvFacts DEF WindowOK
<1>4. OrderOK'
  BY <1>0, InvFacts DEF OrderOK
<1>5. ServiceOK'
  BY <1>0, InvFacts DEF ServiceOK, Listing
<1>6. TextOK'
  BY <1>0, InvFacts, TextKept
<1>7. StreamOK'
  BY <1>0, InvFacts DEF StreamOK
<1> QED
  BY <1>1, <1>2, <1>3, <1>4, <1>5, <1>6, <1>7 DEF PageInv

LEMMA JobFacts ==
  ASSUME PageInv
  PROVE  /\ job.kind \in {"list", "open", "older", "new", "send"} =>
              RequestOK(job) /\ (job.kind = "open" => service = job.conv)
         /\ job.kind \in {"stream", "recover"} =>
              job.text \in 1 .. Len(typed) /\ job.text \in Text /\ service \in born /\ service \in Conv /\ service # None
         /\ job.kind = "send" => job.text \in 1 .. Len(typed)
<1>1. /\ job.kind \in {"list", "open", "older", "new", "send"} =>
           RequestOK(job) /\ (job.kind = "open" => service = job.conv)
      /\ job.kind \in {"stream", "recover"} => job.text \in 1 .. Len(typed) /\ service # None
  BY InvFacts DEF JobOK, RequestOK
<1>2. 1 .. Len(typed) \subseteq Text
  BY InvFacts DEF Text
<1> QED
  BY <1>1, <1>2, InvFacts DEF RequestOK

LEMMA SelectKeeps ==
  ASSUME PageInv, NEW c \in Conv, SelectConversation(c)
  PROVE  PageInv'
<1>0. /\ c \in born /\ row' = c
      /\ UNCHANGED <<core, clientWorker, told, current, restored, showing, onPage, typed, went, answered>>
  BY DEF SelectConversation
<1>1. CASE c = current
  BY <1>0, <1>1, RowKeeps DEF SelectConversation
<1>2. CASE c # current
  <2>1. PICK x : x = [kind |-> "open", conv |-> c]
    OBVIOUS
  <2>2. requests' = Append(requests, x)
    BY <1>2, <2>1 DEF SelectConversation, Asks
  <2>3. x.kind = "open" /\ x.conv = c
    BY <2>1
  <2>4. RequestOK(x)
    BY <1>0, <2>3 DEF RequestOK
  <2> QED
    BY <1>0, <2>2, <2>3, <2>4, AskKeeps
<1> QED
  BY <1>1, <1>2

LEMMA NewKeeps ==
  ASSUME PageInv, NewConversation
  PROVE  PageInv'
<1>1. PICK x : x = [kind |-> "new"]
  OBVIOUS
<1>2. requests' = Append(requests, x)
  BY <1>1 DEF NewConversation, Asks
<1>3. x.kind = "new"
  BY <1>1
<1>4. RequestOK(x)
  BY <1>3 DEF RequestOK
<1>5. /\ UNCHANGED <<core, clientWorker, told, current, restored, showing, onPage, typed, went, answered>>
      /\ row' \in Conv \cup {None}
  BY InvFacts DEF NewConversation, window, PageTypeOK
<1> QED
  BY <1>2, <1>3, <1>4, <1>5, AskKeeps

LEMMA FirstFacts ==
  ASSUME NEW o \in Nat, NEW p \in Nat, o <= p, p > 0
  PROVE  FirstOf(p) \in Nat /\ FirstOf(p) <= p /\ FirstOf(o) <= FirstOf(p)
<1>1. PageSize \in Nat /\ PageSize > 0
  BY DesktopConversationAssumption DEF DesktopConversationAssumption
<1> QED
  BY <1>1 DEF FirstOf

LEMMA LoadOlderKeeps ==
  ASSUME PageInv, LoadOlder
  PROVE  PageInv'
<1>1. PICK x : x = [kind |-> "older", conv |-> current, before |-> oldest, showing |-> showing]
  OBVIOUS
<1>2. requests' = Append(requests, x)
  BY <1>1 DEF LoadOlder, Asks
<1>3. x.kind = "older" /\ x.conv = current /\ x.before = oldest /\ x.showing = showing
  BY <1>1
<1>4. hasOlder /\ oldest \in 2 .. Len(turns[current])
  BY InvFacts DEF LoadOlder, WindowOK
<1>5. RequestOK(x)
  <2>1. showing \in 0 .. showing
    BY InvFacts
  <2> QED
    BY <1>3, <1>4, <2>1, InvFacts DEF RequestOK
<1>6. /\ UNCHANGED <<core, clientWorker, told, current, restored, showing, onPage, typed, went, answered>>
      /\ row' \in Conv \cup {None}
  BY InvFacts DEF LoadOlder, window, PageTypeOK
<1>7. OrderOK'
  <2> SUFFICES ASSUME ~crossed' PROVE OrderOK'
    BY DEF OrderOK
  <2>0. told' = told /\ job' = job /\ showing' = showing /\ oldest' = oldest /\ crossed' = crossed
    BY <1>6 DEF clientWorker, onPage
  <2>1. /\ Elems(requests') = Elems(requests) \cup {x}
        /\ \A i \in DOMAIN requests' : i # Len(requests) + 1 => i \in DOMAIN requests
        /\ \A i \in DOMAIN requests : requests'[i] = requests[i] /\ i \in Nat /\ i < Len(requests) + 1
        /\ requests'[Len(requests) + 1] = x /\ Len(requests) \in Nat
    BY <1>2, InvFacts, AppendFacts
  <2>a. \A i \in DOMAIN requests : requests[i] \in Elems(requests)
    BY DEF Elems
  <2>2. RequestStart(x) = FirstOf(oldest) /\ Near(RequestStart(x), oldest)
    <3>1. FirstOf(oldest) \in Nat /\ FirstOf(oldest) <= oldest
      BY <1>4, InvFacts, FirstFacts
    <3> QED
      BY <1>3, <3>1 DEF RequestStart, Near
  <2>3. /\ \A m \in Elems(told) : Pending(m, showing) => RequestStart(x) <= SignalStart(m)
        /\ \A m \in Elems(requests) : Pending(m, showing) => RequestStart(x) <= RequestStart(m)
        /\ Pending(job, showing) => RequestStart(x) <= RequestStart(job)
    BY <2>0, <2>2, InvFacts DEF OrderOK, Near
  <2>4. RequestsDown(requests', showing)
    <3>1. ASSUME NEW i \in DOMAIN requests', NEW j \in DOMAIN requests', i < j,
                 Pending(requests'[i], showing), Pending(requests'[j], showing)
          PROVE  RequestStart(requests'[j]) <= RequestStart(requests'[i])
      <4>1. CASE j = Len(requests) + 1
        <5>1. i \in DOMAIN requests
          BY <2>1, <3>1, <4>1
        <5> QED
          BY <2>a, <2>1, <2>3, <3>1, <4>1, <5>1
      <4>2. CASE j # Len(requests) + 1
        <5>1. j \in DOMAIN requests /\ i \in DOMAIN requests
          BY <2>1, <3>1, <4>2
        <5>2. RequestsDown(requests, showing)
          BY <2>0, InvFacts DEF OrderOK
        <5> QED
          BY <2>1, <3>1, <5>1, <5>2 DEF RequestsDown
      <4> QED
        BY <4>1, <4>2
    <3> QED
      BY <3>1 DEF RequestsDown
  <2>5. /\ \A m \in Elems(told') : Pending(m, showing) => Near(SignalStart(m), oldest)
        /\ \A m \in Elems(requests') : Pending(m, showing) => Near(RequestStart(m), oldest)
        /\ Pending(job', showing) => Near(RequestStart(job'), oldest)
        /\ SignalsDown(told', showing)
    BY <2>0, <2>1, <2>2, InvFacts DEF OrderOK
  <2>6. /\ \A m \in Elems(told') : \A n \in Elems(requests') :
             Pending(m, showing) /\ Pending(n, showing) => RequestStart(n) <= SignalStart(m)
        /\ \A m \in Elems(told') :
             Pending(m, showing) /\ Pending(job', showing) => RequestStart(job') <= SignalStart(m)
        /\ \A n \in Elems(requests') :
             Pending(n, showing) /\ Pending(job', showing) => RequestStart(n) <= RequestStart(job')
    BY <2>0, <2>1, <2>3, InvFacts DEF OrderOK
  <2> QED
    BY <2>0, <2>4, <2>5, <2>6 DEF OrderOK
<1> QED
  BY <1>2, <1>3, <1>5, <1>6, <1>7, AskKeeps

(* The Core alone moves.                                                   *)
LEMMA TurnsKeep ==
  ASSUME PageInv, UNCHANGED <<born, requests, clientWorker, told, window, typed, answered>>,
         PageTypeOK', \A c \in Conv : Len(turns[c]) <= Len(turns'[c]), TextOK'
  PROVE  PageInv'
<1>0. /\ born' = born /\ requests' = requests /\ service' = service /\ told' = told /\ job' = job
      /\ current' = current /\ showing' = showing /\ lost' = lost /\ typed' = typed
      /\ window' = window /\ answered' = answered
  BY DEF window, clientWorker
<1>1. JobOK'
  <2>1. Grows /\ Stays
    BY <1>0, InvFacts DEF Grows, Stays, PageTypeOK
  <2> QED
    BY <1>0, <2>1, InvFacts, JobKept
<1>2. StreamOK'
  BY <1>0, InvFacts DEF StreamOK
<1> QED
  BY <1>0, <1>1, <1>2, CoreKeeps

LEMMA OtherTurnKeeps ==
  ASSUME PageInv, NEW c \in Conv, OtherTurn(c)
  PROVE  PageInv'
<1>0. /\ c \in born /\ turns' = [turns EXCEPT ![c] = Append(@, 0)] /\ born' = born /\ turnStatus' = turnStatus
      /\ UNCHANGED <<requests, clientWorker, told, window, typed, went, answered>>
  BY DEF OtherTurn, typing
<1>00. /\ job' = job /\ service' = service /\ lost' = lost /\ current' = current /\ row' = row
       /\ restored' = restored /\ showing' = showing /\ shown' = shown /\ oldest' = oldest
       /\ hasOlder' = hasOlder /\ crossed' = crossed
  BY <1>0 DEF clientWorker, window, onPage
<1>1. /\ turns' \in [Conv -> Seq(Text \cup {0})]
      /\ \A d \in Conv : Len(turns[d]) <= Len(turns'[d]) /\ (d # c => turns'[d] = turns[d])
  <2>1. turns[c] \in Seq(Text \cup {0}) /\ Append(turns[c], 0) \in Seq(Text \cup {0})
        /\ Len(Append(turns[c], 0)) = Len(turns[c]) + 1
    BY InvFacts, AppendProperties
  <2>2. turns'[c] = Append(turns[c], 0) /\ \A d \in Conv : d # c => turns'[d] = turns[d]
    BY <1>0, InvFacts
  <2>3. turns' \in [Conv -> Seq(Text \cup {0})]
    BY <1>0, <2>1, InvFacts
  <2>4. \A k \in Nat : k <= k + 1 /\ k <= k
    OBVIOUS
  <2>5. \A d \in Conv : Len(turns[d]) \in Nat
    BY InvFacts
  <2>6. \A d \in Conv : Len(turns[d]) <= Len(turns'[d])
    BY <2>1, <2>2, <2>4, <2>5
  <2> QED
    BY <2>2, <2>3, <2>6
<1>2. PageTypeOK'
  <2>1. \A d \in Conv : d \notin born' => turns'[d] = <<>>
    BY <1>0, <1>1, InvFacts DEF PageTypeOK
  <2> QED
    BY <1>0, <1>00, <1>1, <2>1, InvFacts DEF PageTypeOK
<1>3. TextOK'
  BY <1>0, <1>00, InvFacts, TextKept
<1> QED
  BY <1>0, <1>1, <1>2, <1>3, TurnsKeep

LEMMA FinalizeKeeps ==
  ASSUME PageInv, job.kind = "stream", NEW how \in {"PROCESSING", "COMPLETED", "FAILED"}, Finalize(how),
         UNCHANGED <<turns, born, requests, clientWorker, told, window, typing, went, answered>>
  PROVE  PageInv'
<1>0. /\ turns' = turns /\ born' = born /\ typed' = typed /\ requests' = requests
      /\ job' = job /\ service' = service /\ lost' = lost /\ current' = current /\ row' = row
      /\ restored' = restored /\ showing' = showing /\ shown' = shown /\ oldest' = oldest
      /\ hasOlder' = hasOlder /\ crossed' = crossed /\ went' = went /\ answered' = answered
  BY DEF clientWorker, window, onPage, typing
<1>1. turnStatus' \in [Text -> {None, "PROCESSING", "COMPLETED", "FAILED"}]
  BY InvFacts DEF PageTypeOK, Finalize
<1>2. PageTypeOK'
  BY <1>0, <1>1, InvFacts DEF PageTypeOK
<1>3. TextOK'
  BY <1>0, InvFacts, TextKept
<1>4. \A c \in Conv : Len(turns[c]) <= Len(turns'[c])
  BY <1>0, InvFacts
<1>5. UNCHANGED <<born, requests, clientWorker, told, window, typed, answered>>
  BY <1>0
<1> QED
  BY <1>2, <1>3, <1>4, <1>5, TurnsKeep

LEMMA RefuseTurnKeeps ==
  ASSUME PageInv, RefuseTurn
  PROVE  PageInv'
BY FinalizeKeeps DEF RefuseTurn, Streaming

LEMMA EndTurnKeeps ==
  ASSUME PageInv, NEW raised \in BOOLEAN, EndTurn(raised)
  PROVE  PageInv'
<1>1. job.kind = "stream"
  BY DEF EndTurn, Streaming
<1>2. StreamFits(job.stream, job.heard)
  BY <1>1, InvFacts DEF StreamOK
<1>3. TurnStatus(job.stream, raised) \in {"PROCESSING", "COMPLETED", "FAILED"}
  BY DEF TurnStatus
<1> QED
  BY <1>1, <1>3, FinalizeKeeps DEF EndTurn

LEMMA HearProviderKeeps ==
  ASSUME PageInv, NEW e \in Events, HearProvider(e)
  PROVE  PageInv'
<1>1. job.kind = "stream"
  BY DEF HearProvider, Streaming
<1>2. /\ job = [kind |-> "stream", text |-> job.text, stream |-> job.stream, heard |-> job.heard]
      /\ StreamFits(job.stream, job.heard)
  BY <1>1, InvFacts DEF StreamOK
<1>3. /\ job' = [kind |-> "stream", text |-> job.text, stream |-> Hear(job.stream, e),
                 heard |-> Append(job.heard, e)]
  <2>1. PICK t, s, h, g, f : t = job.text /\ s = job.stream /\ h = job.heard /\ g = Hear(job.stream, e)
                             /\ f = Append(job.heard, e)
    OBVIOUS
  <2>2. job = [kind |-> "stream", text |-> t, stream |-> s, heard |-> h]
    BY <1>2, <2>1
  <2>3. job' = [job EXCEPT !.stream = g, !.heard = f]
    BY <2>1 DEF HearProvider
  <2>4. job' = [[kind |-> "stream", text |-> t, stream |-> s, heard |-> h] EXCEPT !.stream = g, !.heard = f]
    BY <2>2, <2>3
  <2>5. job' = [kind |-> "stream", text |-> t, stream |-> g, heard |-> f]
    BY <2>4
  <2> QED
    BY <2>1, <2>5
<1>4. /\ job'.kind = "stream" /\ job'.text = job.text /\ job'.stream = Hear(job.stream, e)
      /\ job'.heard = Append(job.heard, e)
  BY <1>3
<1>5. StreamOK'
  <2>1. StreamFits(job'.stream, job'.heard)
    BY <1>2, <1>4, HearFits
  <2>2. job' = [kind |-> "stream", text |-> job'.text, stream |-> job'.stream, heard |-> job'.heard]
    BY <1>3, <1>4
  <2> QED
    BY <2>1, <2>2 DEF StreamOK
<1>6. /\ turns' = turns /\ born' = born /\ typed' = typed /\ requests' = requests /\ turnStatus' = turnStatus
      /\ service' = service /\ lost' = lost /\ told' = told /\ current' = current /\ row' = row
      /\ restored' = restored /\ showing' = showing /\ shown' = shown /\ oldest' = oldest
      /\ hasOlder' = hasOlder /\ crossed' = crossed /\ went' = went /\ answered' = answered
      /\ window' = window
  BY DEF HearProvider, core, window, onPage, typing
<1>7. JobOK'
  BY <1>1, <1>4, <1>6, JobFacts DEF JobOK
<1>8. PageTypeOK'
  BY <1>6, InvFacts DEF PageTypeOK
<1>9. TextOK'
  BY <1>1, <1>4, <1>6, InvFacts, TextKept DEF Opening
<1>10. \A c \in Conv : Len(turns[c]) <= Len(turns'[c])
  BY <1>6, InvFacts
<1>11. UNCHANGED <<born, requests, service, lost, told, window, typed, answered>>
  BY <1>6
<1> QED
  BY <1>1, <1>4, <1>5, <1>7, <1>8, <1>9, <1>10, <1>11, CoreKeeps

LEMMA StoreTurnKeeps ==
  ASSUME PageInv, StoreTurn
  PROVE  PageInv'
<1>1. job.kind = "stream" /\ job.text \in Text /\ job.text \in 1 .. Len(typed) /\ service \in born /\ service \in Conv
  BY JobFacts DEF StoreTurn, Streaming
<1>0. /\ turns' = [turns EXCEPT ![service] = Append(@, job.text)] /\ born' = born
      /\ went' = [went EXCEPT ![job.text] = service]
      /\ turnStatus' = [turnStatus EXCEPT ![job.text] = "PROCESSING"]
      /\ UNCHANGED <<requests, clientWorker, told, window, typed, answered>>
  BY DEF StoreTurn, typing, Finalize
<1>00. /\ job' = job /\ service' = service /\ lost' = lost /\ current' = current /\ row' = row
       /\ restored' = restored /\ showing' = showing /\ shown' = shown /\ oldest' = oldest
       /\ hasOlder' = hasOlder /\ crossed' = crossed
  BY <1>0 DEF clientWorker, window, onPage
<1>2. /\ turns' \in [Conv -> Seq(Text \cup {0})]
      /\ \A d \in Conv : Len(turns[d]) <= Len(turns'[d]) /\ (d # service => turns'[d] = turns[d])
  <2>1. turns[service] \in Seq(Text \cup {0}) /\ Append(turns[service], job.text) \in Seq(Text \cup {0})
        /\ Len(Append(turns[service], job.text)) = Len(turns[service]) + 1
    BY <1>1, InvFacts, AppendProperties
  <2>2. turns'[service] = Append(turns[service], job.text) /\ \A d \in Conv : d # service => turns'[d] = turns[d]
    BY <1>0, <1>1, InvFacts
  <2>3. turns' \in [Conv -> Seq(Text \cup {0})]
    BY <1>0, <1>1, <2>1, InvFacts
  <2>4. \A k \in Nat : k <= k + 1 /\ k <= k
    OBVIOUS
  <2>5. \A d \in Conv : Len(turns[d]) \in Nat
    BY InvFacts
  <2>6. \A d \in Conv : Len(turns[d]) <= Len(turns'[d])
    BY <1>1, <2>1, <2>2, <2>4, <2>5
  <2> QED
    BY <2>2, <2>3, <2>6
<1>3. /\ went' \in [Text -> Conv \cup {None}] /\ went'[job.text] = service
      /\ \A k \in Text : k # job.text => went'[k] = went[k]
  BY <1>0, <1>1, InvFacts DEF PageTypeOK
<1>4. PageTypeOK'
  <2>1. \A d \in Conv : d \notin born' => turns'[d] = <<>>
    BY <1>0, <1>1, <1>2, InvFacts DEF PageTypeOK
  <2>2. turnStatus' \in [Text -> {None, "PROCESSING", "COMPLETED", "FAILED"}]
    BY <1>0, <1>1, InvFacts DEF PageTypeOK
  <2> QED
    BY <1>0, <1>00, <1>2, <1>3, <2>1, <2>2, InvFacts DEF PageTypeOK
<1>5. TextOK'
  <2>1. \A k \in Text : went'[k] # None => k \in DOMAIN typed'
    BY <1>0, <1>1, <1>3, InvFacts DEF TextOK
  <2>2. TextGoesWhereShown'
    <3>1. ASSUME NEW k \in DOMAIN typed, typed[k].settled, went'[k] # None PROVE went'[k] = typed[k].conv
      <4>1. CASE k = job.text
        BY <1>1, <1>3, <3>1, <4>1, InvFacts DEF TextOK
      <4>2. CASE k # job.text
        <5>1. k \in Text
          BY InvFacts DEF Text
        <5> QED
          BY <1>3, <3>1, <4>2, <5>1, InvFacts DEF TextOK, TextGoesWhereShown
      <4> QED
        BY <4>1, <4>2
    <3> QED
      BY <1>0, <3>1 DEF TextGoesWhereShown
  <2> QED
    BY <1>0, <1>00, <2>1, <2>2, InvFacts DEF TextOK
<1> QED
  BY <1>0, <1>2, <1>4, <1>5, TurnsKeep
LEMMA StartStreamKeeps ==
  ASSUME PageInv, StartStream
  PROVE  PageInv'
<1>1. PICK s : s = [kind |-> "started", text |-> job.text]
  OBVIOUS
<1>2. job.kind = "send" /\ job.text \in 1 .. Len(typed) /\ service # None
  BY JobFacts DEF StartStream
<1>3. told' = Append(told, s)
  BY <1>1 DEF StartStream, Tells
<1>4. SignalOK(s) /\ s.kind = "started"
  BY <1>1, <1>2 DEF SignalOK
<1>5. /\ UNCHANGED <<core, requests, service, window, typed, went, answered>> /\ lost' = lost
      /\ service' = service /\ typed' = typed
  BY DEF StartStream, typing
<1>6. /\ job' = [kind |-> "stream", text |-> job.text, stream |-> Unheard, heard |-> <<>>]
      /\ job'.kind = "stream" /\ job'.text = job.text /\ job'.stream = Unheard /\ job'.heard = <<>>
  BY DEF StartStream
<1>7. StreamOK'
  BY <1>6, StreamBegins DEF StreamOK
<1>8. JobOK'
  BY <1>2, <1>5, <1>6 DEF JobOK
<1> QED
  BY <1>2, <1>3, <1>4, <1>5, <1>6, <1>7, <1>8, TellKeeps

LEMMA FinishStreamKeeps ==
  ASSUME PageInv, FinishStream
  PROVE  PageInv'
<1>1. PICK s : s = [kind |-> "finished", text |-> job.text]
  OBVIOUS
<1>2. job.kind = "stream" /\ job.text \in 1 .. Len(typed)
  BY JobFacts DEF FinishStream, Streaming
<1>3. told' = Append(told, s)
  BY <1>1 DEF FinishStream, Tells
<1>4. SignalOK(s) /\ s.kind = "finished"
  BY <1>1, <1>2 DEF SignalOK
<1>5. UNCHANGED <<core, requests, service, window, typed, went, answered>> /\ lost' = lost
  BY DEF FinishStream, typing
<1>6. job'.kind = "idle"
  BY DEF FinishStream, Ends, Idle
<1>7. JobOK'
  BY <1>6 DEF JobOK
<1> QED
  BY <1>2, <1>3, <1>4, <1>5, <1>6, <1>7, TellKeeps

LEMMA BreakStreamKeeps ==
  ASSUME PageInv, BreakStream
  PROVE  PageInv'
<1>1. PICK s : s = [kind |-> "finished", text |-> job.text]
  OBVIOUS
<1>2. job.kind = "stream" /\ job.text \in 1 .. Len(typed) /\ service # None
  BY JobFacts DEF BreakStream, Streaming
<1>3. told' = Append(told, s)
  BY <1>1 DEF BreakStream, Tells
<1>4. SignalOK(s) /\ s.kind = "finished"
  BY <1>1, <1>2 DEF SignalOK
<1>5. /\ UNCHANGED <<core, requests, service, window, typed, went, answered>> /\ lost' = lost
      /\ service' = service /\ typed' = typed
  BY DEF BreakStream, typing
<1>6. job'.kind = "recover" /\ job'.text = job.text
  BY DEF BreakStream
<1>7. JobOK'
  BY <1>2, <1>5, <1>6 DEF JobOK
<1> QED
  BY <1>2, <1>3, <1>4, <1>5, <1>6, <1>7, TellKeeps

LEMMA RecoverKeeps ==
  ASSUME PageInv, Recover
  PROVE  PageInv'
<1>1. PICK s : s = [kind |-> "recovered", text |-> job.text, conv |-> service, number |-> Len(turns[service])]
  OBVIOUS
<1>2. job.kind = "recover" /\ job.text \in 1 .. Len(typed)
  BY JobFacts DEF Recover
<1>3. told' = Append(told, s)
  BY <1>1 DEF Recover, Tells
<1>4. SignalOK(s) /\ s.kind = "recovered"
  BY <1>1, <1>2 DEF SignalOK
<1>5. UNCHANGED <<core, requests, service, window, typed, went, answered>> /\ lost' = lost
  BY DEF Recover, typing
<1>6. job'.kind = "idle"
  BY DEF Recover, Ends, Idle
<1>7. JobOK'
  BY <1>6 DEF JobOK
<1> QED
  BY <1>2, <1>3, <1>4, <1>5, <1>6, <1>7, TellKeeps

LEMMA LoadOlderTurnsKeeps ==
  ASSUME PageInv, LoadOlderTurns
  PROVE  PageInv'
<1>1. PICK s : s = [kind |-> "older", conv |-> job.conv, page |-> Page(job.conv, job.before),
                    showing |-> job.showing]
  OBVIOUS
<1>2. /\ job.kind = "older" /\ RequestOK(job) /\ job.conv \in Conv /\ job.before \in 2 .. Len(turns[job.conv])
      /\ job.showing \in 0 .. showing /\ (job.showing = showing => job.conv = current)
  BY JobFacts DEF LoadOlderTurns, RequestOK
<1>3. told' = Append(told, s)
  BY <1>1 DEF LoadOlderTurns, Tells
<1>4. /\ s.kind = "older" /\ s.conv = job.conv /\ s.page = Page(job.conv, job.before) /\ s.showing = job.showing
  BY <1>1
<1>5. /\ PageOK(s.page, Len(turns[s.conv])) /\ s.page.numbers # <<>>
      /\ Head(s.page.numbers) = FirstOf(job.before)
  <2>1. Len(turns[job.conv]) \in Nat /\ job.before \in 1 .. (Len(turns[job.conv]) + 1) /\ job.before >= 2
    BY <1>2, InvFacts
  <2> QED
    BY <1>4, <2>1, PageFacts
<1>6. SignalOK(s)
  BY <1>2, <1>4, <1>5 DEF SignalOK
<1>7. UNCHANGED <<core, requests, service, window, typed, went, answered>> /\ lost' = lost
  BY DEF LoadOlderTurns, typing
<1>8. job'.kind = "idle"
  BY DEF LoadOlderTurns, Ends, Idle
<1>9. JobOK'
  BY <1>8 DEF JobOK
<1>10. OrderOK'
  <2> SUFFICES ASSUME ~crossed' PROVE OrderOK'
    BY DEF OrderOK
  <2>0. requests' = requests /\ showing' = showing /\ oldest' = oldest /\ crossed' = crossed
    BY <1>7 DEF window, onPage
  <2>1. /\ Elems(told') = Elems(told) \cup {s}
        /\ \A i \in DOMAIN told' : i # Len(told) + 1 => i \in DOMAIN told
        /\ \A i \in DOMAIN told : told'[i] = told[i] /\ i \in Nat /\ i < Len(told) + 1
        /\ told'[Len(told) + 1] = s /\ Len(told) \in Nat
    BY <1>3, InvFacts, AppendFacts
  <2>2. \A i \in DOMAIN told : told[i] \in Elems(told)
    BY DEF Elems
  <2>3. ~Pending(job', showing)
    BY <1>8 DEF Pending
  <2>4. (Pending(s, showing) <=> Pending(job, showing)) /\ SignalStart(s) = RequestStart(job)
    BY <1>2, <1>4, <1>5 DEF Pending, SignalStart, RequestStart
  <2>5. /\ Pending(s, showing) => Near(SignalStart(s), oldest)
        /\ \A m \in Elems(told) : Pending(m, showing) /\ Pending(s, showing) => SignalStart(s) <= SignalStart(m)
        /\ \A n \in Elems(requests) : Pending(n, showing) /\ Pending(s, showing) => RequestStart(n) <= SignalStart(s)
    BY <2>0, <2>4, InvFacts DEF OrderOK
  <2>6. SignalsDown(told', showing)
    <3>1. ASSUME NEW i \in DOMAIN told', NEW j \in DOMAIN told', i < j,
                 Pending(told'[i], showing), Pending(told'[j], showing)
          PROVE  SignalStart(told'[j]) <= SignalStart(told'[i])
      <4>1. CASE j = Len(told) + 1
        <5>1. i \in DOMAIN told
          BY <2>1, <3>1, <4>1
        <5> QED
          BY <2>1, <2>2, <2>5, <3>1, <4>1, <5>1
      <4>2. CASE j # Len(told) + 1
        <5>1. j \in DOMAIN told /\ i \in DOMAIN told
          BY <2>1, <3>1, <4>2
        <5>2. SignalsDown(told, showing)
          BY <2>0, InvFacts DEF OrderOK
        <5> QED
          BY <2>1, <3>1, <5>1, <5>2 DEF SignalsDown
      <4> QED
        BY <4>1, <4>2
    <3> QED
      BY <3>1 DEF SignalsDown
  <2>7. /\ \A m \in Elems(told') : Pending(m, showing) => Near(SignalStart(m), oldest)
        /\ \A m \in Elems(requests) : Pending(m, showing) => Near(RequestStart(m), oldest)
        /\ RequestsDown(requests, showing)
        /\ \A m \in Elems(told') : \A n \in Elems(requests) :
             Pending(m, showing) /\ Pending(n, showing) => RequestStart(n) <= SignalStart(m)
    BY <2>0, <2>1, <2>5, InvFacts DEF OrderOK
  <2> QED
    BY <2>0, <2>3, <2>6, <2>7 DEF OrderOK
<1> QED
  BY <1>2, <1>3, <1>4, <1>6, <1>7, <1>8, <1>9, <1>10, TellKeeps

(* A call that fails, and tells the window nothing.                        *)
LEMMA FailCallKeeps ==
  ASSUME PageInv, FailCall
  PROVE  PageInv'
<1>0. /\ turns' = turns /\ born' = born /\ turnStatus' = turnStatus /\ requests' = requests /\ service' = service
      /\ current' = current /\ restored' = restored /\ showing' = showing /\ row' = row
      /\ shown' = shown /\ oldest' = oldest /\ hasOlder' = hasOlder /\ crossed' = crossed
      /\ typed' = typed /\ went' = went /\ answered' = answered
      /\ window' = window /\ core' = core
      /\ job'.kind = "idle" /\ job.kind \in {"list", "open", "older", "new", "send", "recover"}
  BY DEF FailCall, core, window, onPage, typing, Ends, Idle
<1>1. lost' \in BOOLEAN /\ (job.kind \notin {"list", "open"} => lost' = lost) /\ (job.kind \in {"list", "open"} => lost')
  BY InvFacts DEF FailCall, PageTypeOK
<1>2. JobOK'
  BY <1>0 DEF JobOK
<1>3. CASE job.kind = "send"
  <2>1. PICK s : s = [kind |-> "failed", text |-> job.text]
    OBVIOUS
  <2>2. told' = Append(told, s)
    BY <1>3, <2>1 DEF FailCall
  <2>3. SignalOK(s) /\ s.kind = "failed"
    BY <1>3, <2>1, JobFacts DEF SignalOK
  <2> QED
    BY <1>0, <1>1, <1>2, <1>3, <2>2, <2>3, TellKeeps
<1>4. CASE job.kind # "send"
  <2>0. told' = told
    BY <1>4 DEF FailCall
  <2>1. PageTypeOK'
    BY <1>0, <1>1, InvFacts DEF PageTypeOK
  <2>2. QueuesOK'
    <3>1. Grows /\ Stays
      BY <1>0, NothingGrows
    <3>2. (\A m \in Elems(requests') : m \in Elems(requests)) /\ (\A m \in Elems(told') : m \in Elems(told))
      BY <1>0, <2>0
    <3> QED
      BY <1>0, <1>2, <2>0, <3>1, <3>2, InvFacts, QueuesKept
  <2>3. WindowOK'
    BY <1>0, InvFacts DEF WindowOK
  <2>4. OrderOK'
    BY <1>0, <2>0, InvFacts, OrderKept
  <2>5. ServiceOK'
    <3>1. \A i \in DOMAIN requests : requests[i].kind # "list"
      BY <1>0, InvFacts DEF ServiceOK
    <3>2. (\A m \in Elems(requests) : m.kind # "list") /\ ~Listing'
      BY <1>0, <3>1 DEF Elems, Listing
    <3>3. job.kind # "list" => ~Listing
      BY <3>2 DEF Listing
    <3>4. (\E m \in Elems(told') : m.kind = "opened") => service' # None
      BY <1>0, <2>0, InvFacts DEF ServiceOK
    <3>5. service' = None /\ ~lost' =>
           \/ ~restored' /\ \E m \in Elems(told') : m.kind = "listed"
           \/ \E m \in Elems(requests') : m.kind = "open"
      BY <1>0, <1>1, <2>0, <3>3, InvFacts DEF ServiceOK
    <3>6. service' # None /\ ~lost' =>
           /\ (\A m \in Elems(told') : m.kind # "opened") => service' = current'
           /\ LastOpened(told', service')
      BY <1>0, <1>1, <2>0, InvFacts DEF ServiceOK
    <3> QED
      BY <1>0, <3>1, <3>2, <3>4, <3>5, <3>6 DEF ServiceOK
  <2>6. TextOK'
    BY <1>0, InvFacts, TextKept DEF Opening
  <2>7. StreamOK'
    BY <1>0 DEF StreamOK
  <2> QED
    BY <2>1, <2>2, <2>3, <2>4, <2>5, <2>6, <2>7 DEF PageInv
<1> QED
  BY <1>3, <1>4

LEMMA ListKeeps ==
  ASSUME PageInv, ListConversations
  PROVE  PageInv'
<1>0. /\ turns' = turns /\ born' = born /\ turnStatus' = turnStatus /\ requests' = requests /\ service' = service
      /\ current' = current /\ restored' = restored /\ showing' = showing /\ row' = row /\ lost' = lost
      /\ shown' = shown /\ oldest' = oldest /\ hasOlder' = hasOlder /\ crossed' = crossed
      /\ typed' = typed /\ went' = went /\ answered' = answered
      /\ job'.kind = "idle" /\ job.kind = "list"
  BY DEF ListConversations, core, window, onPage, typing, Ends, Idle
<1>1. PICK s : s = [kind |-> "listed"]
  OBVIOUS
<1>2. told' = Append(told, s) /\ s.kind = "listed"
  BY <1>1 DEF ListConversations, Tells
<1>3. Elems(told') = Elems(told) \cup {s} /\ IsSeq(told')
  BY <1>2, InvFacts, AppendFacts
<1>4. told = <<>> /\ ~restored /\ service = None
  BY <1>0, InvFacts DEF ServiceOK, Listing
<1>5. PageTypeOK'
  BY <1>0, InvFacts DEF PageTypeOK
<1>6. QueuesOK'
  <2>1. Grows /\ Stays
    BY <1>0, NothingGrows
  <2>2. SignalOK(s)'
    BY <1>2 DEF SignalOK
  <2>3. JobOK'
    BY <1>0 DEF JobOK
  <2>4. \A m \in Elems(requests') : m \in Elems(requests)
    BY <1>0
  <2> QED
    BY <1>0, <1>3, <2>1, <2>2, <2>3, <2>4, InvFacts, QueuesKept
<1>7. WindowOK'
  BY <1>0, InvFacts DEF WindowOK
<1>8. OrderOK'
  <2>1. /\ \A m \in Elems(told') : Pending(m, showing) => m \in Elems(told)
        /\ SignalsDown(told, showing) => SignalsDown(told', showing)
    BY <1>2, InvFacts, OlderKept
  <2> QED
    BY <1>0, <2>1, InvFacts, OrderKept
<1>9. ServiceOK'
  <2>1. \A i \in DOMAIN requests : requests[i].kind # "list"
    BY <1>0, InvFacts DEF ServiceOK
  <2>2. ~Listing'
    BY <1>0, <2>1 DEF Elems, Listing
  <2>3. (\A m \in Elems(told') : m.kind = "listed") /\ s \in Elems(told')
    BY <1>2, <1>3, <1>4, SeqEmpty
  <2> QED
    BY <1>0, <1>2, <1>4, <2>1, <2>2, <2>3 DEF ServiceOK
<1>10. TextOK'
  BY <1>0, InvFacts, TextKept DEF Opening
<1>11. StreamOK'
  BY <1>0 DEF StreamOK
<1> QED
  BY <1>5, <1>6, <1>7, <1>8, <1>9, <1>10, <1>11 DEF PageInv

LEMMA OpenKeeps ==
  ASSUME PageInv, OpenConversation
  PROVE  PageInv'
<1>0. /\ turns' = turns /\ born' = born /\ turnStatus' = turnStatus /\ requests' = requests /\ service' = service
      /\ current' = current /\ restored' = restored /\ showing' = showing /\ row' = row /\ lost' = FALSE
      /\ shown' = shown /\ oldest' = oldest /\ hasOlder' = hasOlder /\ crossed' = crossed
      /\ typed' = typed /\ went' = went /\ answered' = answered
      /\ job'.kind = "idle" /\ job.kind = "open"
  BY DEF OpenConversation, core, window, onPage, typing, Ends, Idle
<1>1. PICK s : s = Opened(job.conv, Newest(job.conv))
  OBVIOUS
<1>2. told' = Append(told, s) /\ s.kind = "opened" /\ s.conv = job.conv /\ s.page = Newest(job.conv)
  BY <1>1 DEF OpenConversation, Tells, Opened
<1>3. Elems(told') = Elems(told) \cup {s} /\ IsSeq(told')
  BY <1>2, InvFacts, AppendFacts
<1>4. service = job.conv /\ job.conv \in born /\ job.conv \in Conv /\ service # None
  BY <1>0, JobFacts, InvFacts DEF RequestOK
<1>5. PageTypeOK'
  BY <1>0, InvFacts DEF PageTypeOK
<1>6. QueuesOK'
  <2>1. Grows /\ Stays
    BY <1>0, NothingGrows
  <2>2. PageOK(s.page, Len(turns[s.conv]))
    <3>1. Len(turns[job.conv]) \in Nat /\ Len(turns[job.conv]) + 1 \in 1 .. (Len(turns[job.conv]) + 1)
      BY <1>4, InvFacts
    <3> QED
      BY <1>2, <3>1, PageFacts DEF Newest
  <2>3. SignalOK(s)'
    BY <1>0, <1>2, <1>4, <2>2 DEF SignalOK
  <2>4. JobOK'
    BY <1>0 DEF JobOK
  <2>5. \A m \in Elems(requests') : m \in Elems(requests)
    BY <1>0
  <2> QED
    BY <1>0, <1>3, <2>1, <2>3, <2>4, <2>5, InvFacts, QueuesKept
<1>7. WindowOK'
  BY <1>0, InvFacts DEF WindowOK
<1>8. OrderOK'
  <2>1. /\ \A m \in Elems(told') : Pending(m, showing) => m \in Elems(told)
        /\ SignalsDown(told, showing) => SignalsDown(told', showing)
    BY <1>2, InvFacts, OlderKept
  <2> QED
    BY <1>0, <2>1, InvFacts, OrderKept
<1>9. ServiceOK'
  <2>1. \A i \in DOMAIN requests : requests[i].kind # "list"
    BY <1>0, InvFacts DEF ServiceOK
  <2>2. ~Listing'
    BY <1>0, <2>1 DEF Elems, Listing
  <2>3. LastOpened(told', service') /\ \E m \in Elems(told') : m.kind = "opened"
    BY <1>0, <1>2, <1>4, InvFacts, OpenedLast DEF HasKind
  <2> QED
    BY <1>0, <1>4, <2>1, <2>2, <2>3 DEF ServiceOK
<1>10. TextOK'
  BY <1>0, InvFacts, TextKept DEF Opening
<1>11. StreamOK'
  BY <1>0 DEF StreamOK
<1> QED
  BY <1>5, <1>6, <1>7, <1>8, <1>9, <1>10, <1>11 DEF PageInv
LEMMA CreateKeeps ==
  ASSUME PageInv, CreateConversation
  PROVE  PageInv'
<1>0. /\ turns' = turns /\ turnStatus' = turnStatus /\ requests' = requests
      /\ current' = current /\ restored' = restored /\ showing' = showing /\ row' = row /\ lost' = FALSE
      /\ shown' = shown /\ oldest' = oldest /\ hasOlder' = hasOlder /\ crossed' = crossed
      /\ typed' = typed /\ went' = went /\ answered' = answered
      /\ born' = born \cup {Fresh} /\ service' = Fresh /\ born # Conv
      /\ job' = (IF job.kind = "new" THEN Idle ELSE job)
      /\ job.kind = "new" \/ (job.kind = "send" /\ service = None)
  BY DEF CreateConversation, window, onPage, typing
<1>1. Fresh \in Conv /\ Fresh \notin born /\ Fresh # None
  BY <1>0, InvFacts DEF Fresh
<1>2. (job.kind = "new" /\ job'.kind = "idle") \/ (job.kind = "send" /\ job' = job /\ service = None)
  BY <1>0 DEF Idle
<1>3. PICK o, s : o = Opened(Fresh, NoTurns) /\ s = [kind |-> "listed"]
  OBVIOUS
<1>4. o.kind = "opened" /\ o.conv = Fresh /\ o.page = NoTurns /\ s.kind = "listed"
  BY <1>3 DEF Opened
<1>5. PICK q : q = Append(told, o)
  OBVIOUS
<1>6. IsSeq(q) /\ Elems(q) = Elems(told) \cup {o}
  BY <1>5, InvFacts, AppendFacts
<1>7. told' = q \/ told' = Append(q, s)
  BY <1>3, <1>5, InvFacts, TwoMore DEF CreateConversation, Tells, TellsBoth
<1>8. IsSeq(told') /\ o \in Elems(told') /\ \A m \in Elems(told') : m \in Elems(told) \/ m = o \/ m = s
  <2>1. CASE told' = q
    BY <1>6, <2>1
  <2>2. CASE told' = Append(q, s)
    <3>1. IsSeq(Append(q, s)) /\ Elems(Append(q, s)) = Elems(q) \cup {s}
      BY <1>6, AppendFacts
    <3> QED
      BY <1>6, <2>2, <3>1
  <2> QED
    BY <1>7, <2>1, <2>2
<1>9. PageTypeOK'
  BY <1>0, <1>1, InvFacts DEF PageTypeOK
<1>10. Grows /\ Stays
  BY <1>0, <1>1, InvFacts DEF Grows, Stays
<1>11. QueuesOK'
  <2>1. PageOK(NoTurns, Len(turns[Fresh]))
    <3>1. NoTurns.numbers = <<>> /\ NoTurns.older = FALSE
      BY DEF NoTurns
    <3>2. <<>> \in Seq(Nat)
      OBVIOUS
    <3> QED
      BY <3>1, <3>2 DEF PageOK
  <2>2. SignalOK(o)'
    BY <1>0, <1>4, <2>1 DEF SignalOK
  <2>3. SignalOK(s)'
    BY <1>4 DEF SignalOK
  <2>4. JobOK'
    <3>1. CASE job'.kind = "idle"
      BY <3>1 DEF JobOK
    <3>2. CASE job.kind = "send" /\ job' = job
      <4>1. job'.text \in 1 .. Len(typed')
        BY <1>0, <3>2, JobFacts
      <4> QED
        BY <3>2, <4>1 DEF JobOK, RequestOK
    <3> QED
      BY <1>2, <3>1, <3>2
  <2>5. \A m \in Elems(requests') : m \in Elems(requests)
    BY <1>0
  <2>6. \A m \in Elems(told') : m \in Elems(told) \/ SignalOK(m)'
    BY <1>8, <2>2, <2>3
  <2> QED
    BY <1>0, <1>8, <1>10, <2>4, <2>5, <2>6, InvFacts, QueuesKept
<1>12. WindowOK'
  BY <1>0, InvFacts DEF WindowOK
<1>13. OrderOK'
  <2>1. /\ \A m \in Elems(q) : Pending(m, showing) => m \in Elems(told)
        /\ SignalsDown(told, showing) => SignalsDown(q, showing)
    BY <1>4, <1>5, InvFacts, OlderKept
  <2>2. /\ \A m \in Elems(told') : Pending(m, showing) => m \in Elems(q)
        /\ SignalsDown(q, showing) => SignalsDown(told', showing)
    BY <1>4, <1>6, <1>7, OlderKept
  <2>3. job' = job \/ job'.kind # "older"
    BY <1>2
  <2> QED
    BY <1>0, <2>1, <2>2, <2>3, InvFacts, OrderKept
<1>14. ServiceOK'
  <2>1. \A i \in DOMAIN requests : requests[i].kind # "list"
    BY <1>2, InvFacts DEF ServiceOK
  <2>2. ~Listing'
    BY <1>0, <1>2, <2>1 DEF Elems, Listing
  <2>3. LastOpened(q, Fresh)
    BY <1>4, <1>5, InvFacts, OpenedLast
  <2>4. LastOpened(told', Fresh)
    BY <1>4, <1>6, <1>7, <2>3, OpenedKept
  <2> QED
    BY <1>0, <1>1, <1>4, <1>8, <2>1, <2>2, <2>4 DEF ServiceOK
<1>15. TextOK'
  <2>0. \A k \in 1 .. Len(typed) : typed[k].conv \in Conv
    <3>1. ASSUME NEW k \in 1 .. Len(typed) PROVE typed[k].conv \in Conv
      <4>1. typed \in Seq([conv : Conv, settled : BOOLEAN])
        BY InvFacts
      <4>2. typed[k] \in [conv : Conv, settled : BOOLEAN]
        BY <3>1, <4>1, ElementOfSeq
      <4> QED
        BY <4>2
    <3> QED
      BY <3>1
  <2>1. ASSUME NEW m \in Elems(requests), m.kind = "send", typed[m.text].settled PROVE FALSE
    <3>1. service = typed[m.text].conv /\ ~Opening(job)
      BY <2>1, InvFacts DEF TextOK
    <3>2. m.text \in 1 .. Len(typed)
      BY <2>1, InvFacts DEF QueuesOK, RequestOK
    <3>3. typed[m.text].conv \in Conv
      BY <2>0, <3>2
    <3> QED
      BY <1>2, <3>1, <3>3, InvFacts DEF Opening
  <2>2. ASSUME job'.kind \in {"send", "stream"}, typed[job'.text].settled PROVE FALSE
    <3>1. job' = job /\ job.kind = "send" /\ service = None
      BY <1>2, <2>2
    <3>2. service = typed[job.text].conv /\ job.text \in 1 .. Len(typed)
      BY <2>2, <3>1, JobFacts, InvFacts DEF TextOK
    <3>3. typed[job.text].conv \in Conv
      BY <2>0, <3>2
    <3> QED
      BY <3>1, <3>2, <3>3, InvFacts
  <2> QED
    BY <1>0, <2>1, <2>2, InvFacts DEF TextOK, TextGoesWhereShown
<1>16. StreamOK'
  BY <1>2 DEF StreamOK
<1> QED
  BY <1>9, <1>11, <1>12, <1>13, <1>14, <1>15, <1>16 DEF PageInv

LEMMA TakeKeeps ==
  ASSUME PageInv, TakeRequest
  PROVE  PageInv'
<1>0. /\ turns' = turns /\ born' = born /\ turnStatus' = turnStatus /\ told' = told /\ lost' = lost
      /\ current' = current /\ restored' = restored /\ showing' = showing /\ row' = row
      /\ shown' = shown /\ oldest' = oldest /\ hasOlder' = hasOlder /\ crossed' = crossed
      /\ typed' = typed /\ went' = went /\ answered' = answered
      /\ job = Idle /\ job.kind = "idle" /\ requests # <<>> /\ requests' = Tail(requests)
  BY DEF TakeRequest, core, window, onPage, typing, Idle
<1>1. PICK h : h = Head(requests)
  OBVIOUS
<1>2. job' = h /\ (h.kind = "open" => service' = h.conv) /\ (h.kind # "open" => service' = service)
  BY <1>1 DEF TakeRequest, Becomes
<1>3. /\ IsSeq(requests') /\ h \in Elems(requests) /\ Elems(requests') \subseteq Elems(requests)
      /\ h = requests[1] /\ 1 \in DOMAIN requests
      /\ \A i \in DOMAIN requests' : i \in Nat /\ i > 0 /\ i + 1 \in DOMAIN requests
                                     /\ requests'[i] = requests[i + 1]
      /\ \A m \in Elems(requests) : m = h \/ m \in Elems(requests')
  BY <1>0, <1>1, InvFacts, TailFacts
<1>4. RequestOK(h)
  BY <1>3, InvFacts DEF QueuesOK
<1>5. service' # None => service' \in born /\ service' \in Conv
  BY <1>2, <1>4, InvFacts DEF RequestOK
<1>6. PageTypeOK'
  BY <1>0, <1>5, InvFacts DEF PageTypeOK
<1>7. Grows /\ Stays
  BY <1>0, NothingGrows
<1>8. QueuesOK'
  <2>1. RequestOK(h)'
    BY <1>4, <1>7, RequestKept
  <2>2. JobOK'
    BY <1>2, <2>1 DEF JobOK, RequestOK
  <2>3. \A m \in Elems(told') : m \in Elems(told)
    BY <1>0
  <2> QED
    BY <1>0, <1>3, <1>5, <1>7, <2>2, <2>3, InvFacts, QueuesKept
<1>9. WindowOK'
  BY <1>0, InvFacts DEF WindowOK
<1>10. OrderOK'
  <2> SUFFICES ASSUME ~crossed' PROVE OrderOK'
    BY DEF OrderOK
  <2>1. RequestsDown(requests, showing)
    BY <1>0, InvFacts DEF OrderOK
  <2>2. RequestsDown(requests', showing)
    BY <1>0, <2>1, InvFacts, OlderKept
  <2>3. \A n \in Elems(requests') : Pending(n, showing) /\ Pending(h, showing) => RequestStart(n) <= RequestStart(h)
    <3>1. ASSUME NEW n \in Elems(requests'), Pending(n, showing), Pending(h, showing)
          PROVE  RequestStart(n) <= RequestStart(h)
      <4>1. PICK i \in DOMAIN requests' : n = requests'[i]
        BY <3>1 DEF Elems
      <4>2. i + 1 \in DOMAIN requests /\ n = requests[i + 1] /\ 1 < i + 1
        BY <1>3, <4>1
      <4> QED
        BY <1>3, <2>1, <3>1, <4>2 DEF RequestsDown
    <3> QED
      BY <3>1
  <2>4. /\ \A m \in Elems(told) : Pending(m, showing) => Near(SignalStart(m), oldest)
        /\ \A m \in Elems(requests) : Pending(m, showing) => Near(RequestStart(m), oldest)
        /\ SignalsDown(told, showing)
        /\ \A m \in Elems(told) : \A n \in Elems(requests) :
             Pending(m, showing) /\ Pending(n, showing) => RequestStart(n) <= SignalStart(m)
    BY <1>0, InvFacts DEF OrderOK
  <2> QED
    BY <1>0, <1>2, <1>3, <2>2, <2>3, <2>4 DEF OrderOK
<1>11. ServiceOK'
  <2>1. \A i \in DOMAIN requests' : requests'[i].kind # "list"
    <3>1. ASSUME NEW i \in DOMAIN requests' PROVE requests'[i].kind # "list"
      <4>1. i + 1 \in DOMAIN requests /\ requests'[i] = requests[i + 1] /\ i + 1 # 1
        BY <1>3
      <4> QED
        BY <4>1, InvFacts DEF ServiceOK
    <3> QED
      BY <3>1
  <2>2. \A m \in Elems(requests') : m.kind # "list"
    BY <2>1 DEF Elems
  <2>3. (Listing' <=> h.kind = "list") /\ (Listing <=> h.kind = "list")
    BY <1>0, <1>2, <1>3, <2>2 DEF Listing
  <2>4. Listing' => told' = <<>> /\ ~restored' /\ service' = None
    BY <1>0, <1>2, <2>3, InvFacts DEF ServiceOK
  <2>5. h.kind = "open" => h.conv \in Conv /\ h.conv # None
    BY <1>4, InvFacts DEF RequestOK
  <2>6. (\E m \in Elems(told') : m.kind = "opened") => service' # None
    BY <1>0, <1>2, <2>5, InvFacts DEF ServiceOK
  <2>7. service' = None /\ ~lost' =>
          \/ Listing'
          \/ ~restored' /\ \E m \in Elems(told') : m.kind = "listed"
          \/ \E m \in Elems(requests') : m.kind = "open"
    BY <1>0, <1>2, <1>3, <2>3, <2>5, InvFacts DEF ServiceOK
  <2>8. service' # None /\ ~lost' /\ job'.kind # "open" =>
          /\ (\A m \in Elems(told') : m.kind # "opened") => service' = current'
          /\ LastOpened(told', service')
    BY <1>0, <1>2, InvFacts DEF ServiceOK
  <2> QED
    BY <2>1, <2>4, <2>6, <2>7, <2>8 DEF ServiceOK
<1>12. TextOK'
  <2>1. \A i \in DOMAIN requests' : requests'[i].kind = "send" /\ typed[requests'[i].text].settled =>
          /\ service' = typed[requests'[i].text].conv /\ ~Opening(h)
          /\ \A j \in DOMAIN requests' : j < i => ~Opening(requests'[j])
    <3>1. ASSUME NEW i \in DOMAIN requests', requests'[i].kind = "send", typed[requests'[i].text].settled
          PROVE  /\ service' = typed[requests'[i].text].conv /\ ~Opening(h)
                 /\ \A j \in DOMAIN requests' : j < i => ~Opening(requests'[j])
      <4>1. /\ i + 1 \in DOMAIN requests /\ requests'[i] = requests[i + 1] /\ 1 < i + 1
        BY <1>3
      <4>2. \A j \in DOMAIN requests : j < i + 1 => ~Opening(requests[j])
        BY <3>1, <4>1, InvFacts DEF TextOK, Quiet
      <4>3. ~Opening(h)
        BY <1>3, <4>1, <4>2
      <4>4. service' = service
        BY <1>2, <4>3 DEF Opening
      <4>5. requests[i + 1] \in Elems(requests)
        BY <4>1 DEF Elems
      <4>6. service = typed[requests'[i].text].conv
        BY <3>1, <4>1, <4>5, InvFacts DEF TextOK
      <4>7. \A j \in DOMAIN requests' : j < i => ~Opening(requests'[j])
        <5>1. ASSUME NEW j \in DOMAIN requests', j < i PROVE ~Opening(requests'[j])
          <6>1. j + 1 \in DOMAIN requests /\ requests'[j] = requests[j + 1] /\ j + 1 < i + 1
            BY <1>3, <5>1
          <6> QED
            BY <4>2, <6>1
        <5> QED
          BY <5>1
      <4> QED
        BY <4>3, <4>4, <4>6, <4>7
    <3> QED
      BY <3>1
  <2>2. Quiet(requests', typed')
    BY <1>0, <2>1 DEF Quiet
  <2>3. \A m \in Elems(requests') : m.kind = "send" /\ typed[m.text].settled =>
          service' = typed[m.text].conv /\ ~Opening(h)
    BY <2>1 DEF Elems
  <2>4. job'.kind \in {"send", "stream"} /\ typed[job'.text].settled => service' = typed[job'.text].conv
    <3>1. h.kind # "stream"
      BY <1>4 DEF RequestOK
    <3> QED
      BY <1>2, <1>3, <3>1, InvFacts DEF TextOK
  <2> QED
    BY <1>0, <1>2, <2>2, <2>3, <2>4, InvFacts DEF TextOK, TextGoesWhereShown
<1>13. StreamOK'
  BY <1>2, <1>4 DEF StreamOK, RequestOK
<1> QED
  BY <1>6, <1>8, <1>9, <1>10, <1>11, <1>12, <1>13 DEF PageInv

LEMMA SendKeeps ==
  ASSUME PageInv, SendText
  PROVE  PageInv'
<1>0. /\ turns' = turns /\ born' = born /\ turnStatus' = turnStatus /\ told' = told /\ lost' = lost
      /\ job' = job /\ service' = service
      /\ current' = current /\ restored' = restored /\ showing' = showing /\ row' = row
      /\ oldest' = oldest /\ hasOlder' = hasOlder /\ crossed' = crossed
      /\ went' = went /\ answered' = answered /\ Len(typed) < MaxTexts
  BY DEF SendText, core, clientWorker
<1>1. PICK t, n, x : t = [conv |-> current, settled |-> Settled] /\ n = Len(typed) + 1
                     /\ x = [kind |-> "send", text |-> n]
  OBVIOUS
<1>2. /\ typed' = Append(typed, t) /\ requests' = Append(requests, x)
      /\ shown' = Append(shown, [kind |-> "typed", text |-> n])
      /\ t.conv = current /\ t.settled = Settled /\ x.kind = "send" /\ x.text = n
  BY <1>1 DEF SendText, Asks
<1>3. t \in [conv : Conv, settled : BOOLEAN]
  <2>1. Settled \in BOOLEAN
    BY DEF Settled
  <2> QED
    BY <1>1, <2>1, InvFacts
<1>4. /\ typed' \in Seq([conv : Conv, settled : BOOLEAN]) /\ Len(typed') = n /\ n \in Nat /\ n <= MaxTexts
      /\ n = Len(typed) + 1 /\ DOMAIN typed' = 1 .. n /\ typed'[n] = t
      /\ \A k \in 1 .. Len(typed) : k \in 1 .. n /\ typed'[k] = typed[k]
  BY <1>0, <1>1, <1>2, <1>3, InvFacts, AppendProperties
<1>5. /\ Elems(requests') = Elems(requests) \cup {x} /\ IsSeq(requests')
      /\ \A i \in DOMAIN requests' : i # Len(requests) + 1 => i \in DOMAIN requests
      /\ \A i \in DOMAIN requests : requests'[i] = requests[i] /\ i \in Nat /\ i < Len(requests) + 1
      /\ requests'[Len(requests) + 1] = x /\ Len(requests) \in Nat
  BY <1>2, InvFacts, AppendFacts
<1>6. /\ IsSeq(shown') /\ ShownTurns(shown') = ShownTurns(shown)
  <2>1. PICK y : y = [kind |-> "typed", text |-> n]
    OBVIOUS
  <2>2. y.kind # "turn"
    BY <2>1
  <2>3. IsSeq(shown') /\ Elems(shown') = Elems(shown) \cup {y}
    BY <1>2, <2>1, InvFacts, AppendFacts
  <2> QED
    BY <2>2, <2>3 DEF ShownTurns
<1>7. PageTypeOK'
  <2>1. answered' \subseteq DOMAIN typed'
    BY <1>0, <1>4, InvFacts DEF PageTypeOK
  <2> QED
    BY <1>0, <2>1, InvFacts DEF PageTypeOK
<1>8. Grows /\ Stays
  BY <1>0, <1>4, InvFacts DEF Grows, Stays
<1>9. QueuesOK'
  <2>1. RequestOK(x)'
    BY <1>2, <1>4 DEF RequestOK
  <2>2. JobOK'
    BY <1>0, <1>8, InvFacts, JobKept
  <2>3. \A m \in Elems(told') : m \in Elems(told)
    BY <1>0
  <2> QED
    BY <1>0, <1>4, <1>5, <1>6, <1>8, <2>1, <2>2, <2>3, InvFacts, QueuesKept
<1>10. WindowOK'
  BY <1>0, <1>6, <1>8, InvFacts, WindowKept
<1>11. OrderOK'
  <2>1. /\ \A m \in Elems(requests') : Pending(m, showing) => m \in Elems(requests)
        /\ RequestsDown(requests, showing) => RequestsDown(requests', showing)
    BY <1>2, InvFacts, OlderKept
  <2> QED
    BY <1>0, <2>1, InvFacts, OrderKept
<1>12. ServiceOK'
  <2>1. \A i \in DOMAIN requests' : requests'[i].kind = "list" => i = 1 /\ job'.kind = "idle"
    BY <1>0, <1>2, <1>5, InvFacts DEF ServiceOK
  <2>2. Listing <=> Listing'
    BY <1>0, <1>2, <1>5 DEF Listing
  <2>3. HasKind(requests, "open") => HasKind(requests', "open")
    BY <1>5 DEF HasKind
  <2> QED
    BY <1>0, <2>1, <2>2, <2>3, InvFacts, ServiceKept
<1>13. TextOK'
  <2>1. Settled => service = current /\ ~Opening(job) /\ \A i \in DOMAIN requests : ~Opening(requests[i])
    <3>1. SUFFICES ASSUME Settled PROVE service = current
      BY DEF Settled
    <3>2. /\ ~lost /\ job.kind \notin {"list", "open"}
          /\ \A m \in Elems(requests) : m.kind \notin {"list", "open"}
          /\ \A m \in Elems(told) : m.kind \notin {"opened", "listed"}
      BY <3>1 DEF Settled, Opening, Elems
    <3>3. service # None
      BY <3>2, InvFacts DEF ServiceOK, Listing
    <3> QED
      BY <3>2, <3>3, InvFacts DEF ServiceOK
  <2>2. \A m \in Elems(requests) : m.kind = "send" => typed'[m.text] = typed[m.text]
    BY <1>4, InvFacts DEF QueuesOK, RequestOK
  <2>3. job.kind \in {"send", "stream"} => typed'[job.text] = typed[job.text]
    BY <1>4, JobFacts
  <2>4. Quiet(requests', typed')
    <3>1. ASSUME NEW i \in DOMAIN requests', requests'[i].kind = "send", typed'[requests'[i].text].settled,
                 NEW j \in DOMAIN requests', j < i
          PROVE  ~Opening(requests'[j])
      <4>1. CASE i = Len(requests) + 1
        <5>1. Settled
          BY <1>2, <1>4, <1>5, <3>1, <4>1
        <5>2. j \in DOMAIN requests
          BY <1>5, <3>1, <4>1
        <5> QED
          BY <1>5, <2>1, <5>1, <5>2
      <4>2. CASE i # Len(requests) + 1
        <5>1. i \in DOMAIN requests /\ requests'[i] = requests[i]
          BY <1>5, <3>1, <4>2
        <5>2. j \in DOMAIN requests /\ requests'[j] = requests[j]
          BY <1>5, <3>1, <5>1
        <5>3. requests[i] \in Elems(requests)
          BY <5>1 DEF Elems
        <5>4. typed[requests[i].text].settled /\ requests[i].kind = "send"
          BY <2>2, <3>1, <5>1, <5>3
        <5> QED
          BY <3>1, <5>1, <5>2, <5>4, InvFacts DEF TextOK, Quiet
      <4> QED
        BY <4>1, <4>2
    <3> QED
      BY <3>1 DEF Quiet
  <2>5. \A m \in Elems(requests') : m.kind = "send" /\ typed'[m.text].settled =>
          service' = typed'[m.text].conv /\ ~Opening(job')
    <3>1. ASSUME NEW m \in Elems(requests'), m.kind = "send", typed'[m.text].settled
          PROVE  service = typed'[m.text].conv /\ ~Opening(job)
      <4>1. CASE m = x
        BY <1>2, <1>4, <2>1, <3>1, <4>1
      <4>2. CASE m \in Elems(requests)
        BY <2>2, <3>1, <4>2, InvFacts DEF TextOK
      <4> QED
        BY <1>5, <3>1, <4>1, <4>2
    <3> QED
      BY <1>0, <3>1
  <2>6. job'.kind \in {"send", "stream"} /\ typed'[job'.text].settled => service' = typed'[job'.text].conv
    BY <1>0, <2>3, InvFacts DEF TextOK
  <2>7. \A k \in Text : went'[k] # None => k \in DOMAIN typed'
    BY <1>0, <1>4, InvFacts DEF TextOK
  <2>8. TextGoesWhereShown'
    <3>1. ASSUME NEW k \in 1 .. n, typed'[k].settled, went[k] # None PROVE went[k] = typed'[k].conv
      <4>1. k \in Text
        BY <1>4, <3>1, InvFacts DEF Text
      <4>2. k \in DOMAIN typed
        BY <3>1, <4>1, InvFacts DEF TextOK
      <4> QED
        BY <1>4, <3>1, <4>2, InvFacts DEF TextOK, TextGoesWhereShown
    <3> QED
      BY <1>0, <1>4, <3>1 DEF TextGoesWhereShown
  <2> QED
    BY <2>4, <2>5, <2>6, <2>7, <2>8 DEF TextOK
<1>14. StreamOK'
  BY <1>0, InvFacts DEF StreamOK
<1> QED
  BY <1>7, <1>9, <1>10, <1>11, <1>12, <1>13, <1>14 DEF PageInv
LEMMA StreamStartedKeeps ==
  ASSUME PageInv, OnStreamStarted
  PROVE  PageInv'
<1>1. PICK y : y = [kind |-> "answer", text |-> Head(told).text]
  OBVIOUS
<1>2. shown' = Append(shown, y) /\ y.kind # "turn"
  BY <1>1 DEF OnStreamStarted
<1>3. IsSeq(shown') /\ Elems(shown') = Elems(shown) \cup {y}
  BY <1>2, InvFacts, AppendFacts
<1>4. ShownTurns(shown') = ShownTurns(shown)
  BY <1>2, <1>3 DEF ShownTurns
<1>5. /\ told # <<>> /\ told' = Tail(told) /\ Head(told).kind \notin {"opened", "listed"}
      /\ UNCHANGED <<core, requests, clientWorker, current, row, restored, showing, oldest, hasOlder,
                     crossed, typed, went>>
      /\ answered' \subseteq DOMAIN typed
  BY InvFacts DEF OnStreamStarted, Handles, typing, PageTypeOK
<1> QED
  BY <1>3, <1>4, <1>5, HandleKeeps

LEMMA StreamEndedKeeps ==
  ASSUME PageInv, OnStreamEnded
  PROVE  PageInv'
<1>1. /\ told # <<>> /\ told' = Tail(told) /\ Head(told).kind \in {"finished", "failed"}
      /\ UNCHANGED <<core, requests, clientWorker, current, row, restored, showing, oldest, hasOlder,
                     crossed, typed, went>>
      /\ shown' = shown /\ answered' = answered \cup {Head(told).text}
  BY DEF OnStreamEnded, Handles, typing, window, onPage
<1>2. Head(told).text \in 1 .. Len(typed)
  <2>1. Head(told) \in Elems(told)
    BY <1>1, InvFacts, TailFacts
  <2>2. SignalOK(Head(told))
    BY <2>1, InvFacts DEF QueuesOK
  <2> QED
    BY <1>1, <2>2 DEF SignalOK
<1>3. answered' \subseteq DOMAIN typed
  BY <1>1, <1>2, InvFacts DEF PageTypeOK
<1>4. IsSeq(shown') /\ ShownTurns(shown') = ShownTurns(shown)
  BY <1>1, InvFacts
<1> QED
  BY <1>1, <1>3, <1>4, HandleKeeps

LEMMA RecoveredKeeps ==
  ASSUME PageInv, OnConversationRecovered
  PROVE  PageInv'
<1>1. PICK y : y = [kind |-> "recovered", conv |-> Head(told).conv,
                    number |-> Head(told).number, text |-> Head(told).text]
  OBVIOUS
<1>2. shown' = Append(shown, y) /\ y.kind # "turn"
  BY <1>1 DEF OnConversationRecovered
<1>3. IsSeq(shown') /\ Elems(shown') = Elems(shown) \cup {y}
  BY <1>2, InvFacts, AppendFacts
<1>4. ShownTurns(shown') = ShownTurns(shown)
  BY <1>2, <1>3 DEF ShownTurns
<1>5. /\ told # <<>> /\ told' = Tail(told) /\ Head(told).kind \notin {"opened", "listed"}
      /\ UNCHANGED <<core, requests, clientWorker, current, row, restored, showing, oldest, hasOlder,
                     crossed, typed, went>>
      /\ answered' \subseteq DOMAIN typed
  BY InvFacts DEF OnConversationRecovered, Handles, typing, PageTypeOK
<1> QED
  BY <1>3, <1>4, <1>5, HandleKeeps

LEMMA ReadyKeeps ==
  ASSUME PageInv, OnConversationsReady
  PROVE  PageInv'
<1>0. /\ turns' = turns /\ born' = born /\ turnStatus' = turnStatus /\ lost' = lost
      /\ job' = job /\ service' = service /\ current' = current /\ restored' = TRUE /\ row' = current
      /\ showing' = showing /\ shown' = shown /\ oldest' = oldest /\ hasOlder' = hasOlder
      /\ crossed' = crossed /\ typed' = typed /\ went' = went /\ answered' = answered
      /\ told # <<>> /\ told' = Tail(told) /\ Head(told).kind = "listed"
  BY DEF OnConversationsReady, core, clientWorker, onPage, typing, Handles
<1>1. PICK x : x = [kind |-> "open", conv |-> current]
  OBVIOUS
<1>2. x.kind = "open" /\ x.conv = current
  BY <1>1
<1>3. (restored /\ requests' = requests) \/ (~restored /\ requests' = Append(requests, x))
  BY <1>1 DEF OnConversationsReady, Asks
<1>4. /\ Elems(told') \subseteq Elems(told) /\ IsSeq(told') /\ Head(told) \in Elems(told)
  BY <1>0, InvFacts, TailFacts
<1>5. /\ IsSeq(requests') /\ Elems(requests) \subseteq Elems(requests')
      /\ \A m \in Elems(requests') : m \in Elems(requests) \/ m = x
      /\ ~restored => x \in Elems(requests')
      /\ \A i \in DOMAIN requests' : requests'[i] = x \/ (i \in DOMAIN requests /\ requests'[i] = requests[i])
  <2>1. CASE requests' = Append(requests, x)
    <3>1. /\ IsSeq(requests') /\ Elems(requests') = Elems(requests) \cup {x}
          /\ \A i \in DOMAIN requests' : i # Len(requests) + 1 => i \in DOMAIN requests
          /\ \A i \in DOMAIN requests : requests'[i] = requests[i]
          /\ requests'[Len(requests) + 1] = x
      BY <2>1, InvFacts, AppendFacts
    <3> QED
      BY <3>1
  <2>2. CASE restored /\ requests' = requests
    BY <2>2, InvFacts
  <2> QED
    BY <1>3, <2>1, <2>2
<1>6. PageTypeOK'
  BY <1>0, InvFacts DEF PageTypeOK
<1>7. Grows /\ Stays
  BY <1>0, NothingGrows
<1>8. QueuesOK'
  <2>1. RequestOK(x)'
    BY <1>0, <1>2, InvFacts DEF RequestOK
  <2>2. JobOK'
    BY <1>0, <1>7, InvFacts, JobKept
  <2> QED
    BY <1>0, <1>4, <1>5, <1>7, <2>1, <2>2, InvFacts, QueuesKept
<1>9. WindowOK'
  BY <1>0, InvFacts DEF WindowOK
<1>10. OrderOK'
  <2>1. /\ \A m \in Elems(told') : Pending(m, showing) => m \in Elems(told)
        /\ SignalsDown(told, showing) => SignalsDown(told', showing)
    BY <1>0, InvFacts, OlderKept
  <2>2. /\ \A m \in Elems(requests') : Pending(m, showing) => m \in Elems(requests)
        /\ RequestsDown(requests, showing) => RequestsDown(requests', showing)
    <3>1. requests' = requests \/ (x.kind # "older" /\ requests' = Append(requests, x))
      BY <1>2, <1>3
    <3> QED
      BY <3>1, InvFacts, OlderKept
  <2> QED
    BY <1>0, <2>1, <2>2, InvFacts, OrderKept
<1>11. ServiceOK'
  <2>1. ~Listing
    BY <1>0, InvFacts DEF ServiceOK
  <2>2. ~Listing'
    BY <1>0, <1>2, <1>5, <2>1 DEF Listing
  <2>3. \A i \in DOMAIN requests' : requests'[i].kind = "list" => i = 1 /\ job'.kind = "idle"
    BY <1>0, <1>2, <1>5, InvFacts DEF ServiceOK
  <2>4. (HasKind(told', "opened") <=> HasKind(told, "opened")) /\ \A c : LastOpened(told, c) => LastOpened(told', c)
    BY <1>0, InvFacts, OpenedKept
  <2>5. (\E m \in Elems(told') : m.kind = "opened") => service' # None
    BY <1>0, <2>4, InvFacts DEF ServiceOK, HasKind
  <2>6. service' = None /\ ~lost' => \E m \in Elems(requests') : m.kind = "open"
    BY <1>0, <1>2, <1>5, <2>1, InvFacts DEF ServiceOK
  <2>7. service' # None /\ ~lost' /\ job'.kind # "open" =>
          /\ (\A m \in Elems(told') : m.kind # "opened") => service' = current'
          /\ LastOpened(told', service')
    BY <1>0, <2>4, InvFacts DEF ServiceOK, HasKind
  <2> QED
    BY <2>2, <2>3, <2>5, <2>6, <2>7 DEF ServiceOK
<1>12. TextOK'
  BY <1>0, <1>2, <1>3, InvFacts, TextKept
<1>13. StreamOK'
  BY <1>0, InvFacts DEF StreamOK
<1> QED
  BY <1>6, <1>8, <1>9, <1>10, <1>11, <1>12, <1>13 DEF PageInv

LEMMA OpenedKeeps ==
  ASSUME PageInv, OnConversationOpened
  PROVE  PageInv'
<1>1. PICK h : h = Head(told)
  OBVIOUS
<1>0. /\ turns' = turns /\ born' = born /\ turnStatus' = turnStatus /\ lost' = lost /\ requests' = requests
      /\ job' = job /\ service' = service /\ current' = h.conv /\ restored' = TRUE /\ row' = row
      /\ showing' = showing + 1 /\ shown' = Rendered(h.conv, h.page)
      /\ oldest' = (IF h.page.numbers = <<>> THEN oldest ELSE Head(h.page.numbers))
      /\ hasOlder' = h.page.older
      /\ crossed' = FALSE /\ typed' = typed /\ went' = went /\ answered' = answered
      /\ told # <<>> /\ told' = Tail(told) /\ h.kind = "opened"
  BY <1>1 DEF OnConversationOpened, core, clientWorker, typing, Handles, Marks
<1>2. /\ Elems(told') \subseteq Elems(told) /\ IsSeq(told') /\ h \in Elems(told)
      /\ h = told[1] /\ 1 \in DOMAIN told /\ Len(told) \in Nat /\ DOMAIN told = 1 .. Len(told)
      /\ DOMAIN told' = 1 .. (Len(told) - 1)
      /\ \A i \in DOMAIN told' : i \in Nat /\ i > 0 /\ i + 1 \in DOMAIN told /\ told'[i] = told[i + 1]
      /\ \A m \in Elems(told) : m = h \/ m \in Elems(told')
  BY <1>0, <1>1, InvFacts, TailFacts
<1>3. h.conv \in born /\ h.conv \in Conv /\ PageOK(h.page, Len(turns[h.conv])) /\ Len(turns[h.conv]) \in Nat
  BY <1>0, <1>2, InvFacts DEF QueuesOK, SignalOK
<1>4. /\ IsSeq(shown')
      /\ \A m \in Elems(shown') : /\ m.kind = "turn" /\ m.conv = h.conv /\ m.number \in Nat
                                  /\ h.page.numbers # <<>> /\ m.number >= Head(h.page.numbers)
      /\ h.page.numbers # <<>> =>
           \E m \in Elems(shown') : m.kind = "turn" /\ m.number = Head(h.page.numbers)
  BY <1>0, <1>3, RenderedFacts
<1>5. PageTypeOK'
  <2>1. oldest' \in Nat /\ hasOlder' \in BOOLEAN /\ showing' \in Nat
    BY <1>0, <1>3, InvFacts DEF PageOK
  <2> QED
    BY <1>0, <1>3, <2>1, InvFacts DEF PageTypeOK
<1>6. Grows /\ Stays
  BY <1>0, InvFacts DEF Grows, Stays
<1>7. QueuesOK'
  <2>1. JobOK'
    BY <1>0, <1>6, InvFacts, JobKept
  <2>2. (\A m \in Elems(requests') : m \in Elems(requests)) /\ (\A m \in Elems(told') : m \in Elems(told))
    BY <1>0, <1>2
  <2> QED
    BY <1>0, <1>2, <1>3, <1>4, <1>6, <2>1, <2>2, InvFacts, QueuesKept
<1>8. WindowOK'
  <2>1. CASE h.page.numbers = <<>>
    <3>1. ShownTurns(shown') = {} /\ ~hasOlder'
      BY <1>0, <1>3, <1>4, <2>1 DEF ShownTurns, PageOK
    <3> QED
      BY <3>1 DEF WindowOK
  <2>2. CASE h.page.numbers # <<>>
    <3>1. oldest' = Head(h.page.numbers) /\ oldest' \in 1 .. Len(turns[h.conv]) /\ (hasOlder' <=> oldest' > 1)
      BY <1>0, <1>3, <2>2 DEF PageOK
    <3>2. hasOlder' => oldest' \in 2 .. Len(turns'[current'])
      BY <1>0, <1>3, <3>1
    <3>3. ShownTurns(shown') = Elems(shown')
      BY <1>4 DEF ShownTurns
    <3> QED
      BY <1>0, <1>4, <2>2, <3>1, <3>2, <3>3 DEF WindowOK
  <2> QED
    BY <2>1, <2>2
<1>9. OrderOK'
  <2>1. \A m \in Elems(told') : ~Pending(m, showing')
    BY <1>0, <1>2, InvFacts DEF QueuesOK, SignalOK, Pending
  <2>2. \A m \in Elems(requests') : ~Pending(m, showing')
    BY <1>0, InvFacts DEF QueuesOK, RequestOK, Pending
  <2>3. ~Pending(job', showing')
    BY <1>0, InvFacts, JobFacts DEF RequestOK, Pending
  <2>4. SignalsDown(told', showing')
    BY <2>1 DEF SignalsDown, Elems
  <2>5. RequestsDown(requests', showing')
    BY <2>2 DEF RequestsDown, Elems
  <2> QED
    BY <2>1, <2>2, <2>3, <2>4, <2>5 DEF OrderOK
<1>10. ServiceOK'
  <2>1. ~Listing /\ ~Listing'
    BY <1>0, InvFacts DEF ServiceOK, Listing
  <2>2. \A i \in DOMAIN requests' : requests'[i].kind = "list" => i = 1 /\ job'.kind = "idle"
    BY <1>0, InvFacts DEF ServiceOK
  <2>3. service # None
    BY <1>0, <1>2, InvFacts DEF ServiceOK
  <2>4. service' # None /\ ~lost' /\ job'.kind # "open" =>
          /\ (\A m \in Elems(told') : m.kind # "opened") => service' = current'
          /\ LastOpened(told', service')
    <3>1. SUFFICES ASSUME ~lost, job.kind # "open"
                   PROVE  /\ (\A m \in Elems(told') : m.kind # "opened") => service = h.conv
                          /\ LastOpened(told', service)
      BY <1>0
    <3>2. LastOpened(told, service)
      BY <2>3, <3>1, InvFacts DEF ServiceOK
    <3>3. \A j \in DOMAIN told : j > 1 => j - 1 \in DOMAIN told' /\ told'[j - 1] = told[j]
      <4>1. \A j \in DOMAIN told : j > 1 => j - 1 \in DOMAIN told' /\ (j - 1) + 1 = j
        BY <1>2
      <4> QED
        BY <1>2, <4>1
    <3>4. ASSUME \A m \in Elems(told') : m.kind # "opened" PROVE service = h.conv
      <4>1. \A j \in DOMAIN told : j > 1 => told[j].kind # "opened"
        BY <3>3, <3>4 DEF Elems
      <4> QED
        BY <1>0, <1>2, <3>2, <4>1 DEF LastOpened
    <3>5. LastOpened(told', service)
      <4>1. ASSUME NEW i \in DOMAIN told', told'[i].kind = "opened",
                   \A j \in DOMAIN told' : j > i => told'[j].kind # "opened"
            PROVE  told'[i].conv = service
        <5>1. i + 1 \in DOMAIN told /\ told[i + 1] = told'[i]
          BY <1>2
        <5>2. \A j \in DOMAIN told : j > i + 1 => j > 1 /\ j - 1 > i
          BY <1>2
        <5>3. \A j \in DOMAIN told : j > i + 1 => told[j].kind # "opened"
          BY <3>3, <4>1, <5>2
        <5> QED
          BY <3>2, <4>1, <5>1, <5>3 DEF LastOpened
      <4> QED
        BY <4>1 DEF LastOpened
    <3> QED
      BY <3>4, <3>5
  <2> QED
    BY <1>0, <2>1, <2>2, <2>3, <2>4 DEF ServiceOK
<1>11. TextOK'
  BY <1>0, InvFacts, TextKept
<1>12. StreamOK'
  BY <1>0, InvFacts DEF StreamOK
<1> QED
  BY <1>5, <1>7, <1>8, <1>9, <1>10, <1>11, <1>12 DEF PageInv
LEMMA OlderReadyKeeps ==
  ASSUME PageInv, OnOlderTurnsReady
  PROVE  PageInv'
<1>1. PICK h : h = Head(told)
  OBVIOUS
<1>0. /\ turns' = turns /\ born' = born /\ turnStatus' = turnStatus /\ lost' = lost /\ requests' = requests
      /\ job' = job /\ service' = service /\ current' = current /\ restored' = restored /\ row' = row
      /\ showing' = showing /\ typed' = typed /\ went' = went /\ answered' = answered
      /\ told # <<>> /\ told' = Tail(told) /\ h.kind = "older"
      /\ UNCHANGED <<core, requests, clientWorker, current, row, restored, showing, typed, went>>
  BY <1>1 DEF OnOlderTurnsReady, core, clientWorker, typing, Handles
<1>2. CASE h.conv # current
  <2>1. shown' = shown /\ oldest' = oldest /\ hasOlder' = hasOlder /\ crossed' = crossed
    BY <1>1, <1>2 DEF OnOlderTurnsReady, Concerns, onPage
  <2>2. answered' \subseteq DOMAIN typed /\ IsSeq(shown') /\ ShownTurns(shown') = ShownTurns(shown)
    BY <1>0, <2>1, InvFacts DEF PageTypeOK
  <2> QED
    BY <1>0, <1>1, <2>1, <2>2, HandleKeeps
<1>3. CASE h.conv = current
  <2>0. /\ shown' = Rendered(h.conv, h.page) \o shown
        /\ oldest' = (IF h.page.numbers = <<>> THEN oldest ELSE Head(h.page.numbers))
        /\ hasOlder' = h.page.older
        /\ crossed' = (crossed \/ h.showing # showing)
    BY <1>1, <1>3 DEF OnOlderTurnsReady, Concerns, Marks
  <2>1. /\ Elems(told') \subseteq Elems(told) /\ IsSeq(told') /\ h \in Elems(told)
        /\ h = told[1] /\ 1 \in DOMAIN told
        /\ \A i \in DOMAIN told' : i \in Nat /\ i > 0 /\ i + 1 \in DOMAIN told /\ told'[i] = told[i + 1]
    BY <1>0, <1>1, InvFacts, TailFacts
  <2>2. /\ h.conv \in Conv /\ PageOK(h.page, Len(turns[current])) /\ h.page.numbers # <<>>
        /\ Len(turns[current]) \in Nat
    BY <1>0, <1>3, <2>1, InvFacts DEF QueuesOK, SignalOK
  <2>3. /\ oldest' = SignalStart(h) /\ oldest' \in 1 .. Len(turns[current]) /\ oldest' \in Nat /\ oldest' > 0
        /\ (hasOlder' <=> oldest' > 1) /\ hasOlder' \in BOOLEAN
    BY <2>0, <2>2 DEF PageOK, SignalStart
  <2>4. PICK r : r = Rendered(h.conv, h.page)
    OBVIOUS
  <2>5. /\ IsSeq(r)
        /\ \A m \in Elems(r) : m.kind = "turn" /\ m.conv = current /\ m.number \in Nat /\ m.number >= oldest'
        /\ \E m \in Elems(r) : m.kind = "turn" /\ m.number = oldest'
    BY <1>3, <2>2, <2>3, <2>4, RenderedFacts DEF SignalStart
  <2>6. IsSeq(shown') /\ Elems(shown') = Elems(r) \cup Elems(shown)
    BY <2>0, <2>4, <2>5, InvFacts, ConcatFacts
  <2>7. crossed' \in BOOLEAN /\ (~crossed' => ~crossed /\ Pending(h, showing))
    BY <1>0, <2>0 DEF Pending
  <2>8. ~crossed' => Near(oldest', oldest)
    BY <2>1, <2>3, <2>7, InvFacts DEF OrderOK
  <2>9. PageTypeOK'
    BY <1>0, <2>3, <2>7, InvFacts DEF PageTypeOK
  <2>10. Grows /\ Stays
    BY <1>0, NothingGrows
  <2>11. QueuesOK'
    <3>1. JobOK'
      BY <1>0, <2>10, InvFacts, JobKept
    <3>2. (\A m \in Elems(requests') : m \in Elems(requests)) /\ (\A m \in Elems(told') : m \in Elems(told))
      BY <1>0, <2>1
    <3> QED
      BY <1>0, <2>1, <2>6, <2>10, <3>1, <3>2, InvFacts, QueuesKept
  <2>12. WindowOK'
    <3>1. hasOlder' => oldest' \in 2 .. Len(turns'[current'])
      BY <1>0, <2>2, <2>3
    <3>2. ASSUME NEW m \in ShownTurns(shown')
          PROVE  m.conv = current /\ m.number \in Nat /\ (crossed' \/ m.number >= oldest')
      <4>1. CASE m \in Elems(r)
        BY <2>5, <4>1
      <4>2. CASE m \in Elems(shown)
        <5>1. m.conv = current /\ m.number \in Nat /\ (crossed \/ m.number >= oldest)
          BY <3>2, <4>2, InvFacts DEF ShownTurns, WindowOK
        <5>2. ASSUME ~crossed' PROVE m.number >= oldest'
          <6>1. m.number >= oldest /\ oldest' <= oldest
            BY <2>7, <2>8, <5>1, <5>2 DEF Near
          <6> QED
            BY <2>3, <5>1, <6>1, InvFacts
        <5> QED
          BY <5>1, <5>2
      <4> QED
        BY <2>6, <3>2, <4>1, <4>2 DEF ShownTurns
    <3>3. \E m \in ShownTurns(shown') : m.number = oldest'
      BY <2>5, <2>6 DEF ShownTurns
    <3> QED
      BY <1>0, <2>3, <3>1, <3>2, <3>3 DEF WindowOK
  <2>13. OrderOK'
    <3> SUFFICES ASSUME ~crossed' PROVE OrderOK'
      BY DEF OrderOK
    <3>1. ~crossed /\ Pending(h, showing) /\ Near(oldest', oldest)
      BY <2>7, <2>8
    <3>2. FirstOf(oldest') \in Nat /\ FirstOf(oldest) \in Nat /\ FirstOf(oldest') <= FirstOf(oldest)
          /\ oldest > 0
      <4>1. oldest' <= oldest /\ oldest > 0
        BY <2>3, <3>1, InvFacts DEF Near
      <4> QED
        BY <2>3, <4>1, InvFacts, FirstFacts
    <3>3. SignalsDown(told, showing) /\ SignalsDown(told', showing)
      BY <1>0, <3>1, InvFacts, OlderKept DEF OrderOK
    <3>4. \A m \in Elems(told') : Pending(m, showing) => SignalStart(m) <= oldest'
      <4>1. ASSUME NEW m \in Elems(told'), Pending(m, showing) PROVE SignalStart(m) <= SignalStart(h)
        <5>1. PICK i \in DOMAIN told' : m = told'[i]
          BY <4>1 DEF Elems
        <5>2. i + 1 \in DOMAIN told /\ m = told[i + 1] /\ 1 < i + 1
          BY <2>1, <5>1
        <5> QED
          BY <2>1, <3>1, <3>3, <4>1, <5>2 DEF SignalsDown
      <4> QED
        BY <2>3, <4>1
    <3>5. /\ \A m \in Elems(requests) : Pending(m, showing) => RequestStart(m) <= oldest'
          /\ Pending(job, showing) => RequestStart(job) <= oldest'
      BY <2>1, <2>3, <3>1, InvFacts DEF OrderOK
    <3>6. /\ \A m \in Elems(told') : Pending(m, showing) => SignalStart(m) \in Nat /\ FirstOf(oldest) <= SignalStart(m)
          /\ \A m \in Elems(requests) : Pending(m, showing) => RequestStart(m) \in Nat /\ FirstOf(oldest) <= RequestStart(m)
          /\ Pending(job, showing) => RequestStart(job) \in Nat /\ FirstOf(oldest) <= RequestStart(job)
      <4>1. /\ \A m \in Elems(told') : Pending(m, showing) => FirstOf(oldest) <= SignalStart(m)
            /\ \A m \in Elems(requests) : Pending(m, showing) => FirstOf(oldest) <= RequestStart(m)
            /\ Pending(job, showing) => FirstOf(oldest) <= RequestStart(job)
        BY <2>1, <3>1, InvFacts DEF OrderOK, Near
      <4>2. \A m \in Elems(told') : Pending(m, showing) => SignalStart(m) \in Nat
        <5>1. ASSUME NEW m \in Elems(told'), Pending(m, showing) PROVE SignalStart(m) \in Nat
          <6>1. /\ m.conv \in Conv /\ PageOK(m.page, Len(turns[m.conv])) /\ m.page.numbers # <<>>
                /\ Len(turns[m.conv]) \in Nat
            BY <2>1, <5>1, InvFacts DEF QueuesOK, SignalOK, Pending
          <6>2. Head(m.page.numbers) \in 1 .. Len(turns[m.conv])
            BY <6>1 DEF PageOK
          <6> QED
            BY <6>1, <6>2 DEF SignalStart
        <5> QED
          BY <5>1
      <4>3. \A b \in Nat : FirstOf(b) \in Nat
        <5>1. PageSize \in Nat
          BY DesktopConversationAssumption DEF DesktopConversationAssumption
        <5> QED
          BY <5>1 DEF FirstOf
      <4>4. \A m : RequestOK(m) /\ m.kind = "older" => m.before \in Nat
        BY InvFacts DEF RequestOK
      <4>5. \A m \in Elems(requests) : Pending(m, showing) => RequestStart(m) \in Nat
        BY <4>3, <4>4, InvFacts DEF QueuesOK, Pending, RequestStart
      <4>6. Pending(job, showing) => RequestStart(job) \in Nat
        BY <4>3, <4>4, JobFacts DEF Pending, RequestStart
      <4> QED
        BY <4>1, <4>2, <4>5, <4>6
    <3>7. \A k \in Nat : FirstOf(oldest) <= k => FirstOf(oldest') <= k
      BY <3>2
    <3>8. /\ \A m \in Elems(told') : Pending(m, showing) => Near(SignalStart(m), oldest')
          /\ \A m \in Elems(requests) : Pending(m, showing) => Near(RequestStart(m), oldest')
          /\ Pending(job, showing) => Near(RequestStart(job), oldest')
      BY <3>4, <3>5, <3>6, <3>7 DEF Near
    <3>9. /\ RequestsDown(requests, showing)
          /\ \A m \in Elems(told) : \A n \in Elems(requests) :
               Pending(m, showing) /\ Pending(n, showing) => RequestStart(n) <= SignalStart(m)
          /\ \A m \in Elems(told) : Pending(m, showing) /\ Pending(job, showing) => RequestStart(job) <= SignalStart(m)
          /\ \A n \in Elems(requests) :
               Pending(n, showing) /\ Pending(job, showing) => RequestStart(n) <= RequestStart(job)
      BY <3>1, InvFacts DEF OrderOK
    <3> QED
      BY <1>0, <2>1, <3>3, <3>8, <3>9 DEF OrderOK
  <2>14. ServiceOK'
    <3>1. ~Listing /\ ~Listing'
      BY <1>0, InvFacts DEF ServiceOK, Listing
    <3>2. (HasKind(told', "opened") <=> HasKind(told, "opened")) /\ \A c : LastOpened(told, c) => LastOpened(told', c)
      BY <1>0, <1>1, InvFacts, OpenedKept
    <3>3. HasKind(told, "listed") => HasKind(told', "listed")
      BY <1>0, <1>1, InvFacts, TailFacts DEF HasKind
    <3>4. \A i \in DOMAIN requests' : requests'[i].kind = "list" => i = 1 /\ job'.kind = "idle"
      BY <1>0, InvFacts DEF ServiceOK
    <3> QED
      BY <1>0, <3>1, <3>2, <3>3, <3>4, InvFacts, ServiceKept
  <2>15. TextOK'
    BY <1>0, InvFacts, TextKept
  <2>16. StreamOK'
    BY <1>0, InvFacts DEF StreamOK
  <2> QED
    BY <2>9, <2>11, <2>12, <2>13, <2>14, <2>15, <2>16 DEF PageInv
<1> QED
  BY <1>2, <1>3

LEMMA PageBegins == PageInit => PageInv
<1> SUFFICES ASSUME PageInit PROVE PageInv
  OBVIOUS
<1>1. /\ None \notin Conv /\ Saved \in Conv /\ Stored \in [Conv -> Nat] /\ Stored[Saved] > 0 /\ MaxTexts \in Nat
  BY DesktopConversationAssumption DEF DesktopConversationAssumption
<1>2. PICK x : x = [kind |-> "list"]
  OBVIOUS
<1>3. x.kind = "list" /\ requests = <<x>> /\ told = <<>> /\ shown = <<>> /\ typed = <<>> /\ job.kind = "idle"
  BY <1>2 DEF PageInit, Idle
<1>4. /\ IsSeq(requests) /\ Elems(requests) = {x} /\ IsSeq(told) /\ Elems(told) = {} /\ IsSeq(shown)
      /\ Elems(shown) = {} /\ DOMAIN requests = {1} /\ requests[1] = x /\ DOMAIN told = {}
  BY <1>3, SeqEmpty
<1>5. PageTypeOK
  <2>1. turns \in [Conv -> Seq(Text \cup {0})]
    <3>1. ASSUME NEW c \in Conv PROVE [n \in 1 .. Stored[c] |-> 0] \in Seq(Text \cup {0})
      <4>1. Stored[c] \in Nat /\ [n \in 1 .. Stored[c] |-> 0] \in [1 .. Stored[c] -> Text \cup {0}]
        BY <1>1
      <4> QED
        BY <4>1, SeqDef
    <3> QED
      BY <3>1 DEF PageInit
  <2>2. \A c \in Conv : c \notin born => turns[c] = <<>>
    <3>1. ASSUME NEW c \in Conv, c \notin born PROVE turns[c] = <<>>
      <4>1. Stored[c] = 0 /\ turns[c] = [n \in 1 .. Stored[c] |-> 0]
        BY <1>1, <3>1 DEF PageInit
      <4>2. turns[c] \in Seq(Text \cup {0}) /\ DOMAIN turns[c] = 1 .. 0
        BY <2>1, <4>1
      <4>3. PICK t \in Seq(Text \cup {0}) : t = turns[c] /\ DOMAIN t = 1 .. 0
        BY <4>2
      <4>4. Len(t) \in Nat /\ DOMAIN t = 1 .. Len(t)
        OBVIOUS
      <4>5. 1 \notin 1 .. Len(t)
        <5>1. 1 .. Len(t) = 1 .. 0
          BY <4>3, <4>4, Zenon
        <5>2. 1 \notin 1 .. 0
          OBVIOUS
        <5> QED
          BY <5>1, <5>2, Zenon
      <4>6. Len(t) = 0
        BY <4>4, <4>5
      <4> QED
        BY <4>3, <4>6, EmptySeq
    <3> QED
      BY <3>1
  <2>3. turnStatus \in [Text -> {None, "PROCESSING", "COMPLETED", "FAILED"}] /\ went \in [Text -> Conv \cup {None}]
    BY DEF PageInit
  <2>4. /\ born \subseteq Conv /\ service = None /\ current = Saved /\ row = None /\ lost = FALSE
        /\ restored = FALSE /\ hasOlder = FALSE /\ crossed = FALSE /\ oldest = 0 /\ showing = 0 /\ answered = {}
    BY DEF PageInit
  <2>5. /\ {lost, restored, hasOlder, crossed} \subseteq BOOLEAN /\ {oldest, showing} \subseteq Nat
        /\ answered \subseteq DOMAIN typed
    <3>1. FALSE \in BOOLEAN
      OBVIOUS
    <3>2. {lost, restored, hasOlder, crossed} \subseteq BOOLEAN
      BY <2>4, <3>1, Zenon
    <3>3. {oldest, showing} \subseteq Nat
      BY <2>4
    <3> QED
      BY <2>4, <3>2, <3>3, Zenon
  <2> QED
    BY <1>1, <2>1, <2>2, <2>3, <2>4, <2>5 DEF PageTypeOK
<1>6. QueuesOK
  <2>1. RequestOK(x)
    BY <1>3 DEF RequestOK
  <2>2. typed \in Seq([conv : Conv, settled : BOOLEAN]) /\ Len(typed) <= MaxTexts
    BY <1>1, <1>3
  <2>3. service = None /\ current \in born
    BY <1>1 DEF PageInit
  <2> QED
    BY <1>3, <1>4, <2>1, <2>2, <2>3 DEF QueuesOK, JobOK
<1>7. WindowOK
  BY <1>4 DEF PageInit, WindowOK, ShownTurns
<1>8. OrderOK
  <2>1. ~Pending(x, showing) /\ ~Pending(job, showing)
    BY <1>3 DEF Pending
  <2>2. SignalsDown(told, showing) /\ RequestsDown(requests, showing)
    BY <1>4, <2>1 DEF SignalsDown, RequestsDown
  <2> QED
    BY <1>4, <2>1, <2>2 DEF OrderOK
<1>9. ServiceOK
  <2>1. Listing /\ service = None /\ restored = FALSE
    BY <1>3, <1>4 DEF Listing, PageInit
  <2> QED
    BY <1>3, <1>4, <2>1 DEF ServiceOK
<1>10. TextOK
  <2>1. Quiet(requests, typed)
    BY <1>3, <1>4 DEF Quiet
  <2>2. TextGoesWhereShown /\ \A k \in Text : went[k] = None
    BY <1>3 DEF TextGoesWhereShown, PageInit
  <2> QED
    BY <1>3, <1>4, <2>1, <2>2 DEF TextOK
<1>11. StreamOK
  BY <1>3 DEF StreamOK
<1> QED
  BY <1>5, <1>6, <1>7, <1>8, <1>9, <1>10, <1>11 DEF PageInv

LEMMA PageSteps == PageInv /\ [PageNext]_pageVars => PageInv'
<1> SUFFICES ASSUME PageInv, [PageNext]_pageVars PROVE PageInv'
  OBVIOUS
<1>1. ASSUME NEW c \in Conv, SelectConversation(c) PROVE PageInv'
  BY <1>1, SelectKeeps
<1>2. ASSUME NEW c \in Conv, OtherTurn(c) PROVE PageInv'
  BY <1>2, OtherTurnKeeps
<1>3. CASE NewConversation
  BY <1>3, NewKeeps
<1>4. CASE LoadOlder
  BY <1>4, LoadOlderKeeps
<1>5. CASE SendText
  BY <1>5, SendKeeps
<1>6. CASE TakeRequest
  BY <1>6, TakeKeeps
<1>7. CASE ListConversations
  BY <1>7, ListKeeps
<1>8. CASE OpenConversation
  BY <1>8, OpenKeeps
<1>9. CASE LoadOlderTurns
  BY <1>9, LoadOlderTurnsKeeps
<1>10. CASE CreateConversation
  BY <1>10, CreateKeeps
<1>11. CASE StartStream
  BY <1>11, StartStreamKeeps
<1>12. CASE StoreTurn
  BY <1>12, StoreTurnKeeps
<1>13. CASE RefuseTurn
  BY <1>13, RefuseTurnKeeps
<1>14. ASSUME NEW event \in Events, HearProvider(event) PROVE PageInv'
  BY <1>14, HearProviderKeeps
<1>15. ASSUME NEW raised \in BOOLEAN, EndTurn(raised) PROVE PageInv'
  BY <1>15, EndTurnKeeps
<1>16. CASE FinishStream
  BY <1>16, FinishStreamKeeps
<1>17. CASE Recover
  BY <1>17, RecoverKeeps
<1>18. CASE BreakStream
  BY <1>18, BreakStreamKeeps
<1>19. CASE FailCall
  BY <1>19, FailCallKeeps
<1>20. CASE OnConversationsReady
  BY <1>20, ReadyKeeps
<1>21. CASE OnConversationOpened
  BY <1>21, OpenedKeeps
<1>22. CASE OnOlderTurnsReady
  BY <1>22, OlderReadyKeeps
<1>23. CASE OnStreamStarted
  BY <1>23, StreamStartedKeeps
<1>24. CASE OnStreamEnded
  BY <1>24, StreamEndedKeeps
<1>25. CASE OnConversationRecovered
  BY <1>25, RecoveredKeeps
<1>26. CASE UNCHANGED pageVars
  BY <1>26, RowKeeps, InvFacts DEF pageVars, window, typing, PageTypeOK
<1> QED
  BY <1>1, <1>2, <1>3, <1>4, <1>5, <1>6, <1>7, <1>8, <1>9, <1>10, <1>11, <1>12, <1>13, <1>14, <1>15,
     <1>16, <1>17, <1>18, <1>19, <1>20, <1>21, <1>22, <1>23, <1>24, <1>25, <1>26
  DEF PageNext, Serve, Handle

(* Every reachable state keeps what the window, the worker and the two     *)
(* queues between them rely on.                                            *)
THEOREM PageInvariance == PageSpec => []PageInv
<1>1. PageInit => PageInv
  BY PageBegins
<1>2. PageInv /\ [PageNext]_pageVars => PageInv'
  BY PageSteps
<1> QED
  BY <1>1, <1>2, PTL DEF PageSpec

(* The Turns on the page are of one Conversation, older ones are asked for *)
(* from the oldest shown unless a page crossed a reopening, and a text of  *)
(* a settled window goes to the Conversation that it shows.                *)
THEOREM PageStaysTrue == PageSpec => []PageIsTrue
<1>1. PageInv => PageIsTrue
  <2> SUFFICES ASSUME PageInv PROVE PageIsTrue
    OBVIOUS
  <2>1. Pages = ShownTurns(shown)
    BY DEF Pages, ShownTurns, Elems
  <2>2. TranscriptIsOfOneConversation
    <3>1. PageTypeOK /\ WindowOK
      BY InvFacts
    <3>2. hasOlder \in BOOLEAN
      BY <3>1 DEF PageTypeOK
    <3> QED
      BY <2>1, <3>1, <3>2 DEF TranscriptIsOfOneConversation, WindowOK
  <2>3. TextGoesWhereShown
    BY InvFacts DEF TextOK
  <2> QED
    BY <2>2, <2>3 DEF PageIsTrue
<1> QED
  BY <1>1, PageInvariance, PTL

(* A Turn is stored as complete exactly when the provider's stream kept    *)
(* the contract of normalized events to its end.                           *)
THEOREM AnswersAreWhole == PageSpec => AnswerIsWhole
<1> DEFINE Fits == \A k \in Text :
                     /\ CompletesText(k) => Whole(job.heard)
                     /\ EndTurn(FALSE) /\ job.text = k /\ Whole(job.heard) => CompletesText(k)
<1>1. ASSUME PageInv, [PageNext]_pageVars PROVE [Fits]_pageVars
  <2>1. ASSUME NEW k \in Text, CompletesText(k) PROVE Whole(job.heard)
    <3>1. turnStatus' # turnStatus /\ turnStatus'[k] = "COMPLETED" /\ turnStatus[k] # "COMPLETED"
      BY <2>1 DEF CompletesText
    <3>2. StoreTurn \/ RefuseTurn \/ \E raised \in BOOLEAN : EndTurn(raised)
      BY <1>1, <3>1 DEF PageNext, Serve, Handle, pageVars, core, SelectConversation, OtherTurn, NewConversation,
         LoadOlder, SendText, TakeRequest, ListConversations, OpenConversation, LoadOlderTurns,
         CreateConversation, StartStream, HearProvider, FinishStream, Recover, BreakStream, FailCall,
         OnConversationsReady, OnConversationOpened, OnOlderTurnsReady, OnStreamStarted, OnStreamEnded,
         OnConversationRecovered
    <3>3. turnStatus \in [Text -> {None, "PROCESSING", "COMPLETED", "FAILED"}]
      BY <1>1, InvFacts DEF PageTypeOK
    <3>4. ASSUME NEW how, Finalize(how) PROVE how = "COMPLETED"
      BY <2>1, <3>1, <3>3, <3>4 DEF Finalize
    <3>5. PICK raised \in BOOLEAN : EndTurn(raised)
      BY <3>2, <3>4 DEF StoreTurn, RefuseTurn
    <3>6. TurnStatus(job.stream, raised) = "COMPLETED" /\ job.kind = "stream"
      BY <3>4, <3>5 DEF EndTurn, Streaming
    <3>7. StreamFits(job.stream, job.heard)
      BY <1>1, <3>6, InvFacts DEF StreamOK
    <3> QED
      BY <3>6, <3>7, EndFits
  <2>2. ASSUME NEW k \in Text, EndTurn(FALSE), job.text = k, Whole(job.heard) PROVE CompletesText(k)
    <3>1. job.kind = "stream" /\ turnStatus[k] = "PROCESSING" /\ Finalize(TurnStatus(job.stream, FALSE))
      BY <2>2 DEF EndTurn, Streaming
    <3>2. TurnStatus(job.stream, FALSE) = "COMPLETED"
      BY <1>1, <2>2, <3>1, InvFacts, EndFits DEF StreamOK
    <3>3. turnStatus'[k] = "COMPLETED"
      BY <1>1, <2>2, <3>1, <3>2, InvFacts DEF Finalize, PageTypeOK
    <3> QED
      BY <3>1, <3>3 DEF CompletesText
  <2> QED
    BY <2>1, <2>2
<1> QED
  BY <1>1, PageInvariance, PTL DEF PageSpec, AnswerIsWhole
================================================================================
