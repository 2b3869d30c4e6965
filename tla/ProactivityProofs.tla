--------------------------- MODULE ProactivityProofs ---------------------------
(***************************************************************************)
(* Theorems about what the assistant does of its own accord: a handler of  *)
(* EventOutbox that must not be repeated is not, the delivery records are  *)
(* true, and no stream loses a notification, for every set of events,      *)
(* handlers and streams; and a ScheduledTask acts once, when it is due and *)
(* not after it was cancelled, and never sleeps without an alarm, for any  *)
(* number of crashes and failures.  The two share no state.                *)
(***************************************************************************)
EXTENDS EventOutbox, ScheduledTask, SequenceTheorems, FiniteSetTheorems, TLAPS

(* ----------------------------- EventOutbox ----------------------------- *)
(* Where the dispatcher has the lease of its event, and where it is with   *)
(* one of the handlers.                                                    *)
Leasing  == {"claimed", "next", "run", "push", "done"}
AtHandler == {"run", "push", "done"}

LeaseOK == \A e \in Event : rec[e].owner # "none" => rec[e].status = "DISPATCHING"

DispOK ==
  /\ disp.pc # "idle" => up /\ disp.event \in Event
  /\ disp.pc \in Leasing => rec[disp.event].owner = "this"
  /\ disp.pc \in AtHandler => disp.at <= Len(Handlers)
  /\ disp.pc = "push" => h = Notifier

(* A pass that has not failed has completed the handlers behind it.        *)
PassOK ==
  /\ disp.pc \in Leasing /\ ~disp.failed =>
       \A i \in 1 .. disp.at - 1 : Handlers[i] \in rec[disp.event].completed
  /\ \A e \in Event : rec[e].status = "DELIVERED" => rec[e].completed = Handler

NotedOK ==
  /\ IsFiniteSet({e \in Event : note[e] = "PENDING"})
  /\ \A e \in Event : Notifier \in rec[e].completed => note[e] # "NONE"
  /\ disp.pc \in {"push", "done"} /\ h = Notifier => note[disp.event] # "NONE"

(* What has begun and must not be repeated is on record as begun.          *)
BegunOK ==
  /\ \A e \in Event : Range(runs[e]) \ RetrySafe \subseteq rec[e].completed \cup rec[e].started
  /\ disp.pc = "run" /\ h \notin RetrySafe =>
       h \in rec[disp.event].started /\ h \notin Range(runs[disp.event])

(* What a stream must know is what has been pushed, be it that the         *)
(* notifier is through or that it is about to be; one that is not listened *)
(* for any more has been told to start over.                               *)
Told(e) ==
  \/ Notifier \in rec[e].completed
  \/ disp.pc = "done" /\ h = Notifier /\ disp.event = e

StreamOK ==
  \A s \in Stream :
    /\ stream[s].pc # "off" /\ ~stream[s].listens => None \in Range(stream[s].queue)
    /\ \A e \in Event :
         stream[s].pc = "live" /\ note[e] = "PENDING" /\ Told(e) =>
           \/ e \in stream[s].seen \cup stream[s].missed
           \/ {e, None} \cap Range(stream[s].queue) # {}

IInv ==
  /\ TypeOK /\ LeaseOK /\ DispOK /\ PassOK /\ NotedOK /\ BegunOK /\ StreamOK
  /\ UnsafeHandlerAtMostOnce

(* A step that leaves alone what is marked as begun and completed, and the *)
(* handlers, notifications and streams.                                    *)
RowsOnly ==
  /\ UNCHANGED <<up, disp, note, older, stream, runs>>
  /\ \A e \in Event :
       /\ rec'[e].completed = rec[e].completed /\ rec'[e].started = rec[e].started
       /\ rec[e].owner = "this" => rec'[e].owner = "this"
       /\ rec'[e].status = "DELIVERED" => rec[e].status = "DELIVERED"

(* What a sequence holds after an element is added or taken.               *)
LEMMA RangeOfAppend ==
  ASSUME NEW S, NEW q \in Seq(S), NEW x \in S
  PROVE  Append(q, x) \in Seq(S) /\ Range(Append(q, x)) = Range(q) \cup {x}
<1>1. /\ Append(q, x) \in Seq(S)
      /\ DOMAIN Append(q, x) = 1 .. Len(q) + 1
      /\ \A i \in 1 .. Len(q) : Append(q, x)[i] = q[i]
      /\ Append(q, x)[Len(q) + 1] = x
  BY AppendProperties
<1>2. DOMAIN q = 1 .. Len(q) /\ Len(q) \in Nat
  OBVIOUS
<1>3. \A y : y \in Range(Append(q, x)) <=> y \in Range(q) \/ y = x
  <2>1. ASSUME NEW y, y \in Range(Append(q, x)) PROVE y \in Range(q) \/ y = x
    <3>1. PICK i \in 1 .. Len(q) + 1 : y = Append(q, x)[i]
      BY <1>1, <2>1 DEF Range
    <3>2. i \in 1 .. Len(q) \/ i = Len(q) + 1
      BY <1>2
    <3> QED
      BY <1>1, <1>2, <3>1, <3>2 DEF Range
  <2>2. ASSUME NEW y, y \in Range(q) PROVE y \in Range(Append(q, x))
    <3>1. PICK i \in 1 .. Len(q) : y = q[i]
      BY <1>2, <2>2 DEF Range
    <3>2. i \in 1 .. Len(q) + 1
      BY <1>2
    <3> QED
      BY <1>1, <3>1, <3>2 DEF Range
  <2>3. x \in Range(Append(q, x))
    <3>1. Len(q) + 1 \in 1 .. Len(q) + 1
      BY <1>2
    <3> QED
      BY <1>1, <3>1 DEF Range
  <2> QED
    BY <2>1, <2>2, <2>3
<1> QED
  BY <1>1, <1>3

LEMMA RangeOfTail ==
  ASSUME NEW S, NEW q \in Seq(S), q # << >>
  PROVE  /\ Head(q) \in S /\ Tail(q) \in Seq(S) /\ Len(Tail(q)) = Len(q) - 1
         /\ \A y \in Range(q) : y = Head(q) \/ y \in Range(Tail(q))
<1>1. /\ Head(q) \in S /\ Tail(q) \in Seq(S) /\ Len(Tail(q)) = Len(q) - 1
      /\ \A i \in 1 .. Len(Tail(q)) : Tail(q)[i] = q[i + 1]
  BY HeadTailProperties
<1>2. ASSUME NEW y \in Range(q), y # Head(q) PROVE y \in Range(Tail(q))
  <2>1. PICK i \in 1 .. Len(q) : y = q[i]
    BY DEF Range
  <2>2. i # 1
    BY <1>2, <2>1
  <2>3. i - 1 \in 1 .. Len(Tail(q)) /\ (i - 1) + 1 = i
    BY <1>1, <2>1, <2>2
  <2>4. Tail(q)[i - 1] = y /\ DOMAIN Tail(q) = 1 .. Len(Tail(q))
    BY <1>1, <2>1, <2>3
  <2> QED
    BY <2>3, <2>4 DEF Range
<1> QED
  BY <1>1, <1>2

(* The handlers are those of the sequence.                                 *)
LEMMA HandlersAre ==
  /\ Len(Handlers) \in Nat /\ Notifier \in Handler
  /\ \A i \in 1 .. Len(Handlers) : Handlers[i] \in Handler
  /\ \A x \in Handler : \E i \in 1 .. Len(Handlers) : x = Handlers[i]
BY OutboxAssumption DEF OutboxAssumption, Handler, Range

(* The rows and locals keep their types.                                   *)
LEMMA RestAndOff == Rest \in Pass /\ Off \in Reader
BY HandlersAre DEF Rest, Pass, Off, Reader

LEMMA RecordUpdates ==
  ASSUME NEW r \in Record
  PROVE  /\ [r EXCEPT !.status = "CANCELLED"] \in Record
         /\ [r EXCEPT !.status = "PENDING", !.due = TRUE] \in Record
         /\ [r EXCEPT !.due = TRUE] \in Record
         /\ [r EXCEPT !.expired = TRUE] \in Record
         /\ [r EXCEPT !.owner = "earlier"] \in Record
         /\ [r EXCEPT !.status = "PENDING", !.owner = "none", !.expired = FALSE] \in Record
         /\ Leased(r) \in Record
<1>1. r.attempts + 1 \in Nat
  BY DEF Record
<1>2. ASSUME NEW n \in Nat
      PROVE  [r EXCEPT !.status = "DISPATCHING", !.owner = "this", !.expired = FALSE,
                       !.attempts = n] \in Record
  BY DEF Record
<1>3. /\ [r EXCEPT !.status = "CANCELLED"] \in Record
      /\ [r EXCEPT !.status = "PENDING", !.due = TRUE] \in Record
  BY DEF Record, Closed
<1>4. /\ [r EXCEPT !.due = TRUE] \in Record
      /\ [r EXCEPT !.expired = TRUE] \in Record
      /\ [r EXCEPT !.owner = "earlier"] \in Record
      /\ [r EXCEPT !.status = "PENDING", !.owner = "none", !.expired = FALSE] \in Record
  BY DEF Record
<1>5. Leased(r) \in Record
  BY <1>1, <1>2 DEF Leased
<1> QED
  BY <1>3, <1>4, <1>5

LEMMA RecordMarks ==
  ASSUME NEW r \in Record, NEW x \in Handler
  PROVE  /\ [r EXCEPT !.started = @ \cup {x}] \in Record
         /\ [r EXCEPT !.completed = @ \cup {x}, !.started = @ \ {x}] \in Record
<1>1. /\ r.started \cup {x} \in SUBSET Handler /\ r.started \ {x} \in SUBSET Handler
      /\ r.completed \cup {x} \in SUBSET Handler
  BY DEF Record
<1>2. ASSUME NEW a \in SUBSET Handler, NEW b \in SUBSET Handler
      PROVE  /\ [r EXCEPT !.started = a] \in Record
             /\ [r EXCEPT !.completed = b, !.started = a] \in Record
  BY DEF Record
<1> QED
  BY <1>1, <1>2

LEMMA RowChanges ==
  ASSUME TypeOK, NEW e \in Event, NEW r \in Record, rec' = [rec EXCEPT ![e] = r]
  PROVE  /\ rec' \in [Event -> Record] /\ rec'[e] = r
         /\ \A x \in Event : x # e => rec'[x] = rec[x]
BY DEF TypeOK

LEMMA SaveChanges ==
  ASSUME TypeOK, disp.event \in Event, NEW r \in Record, Save(r)
  PROVE  /\ rec' \in [Event -> Record]
         /\ rec[disp.event].owner = "this" => rec'[disp.event] = r
         /\ rec[disp.event].owner # "this" => rec' = rec
         /\ \A x \in Event : x # disp.event => rec'[x] = rec[x]
BY DEF TypeOK, Save

LEMMA PassMoves ==
  ASSUME disp \in Pass,
         NEW l \in {"idle", "claimed", "next", "run", "push", "done", "audit"}, Goto(l)
  PROVE  /\ disp' \in Pass /\ disp'.pc = l /\ disp'.event = disp.event /\ disp'.at = disp.at
         /\ disp'.failed = disp.failed
BY DEF Pass, Goto

LEMMA PassAdvances ==
  ASSUME disp \in Pass, disp.at <= Len(Handlers),
         NEW f \in BOOLEAN, NEW r \in BOOLEAN,
         disp' = [disp EXCEPT !.pc = "next", !.at = disp.at + 1, !.failed = f, !.retryable = r]
  PROVE  /\ disp' \in Pass /\ disp'.pc = "next" /\ disp'.event = disp.event
         /\ disp'.at = disp.at + 1 /\ disp'.failed = f
<1>1. disp.at + 1 \in 1 .. Len(Handlers) + 1
  BY HandlersAre DEF Pass
<1>2. ASSUME NEW n \in 1 .. Len(Handlers) + 1,
             disp' = [disp EXCEPT !.pc = "next", !.at = n, !.failed = f, !.retryable = r]
      PROVE  /\ disp' \in Pass /\ disp'.pc = "next" /\ disp'.event = disp.event
             /\ disp'.at = n /\ disp'.failed = f
  BY <1>2 DEF Pass
<1> QED
  BY <1>1, <1>2

LEMMA FailsAdvances ==
  ASSUME disp \in Pass, disp.at <= Len(Handlers),
         \E r \in BOOLEAN : disp' = [disp EXCEPT !.pc = "next", !.at = disp.at + 1,
                                                !.failed = TRUE, !.retryable = r]
  PROVE  /\ disp' \in Pass /\ disp'.pc = "next" /\ disp'.event = disp.event
         /\ disp'.at = disp.at + 1 /\ disp'.failed
<1> PICK r \in BOOLEAN : disp' = [disp EXCEPT !.pc = "next", !.at = disp.at + 1,
                                              !.failed = TRUE, !.retryable = r]
  OBVIOUS
<1>1. ASSUME NEW f \in BOOLEAN, f,
             disp' = [disp EXCEPT !.pc = "next", !.at = disp.at + 1, !.failed = f, !.retryable = r]
      PROVE  /\ disp' \in Pass /\ disp'.pc = "next" /\ disp'.event = disp.event
             /\ disp'.at = disp.at + 1 /\ disp'.failed
  BY <1>1, PassAdvances
<1> QED
  BY <1>1

LEMMA GoOnAdvances ==
  ASSUME disp \in Pass, disp.at <= Len(Handlers), GoOn
  PROVE  /\ disp' \in Pass /\ disp'.pc = "next" /\ disp'.event = disp.event
         /\ disp'.at = disp.at + 1 /\ disp'.failed = disp.failed
<1>1. disp.failed \in BOOLEAN /\ disp.retryable \in BOOLEAN
  BY DEF Pass
<1>2. disp' = [disp EXCEPT !.pc = "next", !.at = disp.at + 1, !.failed = disp.failed,
                           !.retryable = disp.retryable]
  BY DEF GoOn, Pass
<1> QED
  BY <1>1, <1>2, PassAdvances

(* The initial state.                                                      *)
LEMMA InitInv == Init => IInv
<1> SUFFICES ASSUME Init PROVE IInv
  OBVIOUS
<1> USE OutboxAssumption DEF OutboxAssumption, Init
<1>1. TypeOK
  <2>1. rec \in [Event -> Record] /\ disp \in Pass /\ stream \in [Stream -> Reader]
    BY HandlersAre, RestAndOff DEF Record
  <2>2. \A s \in Stream : Len(stream[s].queue) <= QueueSize
    BY DEF Off
  <2> QED
    BY <2>1, <2>2 DEF TypeOK, Off
<1>2. LeaseOK /\ DispOK /\ PassOK /\ NotedOK
  <2>1. {e \in Event : note[e] = "PENDING"} = {}
    OBVIOUS
  <2> QED
    BY <2>1, FS_EmptySet DEF LeaseOK, DispOK, PassOK, NotedOK, Leasing, AtHandler, Rest
<1>3. BegunOK /\ StreamOK /\ UnsafeHandlerAtMostOnce
  BY DEF BegunOK, StreamOK, UnsafeHandlerAtMostOnce, Rest, Off, Range
<1> QED
  BY <1>1, <1>2, <1>3 DEF IInv

LEMMA RowsOnlyInv ==
  ASSUME IInv, RowsOnly
  PROVE  /\ DispOK' /\ PassOK' /\ NotedOK' /\ BegunOK' /\ StreamOK'
         /\ UnsafeHandlerAtMostOnce'
<1> USE DEF IInv, RowsOnly, h
<1>1. DispOK' /\ UnsafeHandlerAtMostOnce'
  BY DEF DispOK, Leasing, UnsafeHandlerAtMostOnce
<1>2. PassOK'
  BY DEF DispOK, PassOK, Leasing
<1>3. NotedOK'
  BY DEF DispOK, NotedOK
<1>4. BegunOK'
  BY DEF DispOK, BegunOK
<1>5. StreamOK'
  BY DEF StreamOK, Told
<1> QED
  BY <1>1, <1>2, <1>3, <1>4, <1>5

(* A step that takes the dispatcher from one handler to the next and       *)
(* leaves the rows alone.                                                  *)
Advances ==
  /\ UNCHANGED <<up, rec, note, older, stream, runs>>
  /\ disp.pc \in {"next"} \cup AtHandler /\ disp.at \in 1 .. Len(Handlers)
  /\ disp'.pc = "next" /\ disp'.event = disp.event /\ disp'.at = disp.at + 1
  /\ ~disp'.failed => ~disp.failed /\ h \in rec[disp.event].completed

LEMMA AdvancesInv ==
  ASSUME IInv, Advances
  PROVE  /\ DispOK' /\ PassOK' /\ NotedOK' /\ BegunOK' /\ StreamOK'
         /\ UnsafeHandlerAtMostOnce'
<1> USE DEF IInv, Advances, AtHandler
<1>1. DispOK' /\ UnsafeHandlerAtMostOnce'
  BY DEF DispOK, Leasing, UnsafeHandlerAtMostOnce
<1>2. PassOK'
  <2>1. ASSUME ~disp'.failed, NEW i \in 1 .. disp'.at - 1
        PROVE  Handlers[i] \in rec[disp.event].completed
    <3>1. i \in 1 .. disp.at - 1 \/ i = disp.at
      OBVIOUS
    <3> QED
      BY <2>1, <3>1 DEF PassOK, Leasing, h
  <2> QED
    BY <2>1 DEF PassOK
<1>3. NotedOK' /\ BegunOK'
  BY DEF NotedOK, BegunOK
<1>4. StreamOK'
  BY DEF StreamOK, Told
<1> QED
  BY <1>1, <1>2, <1>3, <1>4

(* One lemma per action; under it, one step per part of the invariant.     *)
LEMMA SkipInv ==
  ASSUME IInv, Skip PROVE IInv'
<1> USE HandlersAre DEF IInv
<1>1. /\ disp \in Pass /\ disp.pc = "next" /\ disp.at \in 1 .. Len(Handlers)
      /\ UNCHANGED <<fact, up, rec, note, older, stream, runs, faults>>
  BY DEF Skip, Working, TypeOK, Pass
<1>2. disp' \in Pass /\ Advances
  <2>1. CASE h \in rec[disp.event].completed /\ GoOn
    BY <1>1, <2>1, GoOnAdvances DEF Advances
  <2>2. CASE disp' = [disp EXCEPT !.at = @ + 1, !.failed = TRUE, !.retryable = FALSE]
    <3>1. disp' = [disp EXCEPT !.pc = "next", !.at = disp.at + 1, !.failed = TRUE,
                               !.retryable = FALSE]
      BY <1>1, <2>2 DEF Pass
    <3>2. \E r \in BOOLEAN : disp' = [disp EXCEPT !.pc = "next", !.at = disp.at + 1,
                                                  !.failed = TRUE, !.retryable = r]
      BY <3>1, Zenon
    <3>3. /\ disp' \in Pass /\ disp'.pc = "next" /\ disp'.event = disp.event
          /\ disp'.at = disp.at + 1 /\ disp'.failed
      <4>1. disp \in Pass /\ disp.at <= Len(Handlers)
        BY <1>1
      <4> QED
        BY <4>1, <3>2, FailsAdvances, Zenon
    <3> QED
      BY <1>1, <3>3 DEF Advances
  <2> QED
    BY <2>1, <2>2 DEF Skip
<1>3. TypeOK' /\ LeaseOK'
  BY <1>1, <1>2 DEF TypeOK, LeaseOK
<1> QED
  BY <1>2, <1>3, AdvancesInv

LEMMA HandlerFailsInv ==
  ASSUME IInv, HandlerFails PROVE IInv'
<1> USE HandlersAre DEF IInv
<1>1. /\ disp \in Pass /\ disp.pc \in AtHandler /\ disp.at \in 1 .. Len(Handlers)
      /\ UNCHANGED <<fact, up, rec, note, older, stream, runs, faults>>
  BY DEF HandlerFails, Working, TypeOK, Pass, AtHandler, DispOK
<1>2. disp' \in Pass /\ Advances
  <2>1. (disp.retryable /\ h \in RetrySafe) \in BOOLEAN
    OBVIOUS
  <2>2. \E r \in BOOLEAN : disp' = [disp EXCEPT !.pc = "next", !.at = disp.at + 1,
                                                !.failed = TRUE, !.retryable = r]
    BY <2>1 DEF HandlerFails
  <2>3. /\ disp' \in Pass /\ disp'.pc = "next" /\ disp'.event = disp.event
        /\ disp'.at = disp.at + 1 /\ disp'.failed
    <3>1. disp \in Pass /\ disp.at <= Len(Handlers)
      BY <1>1
    <3> QED
      BY <3>1, <2>2, FailsAdvances, Zenon
  <2> QED
    BY <1>1, <2>3 DEF Advances
<1>3. TypeOK' /\ LeaseOK'
  BY <1>1, <1>2 DEF TypeOK, LeaseOK
<1> QED
  BY <1>2, <1>3, AdvancesInv

LEMMA ClaimInv ==
  ASSUME IInv, Claim PROVE IInv'
<1> USE HandlersAre DEF IInv
<1>1. PICK e \in Event :
        /\ rec[e].status \in {"PENDING", "DISPATCHING"}
        /\ rec' = [rec EXCEPT ![e] = Leased(rec[e])]
        /\ disp' = [Rest EXCEPT !.pc = "claimed", !.event = e]
  BY DEF Claim
<1>2. up /\ UNCHANGED <<fact, up, note, older, stream, runs, faults>> /\ rec[e] \in Record
  BY DEF Claim, TypeOK
<1>3. /\ rec' \in [Event -> Record]
      /\ rec'[e] = Leased(rec[e])
      /\ \A x \in Event : x # e => rec'[x] = rec[x]
  BY <1>1, <1>2, RowChanges, RecordUpdates
<1>4. /\ rec'[e].status = "DISPATCHING" /\ rec'[e].owner = "this"
      /\ rec'[e].completed = rec[e].completed /\ rec'[e].started = rec[e].started
  BY <1>2, <1>3 DEF Record, Leased
<1>5. disp' \in Pass /\ disp'.pc = "claimed" /\ disp'.event = e /\ disp'.at = 1
  BY <1>1, RestAndOff DEF Rest, Pass
<1>6. TypeOK' /\ LeaseOK'
  <2>1. TypeOK'
    BY <1>2, <1>3, <1>5 DEF TypeOK
  <2>2. LeaseOK'
    BY <1>2, <1>3, <1>4 DEF LeaseOK
  <2> QED
    BY <2>1, <2>2
<1>7. DispOK' /\ PassOK'
  BY <1>2, <1>3, <1>4, <1>5 DEF DispOK, PassOK, Leasing, AtHandler
<1>8. NotedOK' /\ BegunOK'
  BY <1>2, <1>3, <1>4, <1>5 DEF NotedOK, BegunOK
<1>9. StreamOK' /\ UnsafeHandlerAtMostOnce'
  BY <1>2, <1>3, <1>4, <1>5 DEF StreamOK, Told, UnsafeHandlerAtMostOnce
<1> QED
  BY <1>6, <1>7, <1>8, <1>9

LEMMA BeginInv ==
  ASSUME IInv, Begin PROVE IInv'
<1> USE HandlersAre DEF IInv
<1>1. /\ disp.pc = "claimed" /\ Goto("next") /\ disp \in Pass
      /\ UNCHANGED <<fact, up, rec, note, older, stream, runs, faults>>
  BY DEF Begin, Working, TypeOK
<1>2. /\ disp' \in Pass /\ disp'.pc = "next" /\ disp'.event = disp.event
      /\ disp'.at = disp.at /\ disp'.failed = disp.failed
  BY <1>1, PassMoves
<1>3. TypeOK' /\ LeaseOK' /\ UnsafeHandlerAtMostOnce'
  BY <1>1, <1>2 DEF TypeOK, LeaseOK, UnsafeHandlerAtMostOnce
<1>4. DispOK' /\ PassOK'
  BY <1>1, <1>2 DEF DispOK, PassOK, Leasing, AtHandler
<1>5. NotedOK' /\ BegunOK' /\ StreamOK'
  BY <1>1, <1>2 DEF NotedOK, BegunOK, StreamOK, Told
<1> QED
  BY <1>3, <1>4, <1>5

LEMMA StartInv ==
  ASSUME IInv, Start PROVE IInv'
<1> USE HandlersAre DEF IInv
<1> DEFINE e == disp.event
<1>1. /\ up /\ disp \in Pass /\ disp.pc = "next" /\ disp.at \in 1 .. Len(Handlers)
      /\ e \in Event /\ rec[e] \in Record /\ rec[e].owner = "this" /\ h \in Handler
      /\ UNCHANGED <<fact, up, note, older, stream, runs, faults>>
  BY DEF Start, Working, TypeOK, Pass, DispOK, Leasing, h
<1>2. /\ disp' \in Pass /\ disp'.pc = "run" /\ disp'.event = e
      /\ disp'.at = disp.at /\ disp'.failed = disp.failed
  BY <1>1, PassMoves DEF Start
<1>3. /\ rec' \in [Event -> Record]
      /\ \A x \in Event : x # e => rec'[x] = rec[x]
      /\ rec'[e].status = rec[e].status /\ rec'[e].owner = rec[e].owner
      /\ rec'[e].completed = rec[e].completed /\ rec[e].started \subseteq rec'[e].started
      /\ h \in RetrySafe \/ h \in rec'[e].started
  <2>1. CASE h \in RetrySafe /\ UNCHANGED rec
    BY <1>1, <2>1 DEF TypeOK
  <2>2. CASE Save([rec[e] EXCEPT !.started = @ \cup {h}])
    <3>1. [rec[e] EXCEPT !.started = @ \cup {h}] \in Record
      BY <1>1, RecordMarks
    <3>2. /\ rec' \in [Event -> Record]
          /\ rec'[e] = [rec[e] EXCEPT !.started = @ \cup {h}]
          /\ \A x \in Event : x # e => rec'[x] = rec[x]
      BY <1>1, <2>2, <3>1, SaveChanges
    <3> QED
      BY <1>1, <3>2 DEF Record
  <2> QED
    BY <2>1, <2>2 DEF Start
<1>4. TypeOK' /\ LeaseOK' /\ UnsafeHandlerAtMostOnce'
  <2>1. TypeOK'
    <3>1. disp' \in Pass /\ rec' \in [Event -> Record]
      BY <1>2, <1>3
    <3> QED
      BY <1>1, <3>1 DEF TypeOK
  <2>2. LeaseOK'
    BY <1>1, <1>3 DEF LeaseOK
  <2>3. UnsafeHandlerAtMostOnce'
    BY <1>1 DEF UnsafeHandlerAtMostOnce
  <2> QED
    BY <2>1, <2>2, <2>3
<1>5. DispOK' /\ PassOK'
  BY <1>1, <1>2, <1>3 DEF DispOK, PassOK, Leasing, AtHandler
<1>6. NotedOK'
  BY <1>1, <1>2, <1>3 DEF NotedOK
<1>7. BegunOK'
  <2>1. h \notin RetrySafe => h \notin Range(runs[e])
    BY <1>1 DEF BegunOK, Start
  <2> QED
    BY <1>1, <1>2, <1>3, <2>1 DEF BegunOK, h
<1>8. StreamOK'
  BY <1>1, <1>2, <1>3 DEF StreamOK, Told
<1> QED
  BY <1>4, <1>5, <1>6, <1>7, <1>8

LEMMA HandleInv ==
  ASSUME IInv, Handle PROVE IInv'
<1> USE HandlersAre DEF IInv
<1> DEFINE e == disp.event
<1>1. /\ up /\ disp \in Pass /\ disp.pc = "run" /\ disp.at \in 1 .. Len(Handlers)
      /\ e \in Event /\ h \in Handler /\ h # Notifier /\ runs \in [Event -> Seq(Handler)]
      /\ runs' = [runs EXCEPT ![e] = Append(runs[e], h)]
      /\ UNCHANGED <<fact, up, rec, note, older, stream, faults>>
  BY DEF Handle, Working, TypeOK, Pass, DispOK, AtHandler, h
<1>2. /\ disp' \in Pass /\ disp'.pc = "done" /\ disp'.event = e
      /\ disp'.at = disp.at /\ disp'.failed = disp.failed /\ h' = h
  BY <1>1, PassMoves DEF Handle, h
<1>3. /\ runs' \in [Event -> Seq(Handler)] /\ runs'[e] = Append(runs[e], h)
      /\ \A x \in Event : x # e => runs'[x] = runs[x]
      /\ Range(runs'[e]) = Range(runs[e]) \cup {h}
  <2>1. Append(runs[e], h) \in Seq(Handler) /\ Range(Append(runs[e], h)) = Range(runs[e]) \cup {h}
    BY <1>1, RangeOfAppend
  <2> QED
    BY <1>1, <2>1
<1>4. TypeOK' /\ LeaseOK'
  BY <1>1, <1>2, <1>3 DEF TypeOK, LeaseOK
<1>5. DispOK' /\ PassOK'
  BY <1>1, <1>2 DEF DispOK, PassOK, Leasing, AtHandler
<1>6. NotedOK' /\ StreamOK'
  BY <1>1, <1>2 DEF NotedOK, StreamOK, Told
<1>7. BegunOK'
  BY <1>1, <1>2, <1>3 DEF BegunOK
<1>8. UnsafeHandlerAtMostOnce'
  <2>1. h \in RetrySafe \/ h \notin Range(runs[e])
    BY <1>1 DEF BegunOK
  <2>2. /\ DOMAIN runs'[e] = 1 .. Len(runs[e]) + 1 /\ DOMAIN runs[e] = 1 .. Len(runs[e])
        /\ Len(runs[e]) \in Nat /\ runs'[e][Len(runs[e]) + 1] = h
        /\ \A i \in 1 .. Len(runs[e]) : runs'[e][i] = runs[e][i]
    BY <1>1, <1>3, AppendProperties
  <2>3. ASSUME NEW i \in DOMAIN runs'[e], NEW j \in DOMAIN runs'[e],
               runs'[e][i] = runs'[e][j], runs'[e][i] \notin RetrySafe
        PROVE  i = j
    <3>1. CASE i \in 1 .. Len(runs[e]) /\ j \in 1 .. Len(runs[e])
      BY <1>1, <2>2, <2>3, <3>1 DEF UnsafeHandlerAtMostOnce
    <3>2. CASE i \in 1 .. Len(runs[e]) /\ j = Len(runs[e]) + 1
      <4>1. runs'[e][j] = h /\ runs'[e][i] = runs[e][i]
        BY <2>2, <3>2
      <4>2. runs[e][i] \in Range(runs[e])
        BY <2>2, <3>2 DEF Range
      <4> QED
        BY <2>1, <2>3, <4>1, <4>2
    <3>3. CASE i = Len(runs[e]) + 1 /\ j \in 1 .. Len(runs[e])
      <4>1. runs'[e][i] = h /\ runs'[e][j] = runs[e][j]
        BY <2>2, <3>3
      <4>2. runs[e][j] \in Range(runs[e])
        BY <2>2, <3>3 DEF Range
      <4> QED
        BY <2>1, <2>3, <4>1, <4>2
    <3>4. CASE i = Len(runs[e]) + 1 /\ j = Len(runs[e]) + 1
      BY <3>4
    <3>5. \A k \in DOMAIN runs'[e] : k \in 1 .. Len(runs[e]) \/ k = Len(runs[e]) + 1
      BY <2>2
    <3> QED
      BY <3>1, <3>2, <3>3, <3>4, <3>5
  <2>4. ASSUME NEW x \in Event, x # e
        PROVE  \A i, j \in DOMAIN runs'[x] :
                 runs'[x][i] = runs'[x][j] /\ runs'[x][i] \notin RetrySafe => i = j
    BY <1>3, <2>4 DEF UnsafeHandlerAtMostOnce
  <2> QED
    BY <2>3, <2>4 DEF UnsafeHandlerAtMostOnce
<1> QED
  BY <1>4, <1>5, <1>6, <1>7, <1>8

LEMMA NotifyInv ==
  ASSUME IInv, Notify PROVE IInv'
<1> USE HandlersAre DEF IInv
<1> DEFINE e == disp.event
<1>1. /\ up /\ disp \in Pass /\ disp.pc = "run" /\ disp.at \in 1 .. Len(Handlers)
      /\ e \in Event /\ h = Notifier
      /\ UNCHANGED <<fact, up, rec, stream, runs, faults>>
  BY DEF Notify, Working, TypeOK, Pass, DispOK, AtHandler
<1>2. /\ disp' \in Pass /\ disp'.pc = "push" /\ disp'.event = e
      /\ disp'.at = disp.at /\ disp'.failed = disp.failed /\ h' = h
  BY <1>1, PassMoves DEF Notify, h
<1>3. /\ note' \in [Event -> {"NONE", "PENDING", "ACKNOWLEDGED"}] /\ note'[e] # "NONE"
      /\ \A x \in Event : note'[x] = note[x] \/ (x = e /\ note[x] = "NONE")
  BY <1>1 DEF Notify, TypeOK
<1>4. TypeOK' /\ LeaseOK' /\ UnsafeHandlerAtMostOnce'
  <2>1. older' \subseteq Event \X Event
    BY <1>1 DEF Notify, TypeOK, Pending
  <2> QED
    BY <1>1, <1>2, <1>3, <2>1 DEF TypeOK, LeaseOK, UnsafeHandlerAtMostOnce
<1>5. DispOK' /\ PassOK'
  BY <1>1, <1>2 DEF DispOK, PassOK, Leasing, AtHandler
<1>6. NotedOK' /\ BegunOK'
  <2> DEFINE P == {x \in Event : note[x] = "PENDING"}
  <2>1. IsFiniteSet(P) /\ IsFiniteSet(P \cup {e})
    BY FS_AddElement DEF NotedOK
  <2>2. {x \in Event : note'[x] = "PENDING"} \subseteq P \cup {e}
    BY <1>3
  <2>3. IsFiniteSet({x \in Event : note'[x] = "PENDING"})
    BY <2>1, <2>2, FS_Subset
  <2> QED
    BY <1>1, <1>2, <1>3, <2>3 DEF NotedOK, BegunOK
<1>7. StreamOK'
  BY <1>1, <1>2, <1>3 DEF StreamOK, Told, NotedOK
<1> QED
  BY <1>4, <1>5, <1>6, <1>7

LEMMA PushedHolds ==
  ASSUME NEW s \in Reader, Len(s.queue) <= QueueSize, disp.event \in Event
  PROVE  /\ Pushed(s) \in Reader /\ Len(Pushed(s).queue) <= QueueSize
         /\ Pushed(s).pc = s.pc /\ Pushed(s).seen = s.seen /\ Pushed(s).missed = s.missed
         /\ ~s.listens => Pushed(s) = s
         /\ s.listens =>
              \/ /\ Pushed(s).listens
                 /\ Range(Pushed(s).queue) = Range(s.queue) \cup {disp.event}
              \/ None \in Range(Pushed(s).queue)
<1> USE OutboxAssumption DEF OutboxAssumption
<1>1. s.queue \in Seq(Event \cup {None}) /\ disp.event \in Event \cup {None}
  BY DEF Reader
<1>2. CASE ~s.listens
  BY <1>2 DEF Pushed
<1>3. CASE s.listens /\ Len(s.queue) < QueueSize
  <2>1. /\ Append(s.queue, disp.event) \in Seq(Event \cup {None})
        /\ Range(Append(s.queue, disp.event)) = Range(s.queue) \cup {disp.event}
    BY <1>1, RangeOfAppend
  <2>2. Len(Append(s.queue, disp.event)) = Len(s.queue) + 1 /\ Len(s.queue) \in Nat
    BY <1>1, AppendProperties
  <2>3. Pushed(s) = [s EXCEPT !.queue = Append(s.queue, disp.event)]
    BY <1>3 DEF Pushed
  <2>4. /\ Pushed(s) \in Reader /\ Pushed(s).queue = Append(s.queue, disp.event)
        /\ Pushed(s).pc = s.pc /\ Pushed(s).seen = s.seen /\ Pushed(s).missed = s.missed
        /\ Pushed(s).listens = s.listens
    BY <2>1, <2>3 DEF Reader
  <2> QED
    BY <1>3, <2>1, <2>2, <2>4
<1>4. CASE s.listens /\ ~(Len(s.queue) < QueueSize)
  <2>1. <<None>> \in Seq(Event \cup {None}) /\ Len(<<None>>) = 1 /\ <<None>>[1] = None
    OBVIOUS
  <2>2. Pushed(s) = [s EXCEPT !.queue = <<None>>, !.listens = FALSE]
    BY <1>4 DEF Pushed
  <2>3. /\ Pushed(s) \in Reader /\ Pushed(s).queue = <<None>>
        /\ Pushed(s).pc = s.pc /\ Pushed(s).seen = s.seen /\ Pushed(s).missed = s.missed
    BY <2>1, <2>2 DEF Reader
  <2>4. None \in Range(<<None>>)
    BY <2>1 DEF Range
  <2> QED
    BY <1>4, <2>1, <2>3, <2>4
<1> QED
  BY <1>2, <1>3, <1>4

LEMMA PushInv ==
  ASSUME IInv, Push PROVE IInv'
<1> USE HandlersAre DEF IInv
<1> DEFINE e == disp.event
<1>1. /\ up /\ disp \in Pass /\ disp.pc = "push" /\ e \in Event /\ h = Notifier
      /\ disp.at <= Len(Handlers) /\ stream' = [s \in Stream |-> Pushed(stream[s])]
      /\ UNCHANGED <<fact, up, rec, note, older, runs, faults>>
  BY DEF Push, Working, TypeOK, DispOK, AtHandler
<1>2. /\ disp' \in Pass /\ disp'.pc = "done" /\ disp'.event = e
      /\ disp'.at = disp.at /\ disp'.failed = disp.failed /\ h' = h
  BY <1>1, PassMoves DEF Push, h
<1>3. ASSUME NEW s \in Stream
      PROVE  /\ stream'[s] \in Reader /\ Len(stream'[s].queue) <= QueueSize
             /\ stream'[s].pc = stream[s].pc /\ stream'[s].seen = stream[s].seen
             /\ stream'[s].missed = stream[s].missed
             /\ ~stream[s].listens => stream'[s] = stream[s]
             /\ stream[s].listens =>
                  \/ stream'[s].listens /\ Range(stream'[s].queue) = Range(stream[s].queue) \cup {e}
                  \/ None \in Range(stream'[s].queue)
  <2>1. stream[s] \in Reader /\ Len(stream[s].queue) <= QueueSize /\ stream'[s] = Pushed(stream[s])
    BY <1>1 DEF TypeOK
  <2> QED
    BY <1>1, <2>1, PushedHolds
<1>4. TypeOK' /\ LeaseOK' /\ UnsafeHandlerAtMostOnce'
  BY <1>1, <1>2, <1>3 DEF TypeOK, LeaseOK, UnsafeHandlerAtMostOnce
<1>5. DispOK' /\ PassOK'
  BY <1>1, <1>2 DEF DispOK, PassOK, Leasing, AtHandler
<1>6. NotedOK' /\ BegunOK'
  BY <1>1, <1>2 DEF NotedOK, BegunOK
<1>7. StreamOK'
  <2>1. ASSUME NEW s \in Stream, stream'[s].pc # "off", ~stream'[s].listens
        PROVE  None \in Range(stream'[s].queue)
    BY <1>3, <2>1 DEF StreamOK
  <2>2. ASSUME NEW s \in Stream, NEW x \in Event,
               stream'[s].pc = "live", note[x] = "PENDING", Told(x)'
        PROVE  \/ x \in stream'[s].seen \cup stream'[s].missed
               \/ {x, None} \cap Range(stream'[s].queue) # {}
    <3>1. Told(x) \/ x = e
      BY <1>1, <1>2, <2>2 DEF Told
    <3>2. CASE ~stream[s].listens
      BY <1>3, <2>2, <3>2 DEF StreamOK
    <3>3. CASE stream[s].listens
      <4>1. /\ stream[s].pc = "live" /\ stream'[s].seen = stream[s].seen
            /\ stream'[s].missed = stream[s].missed
            /\ \/ Range(stream'[s].queue) = Range(stream[s].queue) \cup {e}
               \/ None \in Range(stream'[s].queue)
        BY <1>3, <2>2, <3>3
      <4>2. Told(x) => \/ x \in stream[s].seen \cup stream[s].missed
                       \/ {x, None} \cap Range(stream[s].queue) # {}
        BY <1>1, <2>2, <4>1 DEF StreamOK
      <4> QED
        BY <3>1, <4>1, <4>2
    <3> QED
      BY <3>2, <3>3
  <2> QED
    BY <1>1, <2>1, <2>2 DEF StreamOK
<1> QED
  BY <1>4, <1>5, <1>6, <1>7

LEMMA CompletedInv ==
  ASSUME IInv, Completed PROVE IInv'
<1> USE HandlersAre DEF IInv
<1> DEFINE e == disp.event
<1>1. /\ up /\ disp \in Pass /\ disp.pc = "done" /\ disp.at \in 1 .. Len(Handlers)
      /\ e \in Event /\ rec[e] \in Record /\ rec[e].owner = "this" /\ h \in Handler
      /\ UNCHANGED <<fact, up, note, older, stream, runs, faults>>
  BY DEF Completed, Working, TypeOK, Pass, DispOK, Leasing, AtHandler, h
<1>2. /\ disp' \in Pass /\ disp'.pc = "next" /\ disp'.event = e
      /\ disp'.at = disp.at + 1 /\ disp'.failed = disp.failed
  BY <1>1, GoOnAdvances DEF Completed
<1>3. /\ rec' \in [Event -> Record]
      /\ rec'[e] = [rec[e] EXCEPT !.completed = @ \cup {h}, !.started = @ \ {h}]
      /\ \A x \in Event : x # e => rec'[x] = rec[x]
  <2>1. [rec[e] EXCEPT !.completed = @ \cup {h}, !.started = @ \ {h}] \in Record
    BY <1>1, RecordMarks
  <2> QED
    BY <1>1, <2>1, SaveChanges DEF Completed
<1>4. /\ rec'[e].status = rec[e].status /\ rec'[e].owner = rec[e].owner
      /\ rec'[e].completed = rec[e].completed \cup {h} /\ rec'[e].started = rec[e].started \ {h}
  BY <1>1, <1>3 DEF Record
<1>5. TypeOK' /\ LeaseOK' /\ UnsafeHandlerAtMostOnce'
  <2>1. TypeOK'
    <3>1. disp' \in Pass /\ rec' \in [Event -> Record]
      BY <1>2, <1>3
    <3> QED
      BY <1>1, <3>1 DEF TypeOK
  <2>2. LeaseOK'
    BY <1>1, <1>3, <1>4 DEF LeaseOK
  <2>3. UnsafeHandlerAtMostOnce'
    BY <1>1 DEF UnsafeHandlerAtMostOnce
  <2> QED
    BY <2>1, <2>2, <2>3
<1>6. DispOK'
  BY <1>1, <1>2, <1>3, <1>4 DEF DispOK, Leasing, AtHandler
<1>7. PassOK'
  <2>1. ASSUME ~disp'.failed, NEW i \in 1 .. disp'.at - 1
        PROVE  Handlers[i] \in rec'[e].completed
    <3>1. i \in 1 .. disp.at - 1 \/ i = disp.at
      BY <1>1, <1>2
    <3> QED
      BY <1>1, <1>2, <1>4, <2>1, <3>1 DEF PassOK, Leasing, h
  <2>2. rec[e].status = "DISPATCHING"
    BY <1>1 DEF LeaseOK
  <2> QED
    BY <1>2, <1>3, <1>4, <2>1, <2>2 DEF PassOK
<1>8. NotedOK'
  BY <1>1, <1>2, <1>3, <1>4 DEF NotedOK
<1>9. BegunOK'
  BY <1>1, <1>2, <1>3, <1>4 DEF BegunOK
<1>10. StreamOK'
  <2>1. \A x \in Event : Told(x)' => Told(x)
    BY <1>1, <1>2, <1>3, <1>4 DEF Told
  <2> QED
    BY <1>1, <2>1 DEF StreamOK
<1> QED
  BY <1>5, <1>6, <1>7, <1>8, <1>9, <1>10

LEMMA ConcludeInv ==
  ASSUME IInv, Conclude PROVE IInv'
<1> USE HandlersAre DEF IInv
<1> DEFINE e == disp.event
           r == [rec[e] EXCEPT !.status = Outcome, !.owner = "none", !.expired = FALSE,
                               !.due = FALSE]
<1>1. /\ up /\ disp \in Pass /\ disp.pc = "next" /\ disp.at = Len(Handlers) + 1
      /\ e \in Event /\ rec[e] \in Record /\ rec[e].owner = "this" /\ Save(r)
      /\ UNCHANGED <<fact, up, note, older, stream, runs, faults>>
  BY DEF Conclude, TypeOK, Pass, DispOK, Leasing
<1>2. disp' \in Pass /\ disp'.pc = "audit" /\ disp'.event = e
  BY <1>1, PassMoves DEF Conclude
<1>3. Outcome \in {"DELIVERED", "PENDING", "FAILED"} /\ (Outcome = "DELIVERED" => ~disp.failed)
  BY DEF Outcome
<1>4. /\ rec' \in [Event -> Record] /\ rec'[e] = r
      /\ \A x \in Event : x # e => rec'[x] = rec[x]
  <2>1. r \in Record
    BY <1>1, <1>3 DEF Record, Closed
  <2> QED
    BY <1>1, <2>1, SaveChanges
<1>5. /\ rec'[e].status = Outcome /\ rec'[e].owner = "none"
      /\ rec'[e].completed = rec[e].completed /\ rec'[e].started = rec[e].started
  BY <1>1, <1>4 DEF Record
<1>6. TypeOK' /\ LeaseOK' /\ UnsafeHandlerAtMostOnce'
  <2>1. TypeOK'
    <3>1. disp' \in Pass /\ rec' \in [Event -> Record]
      BY <1>2, <1>4
    <3> QED
      BY <1>1, <3>1 DEF TypeOK
  <2>2. LeaseOK'
    BY <1>4, <1>5 DEF LeaseOK
  <2>3. UnsafeHandlerAtMostOnce'
    BY <1>1 DEF UnsafeHandlerAtMostOnce
  <2> QED
    BY <2>1, <2>2, <2>3
<1>7. DispOK'
  BY <1>1, <1>2 DEF DispOK, Leasing, AtHandler
<1>8. PassOK'
  <2>1. Outcome = "DELIVERED" => rec[e].completed = Handler
    <3>1. rec[e].completed \subseteq Handler
      BY <1>1 DEF Record
    <3>2. ASSUME ~disp.failed, NEW x \in Handler PROVE x \in rec[e].completed
      <4>1. PICK i \in 1 .. Len(Handlers) : x = Handlers[i]
        OBVIOUS
      <4> QED
        BY <1>1, <3>2, <4>1 DEF PassOK, Leasing
    <3> QED
      BY <1>3, <3>1, <3>2
  <2> QED
    BY <1>2, <1>4, <1>5, <2>1 DEF PassOK, Leasing
<1>9. NotedOK' /\ BegunOK'
  BY <1>1, <1>2, <1>4, <1>5 DEF NotedOK, BegunOK
<1>10. StreamOK'
  <2>1. \A x \in Event : Told(x)' => Told(x)
    BY <1>2, <1>4, <1>5 DEF Told
  <2> QED
    BY <1>1, <2>1 DEF StreamOK
<1> QED
  BY <1>6, <1>7, <1>8, <1>9, <1>10

(* The pass ends, with its rows as they are.                               *)
LEMMA PassEndsInv ==
  ASSUME IInv, Audited \/ DispatchBreaks PROVE IInv'
<1> USE HandlersAre DEF IInv
<1>1. disp' = Rest /\ UNCHANGED <<fact, up, rec, note, older, stream, runs>>
  BY DEF Audited, DispatchBreaks
<1>2. disp' \in Pass /\ disp'.pc = "idle"
  BY <1>1, RestAndOff DEF Rest
<1>3. faults' \in 0 .. MaxFaults
  BY OutboxAssumption DEF OutboxAssumption, TypeOK, Audited, DispatchBreaks
<1>4. TypeOK' /\ LeaseOK' /\ UnsafeHandlerAtMostOnce'
  BY <1>1, <1>2, <1>3 DEF TypeOK, LeaseOK, UnsafeHandlerAtMostOnce
<1>5. DispOK' /\ PassOK' /\ NotedOK' /\ BegunOK'
  BY <1>1, <1>2 DEF DispOK, PassOK, NotedOK, BegunOK, Leasing, AtHandler
<1>6. StreamOK'
  BY <1>1, <1>2 DEF StreamOK, Told
<1> QED
  BY <1>4, <1>5, <1>6

(* An event is stored, withdrawn, or its time comes.                       *)
LEMMA RowsInv ==
  ASSUME IInv,
         Collect \/ \E e \in Event : Publish(e) \/ Withdraw(e) \/ BackoffEnds(e) \/ LeaseExpires(e)
  PROVE  IInv'
<1> USE HandlersAre DEF IInv
<1>1. UNCHANGED <<fact, up, note, older, disp, stream, runs, faults>>
  BY DEF Collect, Publish, Withdraw, BackoffEnds, LeaseExpires
<1>2. /\ rec' \in [Event -> Record]
      /\ \A x \in Event :
           /\ rec'[x].completed = rec[x].completed /\ rec'[x].started = rec[x].started
           /\ rec'[x].owner = rec[x].owner
           /\ rec'[x].owner # "none" => rec'[x].status = "DISPATCHING"
           /\ rec'[x].status = "DELIVERED" => rec[x].status = "DELIVERED"
  <2>1. CASE Collect \/ \E e \in Event : Publish(e)
    <3>1. PICK b \in SUBSET Event : (\A x \in b : rec[x].status = "ABSENT") /\ Stores(b)
      BY <2>1 DEF Collect, Uncollected, Publish
    <3>2. ASSUME NEW x \in Event
          PROVE  \/ rec'[x] = rec[x]
                 \/ x \in b /\ rec'[x] = [rec[x] EXCEPT !.status = "PENDING", !.due = TRUE]
      BY <3>1 DEF Stores
    <3>3. ASSUME NEW x \in Event PROVE rec[x] \in Record /\ rec'[x] \in Record
      <4>1. rec[x] \in Record
        BY DEF TypeOK
      <4>2. [rec[x] EXCEPT !.status = "PENDING", !.due = TRUE] \in Record
        BY <4>1, RecordUpdates
      <4> QED
        BY <3>2, <4>1, <4>2
    <3>4. rec' \in [Event -> Record]
      BY <3>1, <3>3 DEF Stores
    <3>5. ASSUME NEW x \in Event
          PROVE  /\ rec'[x].completed = rec[x].completed /\ rec'[x].started = rec[x].started
                 /\ rec'[x].owner = rec[x].owner
                 /\ rec'[x].owner # "none" => rec'[x].status = "DISPATCHING"
                 /\ rec'[x].status = "DELIVERED" => rec[x].status = "DELIVERED"
      <4>1. CASE rec'[x] = rec[x]
        BY <4>1 DEF LeaseOK
      <4>2. CASE x \in b /\ rec'[x] = [rec[x] EXCEPT !.status = "PENDING", !.due = TRUE]
        BY <3>1, <3>3, <4>2 DEF LeaseOK, Record
      <4> QED
        BY <3>2, <4>1, <4>2
    <3> QED
      BY <3>4, <3>5
  <2>2. ASSUME NEW e \in Event, Withdraw(e) \/ BackoffEnds(e) \/ LeaseExpires(e)
        PROVE  <1>2!1 /\ <1>2!2
    <3>1. rec[e] \in Record
      BY DEF TypeOK
    <3>2. PICK r \in Record :
            /\ rec' = [rec EXCEPT ![e] = r]
            /\ r.completed = rec[e].completed /\ r.started = rec[e].started
            /\ r.owner = rec[e].owner
            /\ r.status = rec[e].status \/ (rec[e].status = "PENDING" /\ r.status = "CANCELLED")
      <4>1. CASE Withdraw(e)
        <5> DEFINE r == [rec[e] EXCEPT !.status = "CANCELLED"]
        <5>1. r \in Record /\ rec' = [rec EXCEPT ![e] = r] /\ rec[e].status = "PENDING"
          BY <3>1, <4>1, RecordUpdates DEF Withdraw
        <5>2. /\ r.completed = rec[e].completed /\ r.started = rec[e].started
              /\ r.owner = rec[e].owner /\ r.status = "CANCELLED"
          BY <3>1 DEF Record
        <5> QED
          BY <5>1, <5>2
      <4>2. CASE BackoffEnds(e)
        <5> DEFINE r == [rec[e] EXCEPT !.due = TRUE]
        <5>1. r \in Record /\ rec' = [rec EXCEPT ![e] = r]
          BY <3>1, <4>2, RecordUpdates DEF BackoffEnds
        <5>2. /\ r.completed = rec[e].completed /\ r.started = rec[e].started
              /\ r.owner = rec[e].owner /\ r.status = rec[e].status
          BY <3>1 DEF Record
        <5> QED
          BY <5>1, <5>2
      <4>3. CASE LeaseExpires(e)
        <5> DEFINE r == [rec[e] EXCEPT !.expired = TRUE]
        <5>1. r \in Record /\ rec' = [rec EXCEPT ![e] = r]
          BY <3>1, <4>3, RecordUpdates DEF LeaseExpires
        <5>2. /\ r.completed = rec[e].completed /\ r.started = rec[e].started
              /\ r.owner = rec[e].owner /\ r.status = rec[e].status
          BY <3>1 DEF Record
        <5> QED
          BY <5>1, <5>2
      <4> QED
        BY <2>2, <4>1, <4>2, <4>3
    <3>3. rec' \in [Event -> Record] /\ rec'[e] = r /\ \A x \in Event : x # e => rec'[x] = rec[x]
      BY <3>2, RowChanges
    <3> QED
      BY <3>2, <3>3 DEF LeaseOK
  <2> QED
    BY <2>1, <2>2
<1>3. TypeOK' /\ LeaseOK' /\ RowsOnly
  BY <1>1, <1>2 DEF TypeOK, LeaseOK, RowsOnly
<1> QED
  BY <1>3, RowsOnlyInv

LEMMA HappenedInv ==
  ASSUME IInv, \E e \in Event : Happens(e) \/ Passes(e) PROVE IInv'
<1> USE DEF IInv
<1>1. UNCHANGED <<up, rec, note, older, disp, stream, runs, faults>>
  BY DEF Happens, Passes
<1>2. fact' \in [Event -> BOOLEAN]
  BY DEF Happens, Passes, TypeOK
<1>3. TypeOK' /\ LeaseOK' /\ RowsOnly
  BY <1>1, <1>2 DEF TypeOK, LeaseOK, RowsOnly
<1> QED
  BY <1>3, RowsOnlyInv

LEMMA AcknowledgeInv ==
  ASSUME IInv, NEW e \in Event, Acknowledge(e) PROVE IInv'
<1> USE DEF IInv
<1>1. UNCHANGED <<fact, up, rec, disp, stream, runs, faults>>
  BY DEF Acknowledge
<1>2. /\ note' \in [Event -> {"NONE", "PENDING", "ACKNOWLEDGED"}]
      /\ \A x \in Event : note'[x] = note[x] \/ (note[x] = "PENDING" /\ note'[x] = "ACKNOWLEDGED")
  BY DEF Acknowledge, TypeOK
<1>3. TypeOK' /\ LeaseOK' /\ UnsafeHandlerAtMostOnce'
  BY <1>1, <1>2 DEF TypeOK, LeaseOK, UnsafeHandlerAtMostOnce, Acknowledge
<1>4. DispOK' /\ PassOK' /\ BegunOK'
  BY <1>1 DEF DispOK, PassOK, BegunOK, h
<1>5. NotedOK'
  <2>1. {x \in Event : note'[x] = "PENDING"} \subseteq {x \in Event : note[x] = "PENDING"}
    BY <1>2
  <2>2. IsFiniteSet({x \in Event : note'[x] = "PENDING"})
    BY <2>1, FS_Subset DEF NotedOK
  <2> QED
    BY <1>1, <1>2, <2>2 DEF NotedOK, DispOK, h
<1>6. StreamOK'
  BY <1>1, <1>2 DEF StreamOK, Told, h
<1> QED
  BY <1>3, <1>4, <1>5, <1>6

(* One stream changes: it is off, has just begun to listen, has read what  *)
(* is pending, or has taken one from its queue.                            *)
StreamMoves(s) ==
  /\ UNCHANGED <<fact, up, rec, note, older, disp, runs, faults>>
  /\ stream' \in [Stream -> Reader] /\ \A t \in Stream : t # s => stream'[t] = stream[t]
  /\ Len(stream'[s].queue) <= QueueSize
  /\ stream'[s].pc # "off" /\ ~stream'[s].listens => None \in Range(stream'[s].queue)
  /\ \A e \in Event :
       stream'[s].pc = "live" /\ note[e] = "PENDING" /\ Told(e) =>
         \/ e \in stream'[s].seen \cup stream'[s].missed
         \/ {e, None} \cap Range(stream'[s].queue) # {}

LEMMA StreamMovesInv ==
  ASSUME IInv, NEW s \in Stream, StreamMoves(s) PROVE IInv'
<1> USE DEF IInv, StreamMoves
<1>1. TypeOK' /\ LeaseOK' /\ UnsafeHandlerAtMostOnce'
  BY DEF TypeOK, LeaseOK, UnsafeHandlerAtMostOnce
<1>2. DispOK' /\ PassOK' /\ NotedOK' /\ BegunOK'
  BY DEF DispOK, PassOK, NotedOK, BegunOK, h
<1>3. \A e \in Event : Told(e)' <=> Told(e)
  BY DEF Told, h
<1>4. StreamOK'
  BY <1>3 DEF StreamOK
<1> QED
  BY <1>1, <1>2, <1>4

LEMMA ListenInv ==
  ASSUME IInv, NEW s \in Stream, Listen(s) \/ Hangup(s) PROVE IInv'
<1> USE DEF IInv
<1> DEFINE r == [Off EXCEPT !.pc = "sync", !.listens = TRUE]
<1>1. r \in Reader /\ r.pc = "sync" /\ r.listens /\ Len(r.queue) = 0
  <2>1. r \in Reader /\ r.pc = "sync" /\ r.listens /\ r.queue = Off.queue
    BY RestAndOff DEF Reader
  <2>2. Len(Off.queue) = 0
    BY DEF Off
  <2> QED
    BY <2>1, <2>2
<1>2. Off \in Reader /\ Off.pc = "off" /\ Len(Off.queue) = 0
  BY RestAndOff DEF Off
<1>3. PICK q \in {r, Off} : stream' = [stream EXCEPT ![s] = q]
  BY DEF Listen, Hangup
<1>4. /\ stream' \in [Stream -> Reader] /\ stream'[s] = q
      /\ \A t \in Stream : t # s => stream'[t] = stream[t]
  BY <1>1, <1>2, <1>3 DEF TypeOK
<1>5. UNCHANGED <<fact, up, rec, note, older, disp, runs, faults>>
  BY DEF Listen, Hangup
<1>6. Len(q.queue) <= QueueSize /\ q.pc # "live" /\ (q.pc = "off" \/ q.listens)
  <2>1. 0 <= QueueSize
    BY OutboxAssumption DEF OutboxAssumption
  <2>2. CASE q = r
    BY <1>1, <2>1, <2>2
  <2>3. CASE q = Off
    BY <1>2, <2>1, <2>3
  <2> QED
    BY <1>3, <2>2, <2>3
<1>7. StreamMoves(s)
  BY <1>4, <1>5, <1>6 DEF StreamMoves
<1> QED
  BY <1>7, StreamMovesInv

(* A page that leaves one out is full, and all on it are older.            *)
LEMMA PageIsFirst ==
  ASSUME NotedOK, NEW page \in SUBSET Pending, IsPage(page), NEW e \in Pending \ page
  PROVE  OffPage(page, e)
<1>1. IsFiniteSet(Pending)
  BY DEF NotedOK, Pending
<1>2. Cardinality(page) # Cardinality(Pending)
  BY <1>1, FS_Subset
<1> QED
  BY <1>2 DEF IsPage, Least, OffPage

LEMMA SyncInv ==
  ASSUME IInv, NEW s \in Stream, Sync(s) PROVE IInv'
<1> USE DEF IInv
<1>0. PICK page \in SUBSET Pending :
        /\ IsPage(page)
        /\ stream' = [stream EXCEPT ![s].pc = "live", ![s].seen = page,
                                    ![s].missed = {e \in Pending \ page : OffPage(page, e)}]
  BY DEF Sync
<1> DEFINE m == {e \in Pending \ page : OffPage(page, e)}
           r == [stream[s] EXCEPT !.pc = "live", !.seen = page, !.missed = m]
<1>1. stream[s] \in Reader /\ stream[s].pc = "sync" /\ stream' = [stream EXCEPT ![s] = r]
  BY <1>0 DEF Sync, TypeOK
<1>2. /\ r \in Reader /\ r.pc = "live" /\ r.seen = page /\ r.missed = m
      /\ r.queue = stream[s].queue /\ r.listens = stream[s].listens
  BY <1>1 DEF Reader, Pending
<1>8. m = Pending \ page
  BY <1>0, PageIsFirst
<1>3. /\ stream' \in [Stream -> Reader] /\ stream'[s] = r
      /\ \A t \in Stream : t # s => stream'[t] = stream[t]
  BY <1>1, <1>2 DEF TypeOK
<1>4. ~r.listens => None \in Range(r.queue)
  BY <1>1, <1>2 DEF StreamOK
<1>5. Len(r.queue) <= QueueSize
  BY <1>2 DEF TypeOK
<1>6. UNCHANGED <<fact, up, rec, note, older, disp, runs, faults>>
  BY DEF Sync
<1>7. StreamMoves(s)
  BY <1>2, <1>3, <1>4, <1>5, <1>6, <1>8 DEF StreamMoves, Pending
<1> QED
  BY <1>7, StreamMovesInv

LEMMA TakeInv ==
  ASSUME IInv, NEW s \in Stream, Take(s) PROVE IInv'
<1> USE DEF IInv
<1> DEFINE q == stream[s].queue
           x == Head(q)
           r == [stream[s] EXCEPT !.seen = @ \cup {x}, !.queue = Tail(q)]
<1>1. /\ stream[s] \in Reader /\ stream[s].pc = "live" /\ q # << >>
      /\ q \in Seq(Event \cup {None}) /\ Len(q) <= QueueSize
      /\ stream' = [stream EXCEPT ![s] = IF x = None THEN Off ELSE r]
      /\ UNCHANGED <<fact, up, rec, note, older, disp, runs, faults>>
  <2>1. stream[s] \in Reader /\ Len(q) <= QueueSize
    BY DEF TypeOK
  <2>2. q \in Seq(Event \cup {None})
    BY <2>1 DEF Reader
  <2>3. stream' = [stream EXCEPT ![s] = IF x = None THEN Off ELSE r]
    BY DEF Take, Taken
  <2> QED
    BY <2>1, <2>2, <2>3 DEF Take
<1>2. /\ x \in Event \cup {None} /\ Tail(q) \in Seq(Event \cup {None})
      /\ Len(Tail(q)) = Len(q) - 1 /\ \A y \in Range(q) : y = x \/ y \in Range(Tail(q))
  BY <1>1, RangeOfTail
<1>3. CASE x = None
  <2>1. Off \in Reader /\ Off.pc = "off" /\ Len(Off.queue) = 0
    BY RestAndOff DEF Off
  <2>2. /\ stream' \in [Stream -> Reader] /\ stream'[s] = Off
        /\ \A t \in Stream : t # s => stream'[t] = stream[t]
    BY <1>1, <1>3, <2>1 DEF TypeOK
  <2>3. Len(Off.queue) <= QueueSize
    BY <2>1, OutboxAssumption DEF OutboxAssumption
  <2>4. StreamMoves(s)
    BY <1>1, <2>1, <2>2, <2>3 DEF StreamMoves
  <2> QED
    BY <2>4, StreamMovesInv
<1>4. CASE x # None
  <2>1. stream[s].seen \cup {x} \in SUBSET Event
    BY <1>1, <1>2, <1>4 DEF Reader
  <2>2. /\ r \in Reader /\ r.pc = "live" /\ r.seen = stream[s].seen \cup {x}
        /\ r.queue = Tail(q) /\ r.listens = stream[s].listens /\ r.missed = stream[s].missed
    BY <1>1, <1>2, <2>1 DEF Reader
  <2>3. /\ stream' \in [Stream -> Reader] /\ stream'[s] = r
        /\ \A t \in Stream : t # s => stream'[t] = stream[t]
    BY <1>1, <1>4, <2>2 DEF TypeOK
  <2>4. Len(r.queue) <= QueueSize
    <3>1. Len(q) \in Nat
      BY <1>1
    <3> QED
      BY <1>1, <1>2, <2>2, <3>1, OutboxAssumption DEF OutboxAssumption
  <2>5. ~r.listens => None \in Range(r.queue)
    BY <1>1, <1>2, <1>4, <2>2 DEF StreamOK
  <2>6. ASSUME NEW e \in Event, note[e] = "PENDING", Told(e)
        PROVE  e \in r.seen \cup r.missed \/ {e, None} \cap Range(r.queue) # {}
    <3>1. e \in stream[s].seen \cup stream[s].missed \/ {e, None} \cap Range(q) # {}
      BY <1>1, <2>6 DEF StreamOK
    <3> QED
      BY <1>2, <1>4, <2>2, <3>1
  <2>7. StreamMoves(s)
    BY <1>1, <2>2, <2>3, <2>4, <2>5, <2>6 DEF StreamMoves
  <2> QED
    BY <2>7, StreamMovesInv
<1> QED
  BY <1>3, <1>4

(* The process goes, stopped or crashed, or another one comes.             *)
LEMMA DownInv ==
  ASSUME IInv, Down, faults' \in 0 .. MaxFaults, rec' \in [Event -> Record],
         \A x \in Event :
           /\ rec'[x].completed = rec[x].completed /\ rec'[x].started = rec[x].started
           /\ rec'[x].owner # "none" => rec'[x].status = "DISPATCHING"
           /\ rec'[x].status = "DELIVERED" => rec[x].status = "DELIVERED"
  PROVE  IInv'
<1> USE HandlersAre DEF IInv
<1>1. /\ up' = FALSE /\ disp' = Rest /\ stream' = [s \in Stream |-> Off]
      /\ UNCHANGED <<fact, note, older, runs>>
  BY DEF Down
<1>2. /\ Rest \in Pass /\ Rest.pc = "idle" /\ Off \in Reader /\ Off.pc = "off"
      /\ Len(Off.queue) = 0
  BY RestAndOff DEF Rest, Off
<1>3. TypeOK' /\ LeaseOK' /\ UnsafeHandlerAtMostOnce'
  <2>1. \A s \in Stream : stream'[s] = Off /\ Len(stream'[s].queue) <= QueueSize
    BY <1>1, <1>2, OutboxAssumption DEF OutboxAssumption
  <2>2. disp' \in Pass /\ stream' \in [Stream -> Reader]
    BY <1>1, <1>2
  <2>3. TypeOK'
    BY <1>1, <2>1, <2>2 DEF TypeOK
  <2> QED
    BY <1>1, <2>3 DEF LeaseOK, UnsafeHandlerAtMostOnce
<1>4. DispOK' /\ PassOK' /\ NotedOK' /\ BegunOK'
  BY <1>1, <1>2 DEF DispOK, PassOK, NotedOK, BegunOK, Leasing, AtHandler
<1>5. StreamOK'
  BY <1>1, <1>2 DEF StreamOK
<1> QED
  BY <1>3, <1>4, <1>5

LEMMA StopInv ==
  ASSUME IInv, Stop \/ Crash PROVE IInv'
<1> USE DEF IInv
<1>1. Down /\ faults' \in 0 .. MaxFaults
  BY OutboxAssumption DEF OutboxAssumption, Stop, Crash, TypeOK
<1>2. CASE UNCHANGED rec
  BY <1>1, <1>2, DownInv DEF TypeOK, LeaseOK
<1>3. CASE Stop /\ disp.pc \notin {"idle", "claimed"}
  <2> DEFINE e == disp.event
             r == [rec[e] EXCEPT !.status = "PENDING", !.owner = "none", !.expired = FALSE]
  <2>1. e \in Event /\ rec[e] \in Record /\ Save(r)
    BY <1>3 DEF Stop, DispOK, TypeOK
  <2>2. /\ r \in Record /\ r.completed = rec[e].completed /\ r.started = rec[e].started
        /\ r.owner = "none" /\ r.status = "PENDING"
    <3>1. r \in Record
      BY <2>1, RecordUpdates
    <3> QED
      BY <2>1, <3>1 DEF Record
  <2>3. /\ rec' \in [Event -> Record] /\ (rec'[e] = r \/ rec' = rec)
        /\ \A x \in Event : x # e => rec'[x] = rec[x]
    BY <2>1, <2>2, SaveChanges
  <2> QED
    BY <1>1, <2>1, <2>2, <2>3, DownInv DEF LeaseOK
<1> QED
  BY <1>2, <1>3 DEF Stop, Crash

LEMMA RestartInv ==
  ASSUME IInv, Restart PROVE IInv'
<1> USE DEF IInv
<1>1. ~up /\ up' = TRUE /\ UNCHANGED <<fact, note, older, disp, stream, runs, faults>>
  BY DEF Restart
<1>2. disp.pc = "idle"
  BY <1>1 DEF DispOK
<1>3. ASSUME NEW x \in Event
      PROVE  /\ rec'[x] \in Record
             /\ rec'[x].completed = rec[x].completed /\ rec'[x].started = rec[x].started
             /\ rec'[x].status = rec[x].status
             /\ rec'[x].owner # "none" => rec[x].owner # "none"
  <2>1. rec[x] \in Record /\ [rec[x] EXCEPT !.owner = "earlier"] \in Record
    BY RecordUpdates DEF TypeOK
  <2>2. rec'[x] = IF rec[x].owner = "this" THEN [rec[x] EXCEPT !.owner = "earlier"] ELSE rec[x]
    BY DEF Restart
  <2>3. CASE rec[x].owner = "this"
    BY <2>1, <2>2, <2>3 DEF Record
  <2>4. CASE rec[x].owner # "this"
    BY <2>1, <2>2, <2>4
  <2> QED
    BY <2>3, <2>4
<1>4. rec' \in [Event -> Record]
  BY <1>3 DEF Restart
<1>5. TypeOK' /\ LeaseOK' /\ UnsafeHandlerAtMostOnce'
  BY <1>1, <1>3, <1>4 DEF TypeOK, LeaseOK, UnsafeHandlerAtMostOnce
<1>6. DispOK' /\ PassOK' /\ NotedOK' /\ BegunOK'
  BY <1>1, <1>2, <1>3 DEF DispOK, PassOK, NotedOK, BegunOK, Leasing, AtHandler
<1>7. StreamOK'
  BY <1>1, <1>2, <1>3 DEF StreamOK, Told
<1> QED
  BY <1>5, <1>6, <1>7

LEMMA StepInv == IInv /\ [Next]_vars => IInv'
<1> SUFFICES ASSUME IInv, [Next]_vars PROVE IInv'
  OBVIOUS
<1>1. CASE UNCHANGED vars
  BY <1>1 DEF vars, IInv, TypeOK, LeaseOK, DispOK, PassOK, NotedOK, BegunOK, StreamOK, Told,
    UnsafeHandlerAtMostOnce, h
<1> QED
  BY <1>1, ClaimInv, BeginInv, SkipInv, StartInv, HandleInv, NotifyInv, PushInv, CompletedInv,
       HandlerFailsInv, ConcludeInv, PassEndsInv,
       RowsInv, HappenedInv, AcknowledgeInv, ListenInv, SyncInv, TakeInv, StopInv, RestartInv
     DEF Next, Dispatch

(* The strengthened invariant holds in every reachable state.              *)
THEOREM OutboxInvariance == Spec => []IInv
BY InitInv, StepInv, PTL DEF Spec

(* A handler that must not be repeated begins once at most for an event.   *)
THEOREM UnsafeHandlersRunOnce == Spec => []UnsafeHandlerAtMostOnce
<1>1. IInv => UnsafeHandlerAtMostOnce
  BY DEF IInv
<1> QED
  BY <1>1, OutboxInvariance, PTL

(* An event is DELIVERED only when every handler has completed it, and its *)
(* notification is stored.                                                 *)
THEOREM DeliveryStaysTrue == Spec => []DeliveryIsTrue
<1>1. IInv => DeliveryIsTrue
  BY HandlersAre DEF IInv, PassOK, NotedOK, DeliveryIsTrue, DeliveredToAll
<1> QED
  BY <1>1, OutboxInvariance, PTL

(* A stream that has synchronised misses no notification but those that    *)
(* were off the first page when it began.                                  *)
THEOREM StreamsLoseNothing == Spec => []StreamCannotLose
<1>1. IInv => StreamCannotLose
  BY DEF IInv, StreamOK, Told, StreamCannotLose
<1> QED
  BY <1>1, OutboxInvariance, PTL

(* What is settled stays settled.                                          *)
LEMMA SettledStep ==
  ASSUME IInv, [Next]_vars, NEW e \in Event, rec[e].status \in Closed
  PROVE  rec'[e].status = rec[e].status
<1> USE DEF IInv, TypeOK, Record, LeaseOK, Closed, Working
<1>1. rec[e].owner = "none"
  OBVIOUS
<1>2. ASSUME NEW r, Save(r) PROVE rec'[e].status = rec[e].status
  BY <1>1, <1>2 DEF Save
<1>3. ASSUME NEW b \in SUBSET Event, e \notin b, Stores(b) PROVE rec'[e].status = rec[e].status
  BY <1>3 DEF Stores
<1>4. CASE Start \/ Completed \/ Conclude \/ Stop
  BY <1>2, <1>4 DEF Start, Completed, Conclude, Stop
<1>5. CASE Collect \/ \E o \in Event : Publish(o)
  BY <1>3, <1>5 DEF Collect, Uncollected, Publish
<1>6. CASE Claim \/ Restart
  BY <1>6 DEF Claim, Restart
<1>7. CASE \E o \in Event : Withdraw(o) \/ BackoffEnds(o) \/ LeaseExpires(o)
  BY <1>7 DEF Withdraw, BackoffEnds, LeaseExpires
<1>8. CASE UNCHANGED rec
  BY <1>8
<1> QED
  BY <1>4, <1>5, <1>6, <1>7, <1>8
     DEF Next, Dispatch, Begin, Skip, Handle, Notify, Push, HandlerFails, Audited, DispatchBreaks,
       Happens, Passes, Acknowledge, Listen, Sync, Take, Hangup, Crash, vars

THEOREM SettledStays == Spec => SettledForGood
<1>1. IInv /\ [Next]_vars =>
        [\A e \in Event : rec[e].status \in Closed => rec'[e].status = rec[e].status]_vars
  BY SettledStep
<1> QED
  BY <1>1, OutboxInvariance, PTL DEF Spec, SettledForGood

(* ---------------------------- ScheduledTask ---------------------------- *)
(* Before the Task is created there is nothing; a Task that was asked to   *)
(* be cancelled is neither waiting nor working, and only that one is.      *)
TaskOK ==
  /\ task.status = "NONE" =>
       /\ call = "ABSENT" /\ sched = "NONE" /\ event = "NONE" /\ effects = 0
       /\ runner.pc = "none" /\ canceller = "idle"
  /\ task.cancelRequested =>
       task.status \notin {"NONE", "QUEUED", "RUNNING", "WAITING_SCHEDULE"}
  /\ task.status = "CANCELLED" =>
       task.cancelRequested /\ runner.pc \in {"none", "created", "new"}

(* Where the runner is tells what it knows.  There is one: the runner that *)
(* is to put the Task to sleep, or, at most once awake, the one that acts. *)
RunnerOK ==
  /\ runner.pc = "none" => ~runner.waits
  /\ runner.pc \in {"created", "started"} => runner.waits
  /\ runner.pc \in {"asleep", "invoke", "acting", "acted", "result"} => ~runner.waits
  /\ runner.pc \notin {"none", "created"} => registered
  /\ runner.cut => runner.pc \notin {"none", "created"}
  /\ runner.pc \notin {"none", "asleep", "finish"} => sched \in {"NONE", "COMPLETED"}
  /\ runner.waits => call = "QUEUED" /\ sched = "NONE"

(* The call that has acted, or is about to, says so.                       *)
CallOK ==
  /\ effects \in {0, 1}
  /\ effects = 1 => call \in {"RUNNING", "SUCCEEDED", "FAILED"}
  /\ runner.pc \in {"acting", "acted"} => call = "RUNNING"
  /\ runner.pc = "acting" => effects = 0

(* The schedule was due when it turned into an event, and a Task that is   *)
(* still asleep has one or the other.                                      *)
AlarmOK ==
  /\ sched = "NONE" => task.status # "WAITING_SCHEDULE"
  /\ sched \in {"NONE", "ACTIVE", "CANCELLED"} => event = "NONE"
  /\ sched = "COMPLETED" => event # "NONE" /\ due
  /\ sched = "CANCELLED" => ~Sleeps
  /\ event \in {"RESUMED", "DELIVERED"} => ~Sleeps

(* Nobody runs a Task in a process that is down; a cancellation that has   *)
(* written its request stands, and one that waits for no runner has none.  *)
CancelOK ==
  /\ phase # "up" => canceller = "idle"
  /\ phase \in {"down", "stale"} => runner.pc = "none" /\ ~registered
  /\ canceller \in {"signal", "wait", "finish"} => task.cancelRequested
  /\ canceller = "finish" => runner.pc \in {"none", "created", "new"}

ScheduleInv == ScheduleTypeOK /\ TaskOK /\ RunnerOK /\ CallOK /\ AlarmOK /\ CancelOK

(* The records of a runner.                                                *)
Place == {"none", "created", "new", "claimed", "started", "asleep", "invoke", "acting", "acted",
          "result", "finish"}
Job == [pc : Place, waits : BOOLEAN, cut : BOOLEAN, result : {"SUCCEEDED", "FAILED"}]

(* What the steps write into it stays one.                                 *)
LEMMA JobTyped ==
  /\ NoJob \in Job
  /\ \A w \in BOOLEAN : [NoJob EXCEPT !.pc = "new", !.waits = w] \in Job
  /\ \A j \in Job, r \in {"SUCCEEDED", "FAILED"} : [j EXCEPT !.pc = "result", !.result = r] \in Job
  /\ \A j \in Job : [j EXCEPT !.pc = "finish", !.cut = FALSE] \in Job
BY DEF NoJob, Job, Place

LEMMA JobAnswers ==
  ASSUME runner \in Job, InvokeEnds
  PROVE  runner' \in Job
<1>1. PICK s \in {"SUCCEEDED", "FAILED"} :
        runner' = [runner EXCEPT !.pc = "result", !.result = s]
  BY DEF InvokeEnds
<1> QED
  BY <1>1 DEF Job, Place

LEMMA JobSignalled ==
  ASSUME runner \in Job, CancelSignals
  PROVE  runner' \in Job
<1>1. runner' = runner \/ runner' = [runner EXCEPT !.cut = TRUE]
  BY DEF CancelSignals
<1> QED
  BY <1>1 DEF Job

(* TypeOK, but for the runner.                                             *)
RestTyped ==
  /\ phase \in {"up", "down", "stale", "scheduled"} /\ due \in BOOLEAN /\ task \in Task
  /\ call \in {"ABSENT", "QUEUED", "SCHEDULED", "RUNNING", "SUCCEEDED", "FAILED"}
  /\ sched \in {"NONE", "ACTIVE", "COMPLETED", "CANCELLED"}
  /\ event \in {"NONE", "PENDING", "RESUMED", "DELIVERED", "FAILED"}
  /\ registered \in BOOLEAN /\ canceller \in {"idle", "write", "signal", "wait", "finish"}
  /\ effects \in Nat /\ setbacks \in 0 .. MaxSetbacks

(* TypeOK is that and the runner.                                          *)
LEMMA TypeParts == ScheduleTypeOK <=> RestTyped /\ runner \in Job
BY DEF ScheduleTypeOK, RestTyped, Job, Place

(* What recovery writes into the Task.                                     *)
LEMMA TaskTyped ==
  /\ [status |-> "CANCELLED", cancelRequested |-> TRUE] \in Task
  /\ \A r \in Task, x \in Ended \cup {"PAUSED"} : [r EXCEPT !.status = x] \in Task
BY DEF Task, Ended

(* The initial state.                                                      *)
LEMMA ScheduleInitInv == ScheduleInit => ScheduleInv
<1> SUFFICES ASSUME ScheduleInit PROVE ScheduleInv
  OBVIOUS
<1>1. ScheduleTypeOK
  <2>1. runner \in Job
    BY JobTyped DEF ScheduleInit
  <2>2. task \in Task
    BY DEF ScheduleInit, Task, NoTask
  <2>3. due \in BOOLEAN /\ registered \in BOOLEAN
    BY DEF ScheduleInit
  <2>4. setbacks \in 0 .. MaxSetbacks
    BY ScheduleAssumption DEF ScheduleAssumption, ScheduleInit
  <2> QED
    BY <2>1, <2>2, <2>3, <2>4, TypeParts DEF ScheduleInit, RestTyped
<1>2. TaskOK /\ RunnerOK /\ CallOK /\ AlarmOK /\ CancelOK
  BY DEF ScheduleInit, NoTask, NoJob, TaskOK, RunnerOK, CallOK, AlarmOK, Sleeps, CancelOK
<1> QED
  BY <1>1, <1>2 DEF ScheduleInv

(* One step per action; each leaf shows all parts of IInv, as what an      *)
(* action writes is a handful of fields.                                   *)
LEMMA ScheduleStepInv == ScheduleInv /\ [ScheduleNext]_scheduleVars => ScheduleInv'
<1> SUFFICES ASSUME ScheduleInv, [ScheduleNext]_scheduleVars PROVE ScheduleInv'
  OBVIOUS
<1> USE ScheduleAssumption DEF ScheduleAssumption, ScheduleInv, ScheduleTypeOK, Task, Ended, TaskOK, RunnerOK,
     CallOK, AlarmOK, Sleeps, CancelOK, stored, At, GoesTo, Mark, Leave, Spawn, NoJob, FinishCancelled
<1>1. CASE TimeComes
  BY <1>1 DEF TimeComes
<1>2. CASE Create
  BY <1>2 DEF Create
<1>3. CASE Created
  <2>1. ScheduleTypeOK'
    <3>1. runner' \in Job
      BY <1>3, JobTyped, TypeParts DEF Created
    <3>2. RestTyped'
      BY <1>3 DEF Created, RestTyped
    <3> QED
      BY <3>1, <3>2 DEF RestTyped, Job, Place
  <2>2. TaskOK'
    BY <1>3 DEF Created
  <2>3. RunnerOK'
    BY <1>3 DEF Created
  <2>4. CallOK'
    BY <1>3 DEF Created
  <2>5. AlarmOK'
    BY <1>3 DEF Created
  <2>6. CancelOK'
    BY <1>3 DEF Created
  <2> QED
    BY <2>1, <2>2, <2>3, <2>4, <2>5, <2>6
<1>4. CASE ClaimTask
  BY <1>4 DEF ClaimTask
<1>5. CASE ClaimLost
  BY <1>5 DEF ClaimLost
<1>6. CASE StartAttempt
  BY <1>6 DEF StartAttempt
<1>7. CASE WaitTask
  BY <1>7 DEF WaitTask
<1>8. CASE WaitRefused
  BY <1>8 DEF WaitRefused, FailTask
<1>9. CASE InvokeAnswered
  <2>1. ScheduleTypeOK'
    <3>1. runner' \in Job
      BY <1>9, JobTyped, TypeParts DEF InvokeAnswered
    <3>2. RestTyped'
      BY <1>9 DEF InvokeAnswered, RestTyped
    <3> QED
      BY <3>1, <3>2 DEF RestTyped, Job, Place
  <2>2. TaskOK'
    BY <1>9 DEF InvokeAnswered
  <2>3. RunnerOK'
    BY <1>9 DEF InvokeAnswered
  <2>4. CallOK'
    BY <1>9 DEF InvokeAnswered
  <2>5. AlarmOK'
    BY <1>9 DEF InvokeAnswered
  <2>6. CancelOK'
    BY <1>9 DEF InvokeAnswered
  <2> QED
    BY <2>1, <2>2, <2>3, <2>4, <2>5, <2>6
<1>10. CASE InvokeStarts
  <2>1. ScheduleTypeOK'
    BY <1>10 DEF InvokeStarts, Answered
  <2>2. TaskOK'
    BY <1>10 DEF InvokeStarts, Answered
  <2>3. RunnerOK'
    BY <1>10 DEF InvokeStarts, Answered
  <2>4. CallOK'
    BY <1>10 DEF InvokeStarts, Answered
  <2>5. AlarmOK'
    BY <1>10 DEF InvokeStarts, Answered
  <2>6. CancelOK'
    BY <1>10 DEF InvokeStarts, Answered
  <2> QED
    BY <2>1, <2>2, <2>3, <2>4, <2>5, <2>6
<1>11. CASE InvokeActs
  BY <1>11 DEF InvokeActs
<1>12. CASE InvokeEnds
  <2>1. ScheduleTypeOK'
    <3>1. runner' \in Job
      <4>1. runner \in Job
        BY TypeParts
      <4> QED
        BY <1>12, <4>1, JobAnswers
    <3>2. RestTyped'
      BY <1>12 DEF InvokeEnds, RestTyped
    <3> QED
      BY <3>1, <3>2 DEF RestTyped, Job, Place
  <2>2. TaskOK'
    BY <1>12 DEF InvokeEnds
  <2>3. RunnerOK'
    BY <1>12 DEF InvokeEnds
  <2>4. CallOK'
    BY <1>12 DEF InvokeEnds
  <2>5. AlarmOK'
    BY <1>12 DEF InvokeEnds
  <2>6. CancelOK'
    BY <1>12 DEF InvokeEnds
  <2> QED
    BY <2>1, <2>2, <2>3, <2>4, <2>5, <2>6
<1>13. CASE ConcludeTask
  <2>1. ScheduleTypeOK'
    <3>1. runner' \in Job /\ runner.result \in {"SUCCEEDED", "FAILED"}
      BY <1>13, JobTyped, TypeParts DEF ConcludeTask
    <3>2. task' \in Task
      BY <1>13, <3>1, TaskTyped DEF ConcludeTask
    <3>3. RestTyped'
      BY <1>13, <3>2 DEF ConcludeTask, RestTyped
    <3> QED
      BY <3>1, <3>3 DEF RestTyped, Job, Place
  <2>2. TaskOK'
    BY <1>13 DEF ConcludeTask
  <2>3. RunnerOK'
    BY <1>13 DEF ConcludeTask
  <2>4. CallOK'
    BY <1>13 DEF ConcludeTask
  <2>5. AlarmOK'
    BY <1>13 DEF ConcludeTask
  <2>6. CancelOK'
    BY <1>13 DEF ConcludeTask
  <2> QED
    BY <2>1, <2>2, <2>3, <2>4, <2>5, <2>6
<1>14. CASE Finish
  <2>1. ScheduleTypeOK'
    <3>1. runner' \in Job
      BY <1>14, JobTyped, TypeParts DEF Finish
    <3>2. RestTyped'
      BY <1>14 DEF Finish, RestTyped
    <3> QED
      BY <3>1, <3>2 DEF RestTyped, Job, Place
  <2>2. TaskOK'
    BY <1>14 DEF Finish
  <2>3. RunnerOK'
    BY <1>14 DEF Finish
  <2>4. CallOK'
    BY <1>14 DEF Finish
  <2>5. AlarmOK'
    BY <1>14 DEF Finish
  <2>6. CancelOK'
    BY <1>14 DEF Finish
  <2> QED
    BY <2>1, <2>2, <2>3, <2>4, <2>5, <2>6
<1>15. CASE Interrupted
  <2>1. CASE runner' = NoJob
    BY <1>15, <2>1 DEF Interrupted
  <2>2. CASE /\ runner.pc \notin {"new", "claimed"}
             /\ runner' = [runner EXCEPT !.pc = "finish", !.cut = FALSE]
    <3>1. ScheduleTypeOK'
      <4>1. runner' \in Job
        BY <2>2, JobTyped, TypeParts
      <4>2. RestTyped'
        BY <1>15 DEF Interrupted, RestTyped
      <4> QED
        BY <4>1, <4>2 DEF RestTyped, Job, Place
    <3>2. TaskOK'
      BY <1>15, <2>2 DEF Interrupted
    <3>3. RunnerOK'
      BY <1>15, <2>2 DEF Interrupted
    <3>4. CallOK'
      BY <1>15, <2>2 DEF Interrupted
    <3>5. AlarmOK'
      BY <1>15, <2>2 DEF Interrupted
    <3>6. CancelOK'
      BY <1>15, <2>2 DEF Interrupted
    <3> QED
      BY <3>1, <3>2, <3>3, <3>4, <3>5, <3>6
  <2> QED
    BY <1>15, <2>1, <2>2 DEF Interrupted
<1>16. CASE Tick
  BY <1>16 DEF Tick
<1>17. CASE Resume
  BY <1>17 DEF Resume
<1>18. CASE Wake
  <2>1. ScheduleTypeOK'
    <3>1. runner' \in Job
      BY <1>18, JobTyped, TypeParts DEF Wake, Eligible
    <3>2. RestTyped'
      BY <1>18 DEF Wake, Eligible, RestTyped
    <3> QED
      BY <3>1, <3>2 DEF RestTyped, Job, Place
  <2>2. TaskOK'
    BY <1>18 DEF Wake, Eligible
  <2>3. RunnerOK'
    BY <1>18 DEF Wake, Eligible
  <2>4. CallOK'
    BY <1>18 DEF Wake, Eligible
  <2>5. AlarmOK'
    BY <1>18 DEF Wake, Eligible
  <2>6. CancelOK'
    BY <1>18 DEF Wake, Eligible
  <2> QED
    BY <2>1, <2>2, <2>3, <2>4, <2>5, <2>6
<1>19. CASE Delivered
  BY <1>19 DEF Delivered
<1>20. CASE Redeliver
  BY <1>20 DEF Redeliver
<1>21. CASE Cancel
  BY <1>21 DEF Cancel
<1>22. CASE CancelWrites
  BY <1>22 DEF CancelWrites
<1>23. CASE CancelSignals
  <2>1. ScheduleTypeOK'
    <3>1. runner' \in Job
      <4>1. runner \in Job
        BY TypeParts
      <4> QED
        BY <1>23, <4>1, JobSignalled
    <3>2. RestTyped'
      BY <1>23 DEF CancelSignals, RestTyped
    <3> QED
      BY <3>1, <3>2 DEF RestTyped, Job, Place
  <2>2. TaskOK'
    BY <1>23 DEF CancelSignals
  <2>3. RunnerOK'
    BY <1>23 DEF CancelSignals
  <2>4. CallOK'
    BY <1>23 DEF CancelSignals
  <2>5. AlarmOK'
    BY <1>23 DEF CancelSignals
  <2>6. CancelOK'
    BY <1>23 DEF CancelSignals
  <2> QED
    BY <2>1, <2>2, <2>3, <2>4, <2>5, <2>6
<1>24. CASE CancelFinishes
  BY <1>24 DEF CancelFinishes
<1>25. CASE CoreCrashes
  <2>1. ScheduleTypeOK'
    <3>1. runner' \in Job
      BY <1>25, JobTyped, TypeParts DEF CoreCrashes
    <3>2. RestTyped'
      <4>1. registered' \in BOOLEAN
        BY <1>25 DEF CoreCrashes
      <4> QED
        BY <1>25, <4>1 DEF CoreCrashes, RestTyped
    <3> QED
      BY <3>1, <3>2 DEF RestTyped, Job, Place
  <2>2. TaskOK'
    BY <1>25 DEF CoreCrashes
  <2>3. RunnerOK'
    BY <1>25 DEF CoreCrashes
  <2>4. CallOK'
    BY <1>25 DEF CoreCrashes
  <2>5. AlarmOK'
    BY <1>25 DEF CoreCrashes
  <2>6. CancelOK'
    BY <1>25 DEF CoreCrashes
  <2> QED
    BY <2>1, <2>2, <2>3, <2>4, <2>5, <2>6
<1>26. CASE CoreRestarts
  BY <1>26 DEF CoreRestarts
<1>27. CASE RecoverStale
  <2>1. ScheduleTypeOK'
    <3>1. runner' \in Job
      BY <1>27, JobTyped, TypeParts DEF RecoverStale
    <3>2. RestTyped'
      <4>1. registered' \in BOOLEAN
        BY <1>27 DEF RecoverStale
      <4>2. task' \in Task
        <5>1. \/ task' = task
              \/ task' = [status |-> "CANCELLED", cancelRequested |-> TRUE]
              \/ \E x \in Ended \cup {"PAUSED"} : task' = [task EXCEPT !.status = x]
          BY <1>27 DEF RecoverStale
        <5>2. task \in Task
          OBVIOUS
        <5> HIDE DEF Task, Ended
        <5>3. CASE task' = task
          BY <5>2, <5>3
        <5>4. CASE task' = [status |-> "CANCELLED", cancelRequested |-> TRUE]
          BY <5>4, TaskTyped
        <5>5. ASSUME NEW x \in Ended \cup {"PAUSED"}, task' = [task EXCEPT !.status = x]
              PROVE  task' \in Task
          BY <5>2, <5>5, TaskTyped
        <5> QED
          BY <5>1, <5>3, <5>4, <5>5
      <4> QED
        BY <1>27, <4>1, <4>2 DEF RecoverStale, RestTyped
    <3> QED
      BY <3>1, <3>2 DEF RestTyped, Job, Place
  <2>2. TaskOK'
    BY <1>27 DEF RecoverStale
  <2>3. RunnerOK'
    BY <1>27 DEF RecoverStale
  <2>4. CallOK'
    BY <1>27 DEF RecoverStale
  <2>5. AlarmOK'
    BY <1>27 DEF RecoverStale
  <2>6. CancelOK'
    BY <1>27 DEF RecoverStale
  <2> QED
    BY <2>1, <2>2, <2>3, <2>4, <2>5, <2>6
<1>28. CASE RecoverScheduled
  <2>1. ScheduleTypeOK'
    <3>1. runner' \in Job
      BY <1>28, JobTyped, TypeParts DEF RecoverScheduled, Eligible
    <3>2. RestTyped'
      <4>1. registered' \in BOOLEAN
        BY <1>28 DEF RecoverScheduled, Eligible
      <4> QED
        BY <1>28, <4>1 DEF RecoverScheduled, Eligible, RestTyped
    <3> QED
      BY <3>1, <3>2 DEF RestTyped, Job, Place
  <2>2. TaskOK'
    BY <1>28 DEF RecoverScheduled, Eligible
  <2>3. RunnerOK'
    BY <1>28 DEF RecoverScheduled, Eligible
  <2>4. CallOK'
    BY <1>28 DEF RecoverScheduled, Eligible
  <2>5. AlarmOK'
    BY <1>28 DEF RecoverScheduled, Eligible
  <2>6. CancelOK'
    BY <1>28 DEF RecoverScheduled, Eligible
  <2> QED
    BY <2>1, <2>2, <2>3, <2>4, <2>5, <2>6
<1>29. CASE UNCHANGED scheduleVars
  BY <1>29 DEF scheduleVars
<1>30. CASE WaitReported
  <2>1. ScheduleTypeOK'
    <3>1. runner' \in Job
      BY <1>30, JobTyped, TypeParts DEF WaitReported
    <3>2. RestTyped'
      <4>1. registered' \in BOOLEAN
        BY <1>30 DEF WaitReported
      <4>2. UNCHANGED <<phase, due, task, call, sched, event, canceller, effects, setbacks>>
        BY <1>30 DEF WaitReported
      <4> QED
        BY <4>1, <4>2 DEF RestTyped
    <3> QED
      BY <3>1, <3>2 DEF RestTyped, Job, Place
  <2>2. TaskOK'
    BY <1>30 DEF WaitReported
  <2>3. RunnerOK'
    BY <1>30 DEF WaitReported
  <2>4. CallOK'
    BY <1>30 DEF WaitReported
  <2>5. AlarmOK'
    BY <1>30 DEF WaitReported
  <2>6. CancelOK'
    BY <1>30 DEF WaitReported
  <2> QED
    BY <2>1, <2>2, <2>3, <2>4, <2>5, <2>6
<1>31. CASE WaitUnreported
  <2>1. ScheduleTypeOK'
    <3>1. runner' \in Job
      BY <1>31, JobTyped, TypeParts DEF WaitUnreported
    <3>2. RestTyped'
      <4>1. task' \in Task
        <5>1. task' = task \/ task' = [task EXCEPT !.status = "FAILED"]
          BY <1>31 DEF WaitUnreported, FailTask
        <5> QED
          BY <5>1, TaskTyped
      <4>2. registered' = FALSE
        BY <1>31 DEF WaitUnreported
      <4>3. setbacks' \in 0 .. MaxSetbacks
        BY <1>31 DEF WaitUnreported
      <4> QED
        BY <1>31, <4>1, <4>2, <4>3 DEF WaitUnreported, RestTyped
    <3> QED
      BY <3>1, <3>2 DEF RestTyped, Job, Place
  <2>2. TaskOK'
    BY <1>31 DEF WaitUnreported, FailTask
  <2>3. RunnerOK'
    BY <1>31 DEF WaitUnreported, FailTask
  <2>4. CallOK'
    BY <1>31 DEF WaitUnreported, FailTask
  <2>5. AlarmOK'
    BY <1>31 DEF WaitUnreported, FailTask
  <2>6. CancelOK'
    BY <1>31 DEF WaitUnreported, FailTask
  <2> QED
    BY <2>1, <2>2, <2>3, <2>4, <2>5, <2>6
<1> QED
  BY <1>1, <1>2, <1>3, <1>4, <1>5, <1>6, <1>7, <1>8, <1>9, <1>10, <1>11, <1>12, <1>13, <1>14, <1>15, <1>16, <1>17, <1>18, <1>19, <1>20, <1>21, <1>22, <1>23, <1>24, <1>25, <1>26, <1>27, <1>28, <1>29, <1>30, <1>31
     DEF ScheduleNext, Run, Proactivity, Cancellation, Startup

(* The strengthened invariant holds in every reachable state.              *)
THEOREM ScheduleInvariance == ScheduleSpec => []ScheduleInv
BY ScheduleInitInv, ScheduleStepInv, PTL DEF ScheduleSpec

(* A scheduled Task acts once at most, and asleep it has an active         *)
(* schedule or an event that nobody has handled yet.                       *)
THEOREM SleepStaysSafe == ScheduleSpec => []SleepIsSafe
<1>1. ScheduleInv => SleepIsSafe
  <2> SUFFICES ASSUME ScheduleInv PROVE SleepIsSafe
    OBVIOUS
  <2>1. ActsOnce
    BY DEF ScheduleInv, CallOK, ActsOnce
  <2>2. SleeperHasAlarm
    BY DEF ScheduleInv, ScheduleTypeOK, AlarmOK, Sleeps, SleeperHasAlarm
  <2> QED
    BY <2>1, <2>2 DEF ScheduleInv, SleepIsSafe
<1> QED
  BY <1>1, ScheduleInvariance, PTL

(* Once asleep, a Task acts when its time has come and never after it was  *)
(* cancelled: only InvokeActs acts, of a runner that was given the Task    *)
(* when its schedule had run out and that no cancellation has outlived.    *)
THEOREM ActsNeverEarly == ScheduleSpec => ActsWhenDue
<1>1. ScheduleInv /\ [ScheduleNext]_scheduleVars =>
        [effects' # effects /\ sched # "NONE" => due /\ task.status # "CANCELLED"]_scheduleVars
  <2> SUFFICES ASSUME ScheduleInv, ScheduleNext, effects' # effects, sched # "NONE"
               PROVE  due /\ task.status # "CANCELLED"
    BY DEF scheduleVars
  <2>1. InvokeActs
    BY DEF ScheduleNext, Run, Proactivity, Cancellation, Startup, scheduleVars, stored, TimeComes, Create, Created,
      ClaimTask, ClaimLost, StartAttempt, WaitTask, WaitReported, WaitRefused, WaitUnreported, InvokeAnswered, InvokeStarts,
      InvokeEnds, ConcludeTask, Finish, Interrupted, Tick, Resume, Wake, Delivered, Redeliver, Cancel,
      CancelWrites, CancelSignals, CancelFinishes, CoreCrashes, CoreRestarts, RecoverStale, RecoverScheduled
  <2>2. runner.pc = "acting"
    BY <2>1 DEF InvokeActs, At
  <2> QED
    BY <2>2 DEF ScheduleInv, TaskOK, RunnerOK, AlarmOK
<1> QED
  BY <1>1, ScheduleInvariance, PTL DEF ScheduleSpec, ActsWhenDue
================================================================================
