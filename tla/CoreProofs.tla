------------------------------- MODULE CoreProofs -------------------------------
(***************************************************************************)
(* The safety of the Core process, for every value of the constants: of    *)
(* its AI configuration and of its lifecycle.  The Core bootstraps the     *)
(* first in the course of the second; they share no state.                 *)
(***************************************************************************)
EXTENDS AIConfiguration, CoreLifecycle, WellFoundedInduction, TLAPS

(* The rows of the store, and the snapshots that are built from them.      *)
ModelRow    == {NoRow, Seeded, Discovered, [Discovered EXCEPT !.available = FALSE]}
ProviderRow == [there : BOOLEAN, enabled : BOOLEAN, moved : BOOLEAN]
ProfileRow  == [enabled : BOOLEAN, local : BOOLEAN, canonical : BOOLEAN]
Binding     == [model : Model, enabled : BOOLEAN]

StoreSet ==
  [seeded : BOOLEAN, provider : [Provider -> ProviderRow], model : [Model -> ModelRow],
   profile : [Profile -> ProfileRow], bindings : [Profile -> Seq(Binding)],
   key : [Provider -> BOOLEAN]]

SnapshotSet ==
  [profiles : SUBSET Profile, profile : [Profile -> ProfileRow],
   bindings : [Profile -> Seq(Binding)], canonical : Model \cup {NoModel},
   registered : SUBSET Model]

(* The requests that were asked for, and those that hold the lock.         *)
Begun == {"waiting", "discovering", "read", "saved", "built"}
Held  == Begun \ {"waiting"}

BoundAreThere(s) ==
  \A k \in Profile : \A i \in DOMAIN s.bindings[k] : s.model[s.bindings[k][i].model].there

RowsOK ==
  /\ store \in StoreSet /\ BoundAreThere(store)
  /\ snapshot \in SnapshotSet /\ canonical \in Model \cup {NoModel}
  /\ environment \subseteq Provider /\ phase \in {"down", "seeded", "up"}
  /\ lock \in Edit \cup {NoOne} /\ missed \in BOOLEAN
  /\ restarts \in 0 .. MaxRestarts /\ faults \in 0 .. MaxFaults

EditsOK ==
  /\ pc \in [Edit -> Begun \cup {"new", "ended"}]
  /\ ask \in [Edit -> EditSet \cup {NoAsk}]
  /\ seen \in [Edit -> ProviderRow \cup ProfileRow \cup {{}}]
  /\ built \in [Edit -> SnapshotSet]
  /\ \A e \in Edit : pc[e] \in Begun => phase = "up" /\ ask[e] \in EditSet

LockOK == \A e \in Edit : pc[e] \in Held <=> lock = e

(* What a request has read is what is stored, until it is written.         *)
Checked(e) ==
  /\ ask[e].kind \in {"provider", "profile"} /\ seen[e] = Current(ask[e])
  /\ ask[e].kind = "profile" /\ ask[e].rebind =>
       \A i \in DOMAIN ask[e].order : store.model[ask[e].order[i].model].there

AskOK == \A e \in Edit :
  /\ pc[e] = "discovering" => ask[e].kind = "refresh"
  /\ pc[e] = "read" => Checked(e)

(* A Core that has bootstrapped has the row of its canonical model.        *)
CanonicalOK ==
  phase # "down" => /\ canonical \in Model /\ Claims[canonical] # {}
                    /\ store.model[canonical].there /\ store.seeded

(* Nothing is stored between the building of a snapshot and its            *)
(* publication, and what is published is what is stored.                   *)
BuiltOK == \A e \in Edit : pc[e] = "built" => built[e] = Build(store, canonical)

CurrentOK ==
  phase = "up" /\ ~missed /\ (\A e \in Edit : pc[e] \notin {"saved", "built"})
    => snapshot = Build(store, canonical)

IInv == /\ RowsOK /\ EditsOK /\ LockOK /\ AskOK
        /\ CanonicalOK /\ BuiltOK /\ CurrentOK

(* What the steps need of the constants.                                   *)
LEMMA Known ==
  /\ NoModel \notin Model /\ NoOne \notin Edit /\ Chat \in Profile /\ Owner \in [Model -> Provider]
  /\ \A b \in Bootstraps : /\ b \in [Profile -> Model \cup {NoModel}]
                           /\ b[Chat] \in Model /\ Claims[b[Chat]] # {}
  /\ \A o \in Orders : o \in Seq(Binding)
  /\ MaxRestarts \in Nat /\ MaxFaults \in Nat
<1>1. ASSUME NEW b \in Bootstraps
      PROVE  b \in [Profile -> Model \cup {NoModel}] /\ b[Chat] \in Model /\ Claims[b[Chat]] # {}
  <2>1. b \in [Profile -> Model \cup {NoModel}] /\ b[Chat] # NoModel /\ Claims[b[Chat]] # {}
    BY AIConfigurationAssumption DEF AIConfigurationAssumption
  <2>2. Chat \in Profile
    BY AIConfigurationAssumption DEF AIConfigurationAssumption
  <2> QED
    BY <2>1, <2>2
<1>2. \A o \in Orders : o \in Seq(Binding)
  BY AIConfigurationAssumption DEF AIConfigurationAssumption, Binding
<1>3. /\ NoModel \notin Model /\ NoOne \notin Edit /\ Chat \in Profile
      /\ Owner \in [Model -> Provider] /\ MaxRestarts \in Nat /\ MaxFaults \in Nat
  BY AIConfigurationAssumption DEF AIConfigurationAssumption
<1> QED
  BY <1>1, <1>2, <1>3

(* The operators on rows and snapshots give rows and snapshots.            *)
LEMMA EmptyTyped == EmptyStore \in StoreSet /\ Empty \in SnapshotSet
<1>1. EmptyStore \in StoreSet
  BY DEF EmptyStore, StoreSet, NoProvider, NoRow, DefaultProfile, ProviderRow, ModelRow, ProfileRow
<1> QED
  BY <1>1 DEF Empty, EmptyStore, StoreSet, SnapshotSet

LEMMA BuildTyped == ASSUME NEW s \in StoreSet, NEW c \in Model \cup {NoModel}
                    PROVE  Build(s, c) \in SnapshotSet
BY DEF Build, Registered, StoreSet, SnapshotSet

LEMMA BoundTyped == ASSUME NEW q \in Seq(Binding), NEW i \in DOMAIN q
                    PROVE  q[i] \in Binding /\ q[i].model \in Model /\ q[i].enabled \in BOOLEAN
<1>1. q[i] \in Binding
  OBVIOUS
<1> QED
  BY <1>1 DEF Binding

LEMMA SeedTyped ==
  ASSUME NEW s \in StoreSet, NEW b \in Bootstraps, BoundAreThere(s)
  PROVE  /\ Seed(s, b) \in StoreSet /\ BoundAreThere(Seed(s, b))
         /\ Seed(s, b).model[b[Chat]].there /\ Seed(s, b).seeded
         /\ b[Chat] \in Model /\ Claims[b[Chat]] # {}
<1> DEFINE t == Seed(s, b)
<1>1. b \in [Profile -> Model \cup {NoModel}] /\ b[Chat] \in Model /\ Claims[b[Chat]] # {}
  BY Known
<1>2. t.provider \in [Provider -> ProviderRow]
  BY DEF Seed, StoreSet, DefaultProvider, ProviderRow
<1>3. /\ t.model \in [Model -> ModelRow]
      /\ \A m \in Model : s.model[m].there => t.model[m].there
      /\ \A k \in Profile : b[k] # NoModel => t.model[b[k]].there
  BY <1>1 DEF Seed, StoreSet, Seeded, ModelRow
<1>4. \A k \in Profile : b[k] # NoModel =>
        /\ <<[model |-> b[k], enabled |-> TRUE]>> \in Seq(Binding)
        /\ DOMAIN <<[model |-> b[k], enabled |-> TRUE]>> = {1}
  BY <1>1 DEF Binding
<1>5. \A k \in Profile : t.bindings[k] = IF s.bindings[k] = <<>> /\ b[k] # NoModel
                                         THEN <<[model |-> b[k], enabled |-> TRUE]>> ELSE s.bindings[k]
  BY DEF Seed, StoreSet
<1>6. t.bindings \in [Profile -> Seq(Binding)]
  <2>1. t.bindings = [k \in Profile |-> t.bindings[k]]
    BY DEF Seed, StoreSet
  <2>2. \A k \in Profile : s.bindings[k] \in Seq(Binding)
    BY DEF StoreSet
  <2>3. \A k \in Profile : t.bindings[k] \in Seq(Binding)
    BY <2>2, <1>4, <1>5
  <2> QED
    BY <2>1, <2>3
<1>7. t \in StoreSet
  BY <1>2, <1>3, <1>6 DEF Seed, StoreSet
<1>8. BoundAreThere(t)
  <2> SUFFICES ASSUME NEW k \in Profile, NEW i \in DOMAIN t.bindings[k]
               PROVE  t.model[t.bindings[k][i].model].there
    BY DEF BoundAreThere
  <2>1. CASE s.bindings[k] = <<>> /\ b[k] # NoModel
    <3>1. t.bindings[k] = <<[model |-> b[k], enabled |-> TRUE]>>
      BY <2>1, <1>5
    <3>2. i = 1 /\ t.bindings[k][i].model = b[k]
      BY <3>1
    <3> QED
      BY <3>2, <2>1, <1>3
  <2>2. CASE ~(s.bindings[k] = <<>> /\ b[k] # NoModel)
    <3>1. t.bindings[k] = s.bindings[k] /\ s.bindings[k] \in Seq(Binding)
      BY <2>2, <1>5 DEF StoreSet
    <3>2. s.bindings[k][i].model \in Model
      BY <3>1, BoundTyped
    <3> QED
      BY <3>1, <3>2, <1>3 DEF BoundAreThere
  <2> QED
    BY <2>1, <2>2
<1>9. t.seeded
  BY DEF Seed, StoreSet
<1> QED
  BY <1>1, <1>3, <1>7, <1>8, <1>9, Known

(* The rows of the catalogue are four, and relisting moves between them.   *)
AnyRow == [there : BOOLEAN, enabled : BOOLEAN, available : BOOLEAN, source : {"none", "BOOTSTRAP", "DISCOVERED"}]

LEMMA RowIsItsFields ==
  ASSUME NEW r \in AnyRow, NEW q \in AnyRow,
         r.there = q.there, r.enabled = q.enabled, r.available = q.available, r.source = q.source
  PROVE  r = q
BY DEF AnyRow

LEMMA RowRelisted ==
  ASSUME NEW r \in AnyRow, NEW b \in BOOLEAN
  PROVE  LET q == [r EXCEPT !.available = b]
         IN /\ q \in AnyRow /\ q.there = r.there /\ q.enabled = r.enabled
            /\ q.available = b /\ q.source = r.source
BY DEF AnyRow

LEMMA RowTyped ==
  ASSUME NEW r \in ModelRow
  PROVE  /\ r.there => /\ [r EXCEPT !.available = TRUE] \in ModelRow
                        /\ [r EXCEPT !.available = TRUE].there
         /\ r.source = "DISCOVERED" =>
              [r EXCEPT !.available = FALSE] \in ModelRow /\ [r EXCEPT !.available = FALSE].there
<1>1. NoRow \in AnyRow /\ Seeded \in AnyRow /\ Discovered \in AnyRow
  BY DEF NoRow, Seeded, Discovered, AnyRow
<1>2. [Discovered EXCEPT !.available = FALSE] \in AnyRow
  BY <1>1, RowRelisted
<1>3. r \in AnyRow
  BY <1>1, <1>2 DEF ModelRow
<1>4. CASE r = NoRow
  BY <1>4 DEF NoRow
<1>5. CASE r = Seeded
  <2>1. [Seeded EXCEPT !.available = TRUE] = Seeded
    BY <1>1, RowIsItsFields, RowRelisted DEF Seeded
  <2>2. Seeded.there /\ Seeded.source # "DISCOVERED"
    BY DEF Seeded
  <2> QED
    BY <1>5, <2>1, <2>2 DEF ModelRow
<1>6. CASE r \in {Discovered, [Discovered EXCEPT !.available = FALSE]}
  <2>1. [r EXCEPT !.available = TRUE] = Discovered
    BY <1>1, <1>2, <1>3, <1>6, RowIsItsFields, RowRelisted DEF Discovered
  <2>2. [r EXCEPT !.available = FALSE] = [Discovered EXCEPT !.available = FALSE]
    BY <1>1, <1>2, <1>3, <1>6, RowIsItsFields, RowRelisted DEF Discovered
  <2>3. Discovered.there /\ [Discovered EXCEPT !.available = FALSE].there
    BY <1>1, RowRelisted DEF Discovered
  <2> QED
    BY <2>1, <2>2, <2>3 DEF ModelRow
<1> QED
  BY <1>4, <1>5, <1>6 DEF ModelRow

LEMMA ListedTyped ==
  ASSUME NEW s \in StoreSet, NEW p \in Provider, NEW models \in SUBSET Model, BoundAreThere(s)
  PROVE  /\ Listed(s, p, models) \in StoreSet /\ BoundAreThere(Listed(s, p, models))
         /\ \A m \in Model : s.model[m].there => Listed(s, p, models).model[m].there
         /\ Listed(s, p, models).seeded = s.seeded
<1> DEFINE t == Listed(s, p, models)
<1>1. /\ t.model \in [Model -> ModelRow]
      /\ \A m \in Model : s.model[m].there => t.model[m].there
  <2>1. \A m \in Model : t.model[m] =
          IF m \in models
          THEN IF s.model[m].there THEN [s.model[m] EXCEPT !.available = TRUE] ELSE Discovered
          ELSE IF Owner[m] = p /\ s.model[m].source = "DISCOVERED"
               THEN [s.model[m] EXCEPT !.available = FALSE] ELSE s.model[m]
    BY DEF Listed, StoreSet
  <2>2. t.model = [m \in Model |-> t.model[m]]
    BY DEF Listed, StoreSet
  <2>3. ASSUME NEW m \in Model PROVE t.model[m] \in ModelRow /\ (s.model[m].there => t.model[m].there)
    <3>1. s.model[m] \in ModelRow
      BY DEF StoreSet
    <3>2. Discovered \in ModelRow /\ Discovered.there
      BY DEF Discovered, ModelRow
    <3> QED
      BY <3>1, <3>2, <2>1, RowTyped
  <2> QED
    BY <2>2, <2>3
<1>2. t \in StoreSet /\ t.seeded = s.seeded /\ t.bindings = s.bindings
  BY <1>1 DEF Listed, StoreSet
<1>3. \A k \in Profile : \A i \in DOMAIN s.bindings[k] : s.bindings[k][i].model \in Model
  <2>1. \A k \in Profile : s.bindings[k] \in Seq(Binding)
    BY DEF StoreSet
  <2> QED
    BY <2>1, BoundTyped
<1> QED
  BY <1>1, <1>2, <1>3 DEF BoundAreThere

(* The first of a non-empty set of positions is one of them.               *)
LEMMA Least == ASSUME NEW S \in SUBSET Nat, S # {} PROVE Min(S) \in S
<1>1. \E x \in S : \A y \in S : <<y, x>> \notin OpToRel(<, Nat)
  BY WFMin, NatLessThanWellFounded
<1>2. \A x, y \in Nat : <<y, x>> \notin OpToRel(<, Nat) => x <= y
  BY DEF OpToRel
<1>3. \E x \in S : \A y \in S : x =< y
  BY <1>1, <1>2
<1> QED
  BY <1>3 DEF Min

(* A route is a model that the snapshot has, that a profile or an override *)
(* names, and that meets what the request and the profile ask for.         *)
LEMMA RouteFits ==
  ASSUME NEW snap \in SnapshotSet, NEW k \in Profile, NEW r \in Request,
         Resolve(snap, k, r) # NoModel
  PROVE  /\ Eligible(snap, Resolve(snap, k, r), Needs(snap, k, r))
         /\ k \in snap.profiles /\ snap.profile[k].enabled
         /\ r.override \in {Resolve(snap, k, r), NoModel}
<1> DEFINE needs == Needs(snap, k, r)
           tried == IF r.override # NoModel THEN <<[model |-> r.override, enabled |-> TRUE]>>
                    ELSE Candidates(snap, k)
           usable == {i \in DOMAIN tried : tried[i].enabled /\ Eligible(snap, tried[i].model, needs)}
<1>1. Candidates(snap, k) \in Seq(Binding)
  <2>1. snap.bindings[k] \in Seq(Binding) /\ snap.canonical \in Model \cup {NoModel}
    BY DEF SnapshotSet
  <2>2. ASSUME snap.canonical # NoModel
        PROVE  Append(snap.bindings[k], [model |-> snap.canonical, enabled |-> TRUE]) \in Seq(Binding)
    BY <2>1, <2>2 DEF Binding
  <2> QED
    BY <2>1, <2>2 DEF Candidates
<1>2. usable \in SUBSET Nat
  <2>1. CASE r.override # NoModel
    BY <2>1
  <2>2. CASE r.override = NoModel
    BY <2>2, <1>1
  <2> QED
    BY <2>1, <2>2
<1>3. /\ k \in snap.profiles /\ snap.profile[k].enabled /\ usable # {}
      /\ Resolve(snap, k, r) = tried[Min(usable)].model
  BY DEF Resolve
<1>4. Min(usable) \in usable
  BY <1>2, <1>3, Least
<1>5. Eligible(snap, Resolve(snap, k, r), needs)
  BY <1>3, <1>4
<1>6. r.override \in {Resolve(snap, k, r), NoModel}
  <2> SUFFICES ASSUME r.override # NoModel PROVE Resolve(snap, k, r) = r.override
    OBVIOUS
  <2>1. tried = <<[model |-> r.override, enabled |-> TRUE]>>
    OBVIOUS
  <2>2. Min(usable) = 1
    BY <2>1, <1>4
  <2> QED
    BY <2>1, <2>2, <1>3
<1> QED
  BY <1>3, <1>5, <1>6

(* The initial state.                                                      *)
LEMMA InitInv == Init => IInv
<1> SUFFICES ASSUME Init PROVE IInv
  OBVIOUS
<1> USE DEF Init
<1>1. RowsOK
  <2>1. BoundAreThere(EmptyStore)
    BY DEF BoundAreThere, EmptyStore
  <2>2. restarts \in 0 .. MaxRestarts /\ faults \in 0 .. MaxFaults
    BY Known
  <2> QED
    BY <2>1, <2>2, EmptyTyped DEF RowsOK
<1>2. EditsOK
  BY EmptyTyped DEF EditsOK, Begun
<1>3. LockOK /\ AskOK /\ CanonicalOK /\ BuiltOK /\ CurrentOK
  BY Known DEF LockOK, Held, Begun, AskOK, CanonicalOK, BuiltOK, CurrentOK
<1> QED
  BY <1>1, <1>2, <1>3 DEF IInv

(* What a request of the API carries.                                      *)
LEMMA AskTyped ==
  ASSUME NEW a \in EditSet
  PROVE  /\ a.kind \in {"refresh", "credential", "provider", "profile"}
         /\ a.kind # "profile" => a.provider \in Provider
         /\ a.kind = "credential" => a.set \in BOOLEAN
         /\ a.kind = "provider" => a.patch \in {[enabled |-> TRUE], [enabled |-> FALSE], [moved |-> TRUE]}
         /\ a.kind = "profile" => /\ a.profile \in Profile /\ a.rebind \in BOOLEAN
                                  /\ a.order \in Orders /\ a.patch \in Patches
BY DEF EditSet

(* A patch gives a row of the same kind, and keeps what it does not name.  *)
LEMMA PatchTyped ==
  /\ \A row \in ProviderRow, patch \in {[enabled |-> TRUE], [enabled |-> FALSE], [moved |-> TRUE]} :
       Patched(row, patch) \in ProviderRow
  /\ \A row \in ProfileRow, patch \in Patches : Patched(row, patch) \in ProfileRow
<1>1. ASSUME NEW row \in ProviderRow,
             NEW patch \in {[enabled |-> TRUE], [enabled |-> FALSE], [moved |-> TRUE]}
      PROVE  Patched(row, patch) \in ProviderRow
  <2>1. /\ DOMAIN row = {"there", "enabled", "moved"}
        /\ \A f \in DOMAIN row : row[f] \in BOOLEAN
    BY DEF ProviderRow
  <2>2. \A f \in DOMAIN patch : patch[f] \in BOOLEAN
    <3>1. patch = [enabled |-> TRUE] => DOMAIN patch = {"enabled"} /\ patch["enabled"] = TRUE
      OBVIOUS
    <3>2. patch = [enabled |-> FALSE] => DOMAIN patch = {"enabled"} /\ patch["enabled"] = FALSE
      OBVIOUS
    <3>3. patch = [moved |-> TRUE] => DOMAIN patch = {"moved"} /\ patch["moved"] = TRUE
      OBVIOUS
    <3> QED
      BY <3>1, <3>2, <3>3
  <2>3. Patched(row, patch) \in [{"there", "enabled", "moved"} -> BOOLEAN]
    BY <2>1, <2>2 DEF Patched
  <2> QED
    BY <2>3 DEF ProviderRow
<1>2. ASSUME NEW row \in ProfileRow, NEW patch \in Patches PROVE Patched(row, patch) \in ProfileRow
  <2>1. /\ DOMAIN row = {"enabled", "local", "canonical"}
        /\ \A f \in DOMAIN row : row[f] \in BOOLEAN
    BY DEF ProfileRow
  <2>2. patch \in [DOMAIN patch -> BOOLEAN]
    BY AIConfigurationAssumption DEF AIConfigurationAssumption
  <2>3. Patched(row, patch) \in [{"enabled", "local", "canonical"} -> BOOLEAN]
    BY <2>1, <2>2 DEF Patched
  <2> QED
    BY <2>3 DEF ProfileRow
<1> QED
  BY <1>1, <1>2

(* The row that a request is about.                                        *)
LEMMA CurrentTyped ==
  ASSUME RowsOK, NEW a \in EditSet
  PROVE  /\ a.kind = "profile" => Current(a) \in ProfileRow
         /\ a.kind # "profile" => Current(a) \in ProviderRow
BY AskTyped DEF RowsOK, StoreSet, Current

(* A change that was checked leaves rows and bindings well formed.         *)
LEMMA ChangeTyped ==
  ASSUME RowsOK, NEW e \in Edit, ask[e] \in EditSet, Checked(e)
  PROVE  /\ Change(e) \in StoreSet /\ BoundAreThere(Change(e))
         /\ Change(e).model = store.model /\ Change(e).seeded = store.seeded
<1> DEFINE a == ask[e]
           row == Patched(seen[e], a.patch)
<1>1. CASE a.kind = "provider"
  <2>1. a.provider \in Provider /\ row \in ProviderRow
    BY <1>1, AskTyped, CurrentTyped, PatchTyped DEF Checked
  <2>2. Change(e) = [store EXCEPT !.provider[a.provider] = row]
    BY <1>1 DEF Change
  <2> HIDE DEF row
  <2>3. [store.provider EXCEPT ![a.provider] = row] \in [Provider -> ProviderRow]
    BY <2>1 DEF RowsOK, StoreSet
  <2>4. /\ Change(e) \in StoreSet /\ Change(e).bindings = store.bindings
        /\ Change(e).model = store.model /\ Change(e).seeded = store.seeded
    BY <2>2, <2>3 DEF RowsOK, StoreSet
  <2> QED
    BY <2>4 DEF RowsOK, BoundAreThere
<1>2. CASE a.kind = "profile"
  <2>1. /\ a.profile \in Profile /\ row \in ProfileRow /\ a.rebind \in BOOLEAN
        /\ a.order \in Seq(Binding)
    BY <1>2, AskTyped, CurrentTyped, PatchTyped, Known DEF Checked
  <2>2. Change(e) = [store EXCEPT !.profile[a.profile] = row,
                                  !.bindings[a.profile] = IF a.rebind THEN a.order ELSE @]
    BY <1>2 DEF Change
  <2> HIDE DEF row
  <2>3. /\ Change(e) \in StoreSet
        /\ Change(e).model = store.model /\ Change(e).seeded = store.seeded
    <3>1. [store.profile EXCEPT ![a.profile] = row] \in [Profile -> ProfileRow]
      BY <2>1 DEF RowsOK, StoreSet
    <3>2. store.bindings[a.profile] \in Seq(Binding)
      BY <2>1 DEF RowsOK, StoreSet
    <3>3. [store.bindings EXCEPT ![a.profile] = IF a.rebind THEN a.order ELSE @] \in [Profile -> Seq(Binding)]
      BY <2>1, <3>2 DEF RowsOK, StoreSet
    <3> QED
      BY <2>2, <3>1, <3>3 DEF RowsOK, StoreSet
  <2>4. \A k \in Profile : Change(e).bindings[k] = IF k = a.profile /\ a.rebind THEN a.order ELSE store.bindings[k]
    BY <2>1, <2>2 DEF RowsOK, StoreSet
  <2>5. a.rebind => \A i \in DOMAIN a.order : store.model[a.order[i].model].there
    BY <1>2 DEF Checked
  <2>6. BoundAreThere(Change(e))
    BY <2>3, <2>4, <2>5 DEF RowsOK, BoundAreThere
  <2> QED
    BY <2>3, <2>6
<1> QED
  BY <1>1, <1>2 DEF Checked

(* What the routing snapshot is built from: everything but the keys.       *)
LEMMA KeysAreNotBuilt ==
  ASSUME NEW s \in StoreSet, NEW p \in Provider, NEW b \in BOOLEAN, NEW c
  PROVE  LET t == [s EXCEPT !.key[p] = b]
         IN /\ t \in StoreSet /\ Build(t, c) = Build(s, c) /\ t.model = s.model /\ t.bindings = s.bindings
            /\ t.provider = s.provider /\ t.profile = s.profile /\ t.seeded = s.seeded
<1> DEFINE t == [s EXCEPT !.key[p] = b]
<1>1. [s.key EXCEPT ![p] = b] \in [Provider -> BOOLEAN]
  BY DEF StoreSet
<1>2. /\ t \in StoreSet /\ t.model = s.model /\ t.bindings = s.bindings
      /\ t.provider = s.provider /\ t.profile = s.profile /\ t.seeded = s.seeded
  BY <1>1 DEF StoreSet
<1>3. Build(t, c) = Build(s, c)
  BY <1>2 DEF Build, Registered
<1> QED
  BY <1>2, <1>3

(* The process: it starts from the rows there are, and forgets the rest.   *)
LEMMA ProcessStep ==
  ASSUME IInv, Bootstrap \/ BootstrapPublish \/ Restart
  PROVE  IInv'
<1> USE DEF edits
<1>1. CASE Bootstrap
  <2>1. PICK b \in Bootstraps : canonical' = b[Chat] /\ store' = Seed(store, b)
                                /\ environment' \in {{}, {Owner[b[Chat]]}}
    BY <1>1 DEF Bootstrap
  <2>2. /\ phase = "down" /\ phase' = "seeded"
        /\ UNCHANGED <<snapshot, lock, pc, ask, seen, built, missed, restarts, faults>>
    BY <1>1 DEF Bootstrap
  <2>3. \A e \in Edit : pc[e] \notin Begun
    BY <2>2 DEF IInv, EditsOK
  <2>4. RowsOK'
    BY <2>1, <2>2, SeedTyped, Known DEF IInv, RowsOK
  <2>5. EditsOK'
    BY <2>2, <2>3 DEF IInv, EditsOK
  <2>6. LockOK' /\ AskOK' /\ BuiltOK' /\ CurrentOK'
    BY <2>2, <2>3 DEF IInv, LockOK, AskOK, BuiltOK, CurrentOK, Held, Begun
  <2>7. CanonicalOK'
    BY <2>1, SeedTyped DEF IInv, RowsOK, CanonicalOK
  <2> QED
    BY <2>4, <2>5, <2>6, <2>7 DEF IInv
<1>2. CASE BootstrapPublish
  <2>1. /\ phase = "seeded" /\ phase' = "up" /\ snapshot' = Build(store, canonical)
        /\ missed' = FALSE
        /\ UNCHANGED <<store, lock, pc, ask, seen, built, canonical, environment, restarts, faults>>
    BY <1>2 DEF BootstrapPublish
  <2>2. RowsOK'
    BY <2>1, BuildTyped DEF IInv, RowsOK
  <2>3. EditsOK' /\ LockOK' /\ BuiltOK'
    BY <2>1 DEF IInv, EditsOK, LockOK, BuiltOK
  <2>4. AskOK'
    BY <2>1 DEF IInv, AskOK, Checked, Current
  <2>5. CanonicalOK' /\ CurrentOK'
    BY <2>1 DEF IInv, CanonicalOK, CurrentOK
  <2> QED
    BY <2>2, <2>3, <2>4, <2>5 DEF IInv
<1>3. CASE Restart
  <2>1. /\ phase' = "down" /\ snapshot' = Empty /\ lock' = NoOne /\ missed' = FALSE
        /\ canonical' = NoModel /\ environment' = {}
        /\ restarts < MaxRestarts /\ restarts' = restarts + 1
        /\ pc' = [e \in Edit |-> IF pc[e] = "new" THEN "new" ELSE "ended"]
        /\ built' = [e \in Edit |-> Empty] /\ seen' = [e \in Edit |-> {}]
        /\ ask' = [e \in Edit |-> NoAsk]
        /\ UNCHANGED <<store, faults>>
    BY <1>3 DEF Restart
  <2>2. RowsOK'
    <3>1. restarts' \in 0 .. MaxRestarts
      BY <2>1, Known DEF IInv, RowsOK
    <3> QED
      BY <2>1, <3>1, EmptyTyped DEF IInv, RowsOK
  <2>3. EditsOK'
    BY <2>1, EmptyTyped DEF EditsOK, Begun
  <2>4. LockOK' /\ AskOK' /\ BuiltOK' /\ CurrentOK' /\ CanonicalOK'
    BY <2>1, Known DEF LockOK, AskOK, BuiltOK, CurrentOK, CanonicalOK, Held, Begun
  <2> QED
    BY <2>2, <2>3, <2>4 DEF IInv
<1> QED
  BY <1>1, <1>2, <1>3

(* A request that is asked for, and one that needs no lock.                *)
LEMMA AskStep ==
  ASSUME IInv, NEW e \in Edit, AskFor(e) \/ Credential(e)
  PROVE  IInv'
<1>1. CASE AskFor(e)
  <2>1. PICK a \in EditSet : ask' = [ask EXCEPT ![e] = a]
    BY <1>1 DEF AskFor
  <2>2. /\ phase = "up" /\ pc[e] = "new" /\ pc' = [pc EXCEPT ![e] = "waiting"]
        /\ UNCHANGED <<store, snapshot, lock, seen, built, phase, canonical, environment, missed, restarts, faults>>
    BY <1>1 DEF AskFor, process
  <2>3. RowsOK' /\ CanonicalOK'
    BY <2>2 DEF IInv, RowsOK, CanonicalOK
  <2>4. EditsOK'
    BY <2>1, <2>2 DEF IInv, EditsOK, Begun
  <2>5. LockOK' /\ BuiltOK' /\ CurrentOK'
    BY <2>2 DEF IInv, EditsOK, LockOK, BuiltOK, CurrentOK, Held, Begun
  <2>6. AskOK'
    BY <2>1, <2>2 DEF IInv, EditsOK, AskOK, Checked, Current
  <2> QED
    BY <2>3, <2>4, <2>5, <2>6 DEF IInv
<1>2. CASE Credential(e)
  <2>1. /\ pc[e] = "waiting" /\ ask[e].kind = "credential" /\ End(e)
        /\ UNCHANGED <<snapshot, lock, phase, canonical, environment, missed, restarts, faults>>
    BY <1>2 DEF Credential, process
  <2>2. ask[e].provider \in Provider /\ ask[e].set \in BOOLEAN /\ store \in StoreSet
    BY <2>1, AskTyped DEF IInv, EditsOK, RowsOK, Begun
  <2>3. /\ store' \in StoreSet /\ store'.model = store.model /\ store'.bindings = store.bindings
        /\ store'.provider = store.provider /\ store'.profile = store.profile
        /\ store'.seeded = store.seeded /\ Build(store', canonical) = Build(store, canonical)
    <3>1. CASE store.provider[ask[e].provider].there
      <4>1. store' = [store EXCEPT !.key[ask[e].provider] = ask[e].set]
        BY <1>2, <3>1 DEF Credential
      <4> QED
        BY <4>1, <2>2, KeysAreNotBuilt
    <3>2. CASE ~store.provider[ask[e].provider].there
      BY <1>2, <3>2, <2>2 DEF Credential
    <3> QED
      BY <3>1, <3>2
  <2>4. RowsOK' /\ CanonicalOK'
    BY <2>1, <2>3 DEF IInv, RowsOK, CanonicalOK, BoundAreThere
  <2>5. EditsOK'
    BY <2>1, EmptyTyped DEF IInv, EditsOK, End, Begun
  <2>6. LockOK' /\ BuiltOK' /\ CurrentOK'
    BY <2>1, <2>3 DEF IInv, EditsOK, LockOK, BuiltOK, CurrentOK, End, Held, Begun
  <2>7. AskOK'
    BY <2>1, <2>3 DEF IInv, EditsOK, AskOK, Checked, Current, End
  <2> QED
    BY <2>4, <2>5, <2>6, <2>7 DEF IInv
<1> QED
  BY <1>1, <1>2

(* A request ends and gives the lock back, if it has it.                   *)
LEMMA EndStep ==
  ASSUME IInv, NEW e \in Edit, pc[e] \in Begun, End(e), Release(e),
         UNCHANGED <<store, phase, canonical>>
  PROVE  EditsOK' /\ LockOK' /\ AskOK' /\ BuiltOK'
<1>1. EditsOK'
  BY EmptyTyped DEF IInv, EditsOK, End, Begun
<1>2. LockOK' /\ BuiltOK'
  BY Known DEF IInv, EditsOK, LockOK, BuiltOK, End, Release, Held, Begun
<1>3. AskOK'
  BY DEF IInv, EditsOK, AskOK, Checked, Current, End
<1> QED
  BY <1>1, <1>2, <1>3

(* The lock is taken and the row is read, or the request is refused.       *)
LEMMA BeginStep ==
  ASSUME IInv, NEW e \in Edit, Begin(e)
  PROVE  IInv'
<1>1. /\ pc[e] = "waiting" /\ ask[e].kind # "credential" /\ lock = NoOne
      /\ UNCHANGED <<store, snapshot, phase, canonical, environment, missed, restarts, faults>>
  BY DEF Begin, Free, process
<1>2. RowsOK' /\ CanonicalOK'
  BY <1>1 DEF IInv, RowsOK, CanonicalOK, Begin
<1>3. CASE Refused(ask[e]) /\ End(e) /\ UNCHANGED lock
  <2>1. Release(e)
    BY <1>1, <1>3 DEF Release
  <2>2. EditsOK' /\ LockOK' /\ AskOK' /\ BuiltOK'
    BY <1>1, <1>3, <2>1, EndStep DEF Begun
  <2>3. CurrentOK'
    BY <1>1, <1>3 DEF IInv, EditsOK, CurrentOK, End
  <2> QED
    BY <1>2, <2>2, <2>3 DEF IInv
<1>4. CASE /\ ~Refused(ask[e]) /\ lock' = e
           /\ seen' = [seen EXCEPT ![e] = Current(ask[e])]
           /\ pc' = [pc EXCEPT ![e] = IF ask[e].kind = "refresh" THEN "discovering" ELSE "read"]
           /\ UNCHANGED <<ask, built>>
  <2>1. ask[e] \in EditSet
    BY <1>1 DEF IInv, EditsOK, Begun
  <2>2. Current(ask[e]) \in ProviderRow \cup ProfileRow
    BY <2>1, CurrentTyped DEF IInv
  <2>3. EditsOK'
    BY <1>1, <1>4, <2>2 DEF IInv, EditsOK, Begun
  <2>4. LockOK' /\ BuiltOK' /\ CurrentOK'
    BY <1>1, <1>4, Known DEF IInv, EditsOK, LockOK, BuiltOK, CurrentOK, Held, Begun
  <2>5. ask[e].kind = "profile" /\ ask[e].rebind =>
          \A i \in DOMAIN ask[e].order : store.model[ask[e].order[i].model].there
    BY <1>4 DEF Refused, ValidBinding
  <2>6. AskOK'
    BY <1>1, <1>4, <2>1, <2>5, AskTyped DEF IInv, EditsOK, AskOK, Checked, Current
  <2> QED
    BY <1>2, <2>3, <2>4, <2>6 DEF IInv
<1> QED
  BY <1>3, <1>4 DEF Begin

(* Whoever writes rows holds the lock, so that no other request is past    *)
(* its reading.                                                            *)
LEMMA OnlyHolder ==
  ASSUME IInv, NEW e \in Edit, pc[e] \in Held, NEW f \in Edit, f # e
  PROVE  pc[f] \notin Held
BY DEF IInv, LockOK

(* Rows that keep every model are stored by the holder of the lock.        *)
LEMMA SaveStep ==
  ASSUME IInv, NEW e \in Edit, pc[e] \in {"discovering", "read"}, NEW s \in StoreSet, Save(e, s),
         BoundAreThere(s), s.seeded = store.seeded,
         \A m \in Model : store.model[m].there => s.model[m].there
  PROVE  IInv'
<1>1. /\ store' = s /\ pc' = [pc EXCEPT ![e] = "saved"] /\ pc[e] \in Held
      /\ UNCHANGED <<snapshot, lock, ask, seen, built, phase, canonical, environment, missed, restarts, faults>>
  BY DEF Save, process, Held, Begun
<1>2. RowsOK'
  BY <1>1 DEF IInv, RowsOK
<1>3. CanonicalOK'
  BY <1>1 DEF IInv, CanonicalOK
<1>4. EditsOK' /\ LockOK' /\ CurrentOK'
  BY <1>1 DEF IInv, EditsOK, LockOK, CurrentOK, Held, Begun
<1>5. AskOK' /\ BuiltOK'
  BY <1>1, OnlyHolder DEF IInv, EditsOK, AskOK, BuiltOK, Held, Begun
<1> QED
  BY <1>2, <1>3, <1>4, <1>5 DEF IInv

(* A refresh and a patch are such changes.                                 *)
LEMMA ChangeStep ==
  ASSUME IInv, NEW e \in Edit, Discover(e) \/ Commit(e)
  PROVE  IInv'
<1>1. store \in StoreSet /\ BoundAreThere(store)
  BY DEF IInv, RowsOK
<1>2. CASE Discover(e)
  <2>1. PICK models \in SUBSET Model : Save(e, Listed(store, ask[e].provider, models))
    BY <1>2 DEF Discover
  <2>2. pc[e] = "discovering" /\ ask[e].provider \in Provider
    BY <1>2, AskTyped DEF Discover, IInv, EditsOK, AskOK, Begun
  <2> QED
    BY <1>1, <2>1, <2>2, ListedTyped, SaveStep
<1>3. CASE Commit(e)
  <2>1. pc[e] = "read" /\ Save(e, Change(e)) /\ Checked(e) /\ ask[e] \in EditSet
    BY <1>3 DEF Commit, IInv, EditsOK, AskOK, Begun
  <2>2. /\ Change(e) \in StoreSet /\ BoundAreThere(Change(e))
        /\ Change(e).model = store.model /\ Change(e).seeded = store.seeded
    BY <2>1, ChangeTyped DEF IInv
  <2> QED
    BY <2>1, <2>2, SaveStep
<1> QED
  BY <1>2, <1>3

(* The snapshot is built and published under the same lock.                *)
LEMMA PublishStep ==
  ASSUME IInv, NEW e \in Edit, Rebuild(e) \/ Publish(e)
  PROVE  IInv'
<1>1. CASE Rebuild(e)
  <2>1. /\ pc[e] = "saved" /\ pc' = [pc EXCEPT ![e] = "built"]
        /\ built' = [built EXCEPT ![e] = Build(store, canonical)]
        /\ UNCHANGED <<store, snapshot, lock, ask, seen, phase, canonical, environment, missed, restarts, faults>>
    BY <1>1 DEF Rebuild, process
  <2>2. Build(store, canonical) \in SnapshotSet
    BY BuildTyped DEF IInv, RowsOK
  <2>3. RowsOK' /\ CanonicalOK'
    BY <2>1 DEF IInv, RowsOK, CanonicalOK
  <2>4. EditsOK'
    BY <2>1, <2>2 DEF IInv, EditsOK, Begun
  <2>5. LockOK' /\ BuiltOK' /\ CurrentOK'
    BY <2>1 DEF IInv, EditsOK, LockOK, BuiltOK, CurrentOK, Held, Begun
  <2>6. AskOK'
    BY <2>1 DEF IInv, EditsOK, AskOK, Checked, Current
  <2> QED
    BY <2>3, <2>4, <2>5, <2>6 DEF IInv
<1>2. CASE Publish(e)
  <2>1. /\ pc[e] = "built" /\ snapshot' = built[e] /\ missed' = FALSE /\ End(e) /\ Release(e)
        /\ UNCHANGED <<store, phase, canonical, environment, restarts, faults>>
    BY <1>2 DEF Publish, process
  <2>2. built[e] = Build(store, canonical) /\ built[e] \in SnapshotSet
    BY <2>1 DEF IInv, EditsOK, BuiltOK
  <2>3. RowsOK' /\ CanonicalOK'
    BY <2>1, <2>2 DEF IInv, RowsOK, CanonicalOK, Release
  <2>4. EditsOK' /\ LockOK' /\ AskOK' /\ BuiltOK'
    BY <2>1, EndStep DEF Begun
  <2>5. CurrentOK'
    BY <2>1, <2>2 DEF CurrentOK
  <2> QED
    BY <2>3, <2>4, <2>5 DEF IInv
<1> QED
  BY <1>1, <1>2

(* A change that fails after its commit is the one that is missed.         *)
LEMMA FailStep ==
  ASSUME IInv, NEW e \in Edit, DiscoveryFails(e) \/ StorageFails(e)
  PROVE  IInv'
<1>1. /\ pc[e] \in {"discovering", "read", "saved"} /\ Fail(e)
      /\ missed' \in {missed, TRUE} /\ (pc[e] = "saved" => missed')
      /\ faults' = faults \/ (faults < MaxFaults /\ faults' = faults + 1)
  <2>1. CASE DiscoveryFails(e)
    BY <2>1 DEF DiscoveryFails
  <2>2. CASE StorageFails(e)
    BY <2>2 DEF StorageFails
  <2> QED
    BY <2>1, <2>2
<1>2. /\ End(e) /\ Release(e)
      /\ UNCHANGED <<store, snapshot, phase, canonical, environment, restarts>>
  BY <1>1 DEF Fail, process
<1>3. RowsOK' /\ CanonicalOK'
  <2>1. faults' \in 0 .. MaxFaults
    BY <1>1, Known DEF IInv, RowsOK
  <2>2. lock' \in Edit \cup {NoOne} /\ missed' \in BOOLEAN
    BY <1>1, <1>2 DEF IInv, RowsOK, Release
  <2> QED
    BY <1>2, <2>1, <2>2 DEF IInv, RowsOK, CanonicalOK
<1>4. EditsOK' /\ LockOK' /\ AskOK' /\ BuiltOK'
  BY <1>1, <1>2, EndStep DEF Begun
<1>5. CurrentOK'
  <2>1. CASE pc[e] = "saved"
    BY <2>1, <1>1 DEF CurrentOK
  <2>2. CASE pc[e] # "saved"
    <3> SUFFICES ASSUME phase' = "up", ~missed', \A f \in Edit : pc'[f] \notin {"saved", "built"}
                 PROVE  snapshot' = Build(store', canonical')
      BY DEF CurrentOK
    <3>1. ~missed
      BY <1>1 DEF IInv, RowsOK
    <3>2. \A f \in Edit : pc[f] \notin {"saved", "built"}
      BY <2>2, <1>1, <1>2 DEF IInv, EditsOK, End
    <3> QED
      BY <3>1, <3>2, <1>2 DEF IInv, CurrentOK
  <2> QED
    BY <2>1, <2>2
<1> QED
  BY <1>3, <1>4, <1>5 DEF IInv

(* Every step keeps the invariant.                                         *)
LEMMA StepInv == IInv /\ [Next]_vars => IInv'
<1> SUFFICES ASSUME IInv, [Next]_vars PROVE IInv'
  OBVIOUS
<1>1. CASE UNCHANGED vars
  BY <1>1 DEF vars, edits, process, IInv, RowsOK, EditsOK, LockOK, AskOK, CanonicalOK, BuiltOK, CurrentOK,
    Checked, Current
<1>2. CASE Bootstrap \/ BootstrapPublish \/ Restart
  BY <1>2, ProcessStep
<1>3. CASE Stop
  BY <1>1, <1>3 DEF Stop
<1>4. ASSUME NEW e \in Edit, AskFor(e) \/ Progress(e) \/ StorageFails(e)
      PROVE  IInv'
  BY <1>4, AskStep, BeginStep, ChangeStep, PublishStep, FailStep DEF Progress
<1> QED
  BY <1>1, <1>2, <1>3, <1>4 DEF Next

(* The strengthened invariant holds in every reachable state.              *)
THEOREM ConfigurationInvariance == Spec => []IInv
BY InitInv, StepInv, PTL DEF Spec

(* The invariant gives what the run checks.                                *)
LEMMA OrderFollows == IInv => SettingsInOrder
<1> SUFFICES ASSUME IInv PROVE SettingsInOrder
  OBVIOUS
<1>1. TypeOK
  <2>1. DOMAIN store = DOMAIN EmptyStore
    BY DEF IInv, RowsOK, StoreSet, EmptyStore
  <2>2. snapshot.registered \subseteq Model
    BY DEF IInv, RowsOK, SnapshotSet
  <2>3. /\ store.provider \in [Provider -> ProviderRow] /\ store.model \in [Model -> ModelRow]
        /\ store.profile \in [Profile -> ProfileRow] /\ BoundAreThere(store)
    BY DEF IInv, RowsOK, StoreSet
  <2> QED
    BY <2>1, <2>2, <2>3
       DEF IInv, RowsOK, EditsOK, TypeOK, Begun, ProviderRow, ModelRow, ProfileRow, BoundAreThere
<1>2. SnapshotIsCurrent
  <2>1. ASSUME Settled PROVE \A e \in Edit : pc[e] \notin {"saved", "built"}
    BY <2>1, Known DEF IInv, LockOK, Settled, Held, Begun
  <2> QED
    BY <2>1 DEF IInv, CurrentOK, SnapshotIsCurrent, Settled
<1>3. DisabledIsUnused
  <2> SUFFICES ASSUME Settled, NEW k \in Profile, NEW r \in Request, Resolve(snapshot, k, r) # NoModel
               PROVE  LET m == Resolve(snapshot, k, r)
                      IN /\ store.profile[k].enabled /\ store.provider[Owner[m]].enabled
                         /\ store.model[m].source = "BOOTSTRAP" /\ store.model[m].available
    BY DEF DisabledIsUnused
  <2>1. snapshot = Build(store, canonical) /\ snapshot \in SnapshotSet
    BY <1>2 DEF IInv, RowsOK, SnapshotIsCurrent
  <2>2. Resolve(snapshot, k, r) \in Registered(store) /\ store.profile[k].enabled
    BY <2>1, RouteFits DEF Eligible, Build
  <2> QED
    BY <2>2 DEF Registered, Trusted
<1>4. CanonicalRoutable
  <2> SUFFICES ASSUME Settled, store.provider[Owner[canonical]].enabled,
                      store.model[canonical].source # "DISCOVERED"
               PROVE  canonical \in snapshot.registered
    BY <1>1 DEF CanonicalRoutable, TypeOK, IInv, CanonicalOK, Settled
  <2>1. canonical \in Model /\ Claims[canonical] # {} /\ store.model[canonical].there
    BY DEF IInv, CanonicalOK, Settled
  <2>2. store.model[canonical] = Seeded
    <3>1. store.model[canonical] \in ModelRow
      BY <2>1 DEF IInv, RowsOK, StoreSet
    <3> QED
      BY <3>1, <2>1 DEF ModelRow, NoRow, Discovered
  <2>3. canonical \in Registered(store)
    BY <2>1, <2>2 DEF Registered, Trusted, Seeded
  <2> QED
    BY <2>3, <1>2 DEF SnapshotIsCurrent, Build
<1> QED
  BY <1>1, <1>2, <1>3, <1>4 DEF SettingsInOrder

(* Whenever no change is under way and no rebuild was missed, requests are *)
(* routed with exactly what is stored: what is switched off is unused, and *)
(* the configured model can be used.                                       *)
THEOREM SettingsStayInOrder == Spec => []SettingsInOrder
BY ConfigurationInvariance, OrderFollows, PTL

(* Every route is allowed by the request and by its profile, whatever      *)
(* bindings, overrides and fallbacks there are.                            *)
THEOREM RoutesStayEligible == Spec => []RoutesAreEligible
<1>1. IInv => RoutesAreEligible
  <2> SUFFICES ASSUME IInv, NEW k \in snapshot.profiles, NEW r \in Request,
                      Resolve(snapshot, k, r) # NoModel
               PROVE  LET m == Resolve(snapshot, k, r)
                      IN /\ r.local \/ snapshot.profile[k].local => Owner[m] \in Local
                         /\ r.caps \cup Requires[k] \subseteq Claims[m]
                         /\ r.override \in {m, NoModel}
    BY DEF RoutesAreEligible
  <2>1. snapshot \in SnapshotSet /\ k \in Profile
    BY DEF IInv, RowsOK, SnapshotSet
  <2>2. /\ Eligible(snapshot, Resolve(snapshot, k, r), Needs(snapshot, k, r))
        /\ r.override \in {Resolve(snapshot, k, r), NoModel}
    BY <2>1, RouteFits
  <2> QED
    BY <2>2 DEF Eligible, Needs, NarrowLocality
<1> QED
  BY <1>1, ConfigurationInvariance, PTL

(* Concurrent patches of one row do not undo each other.                   *)
THEOREM PatchesKeepTheRest == Spec => PatchKeepsTheRest
<1>1. ASSUME IInv, [Next]_vars, NEW e \in Edit, pc[e] = "read", pc'[e] = "saved"
      PROVE  LET a == ask[e]
                 now == Current(a)
                 then == (IF a.kind = "profile" THEN store'.profile[a.profile] ELSE store'.provider[a.provider])
             IN \A f \in DOMAIN now \ DOMAIN a.patch : then[f] = now[f]
  <2>1. Commit(e)
    <3>1. ~UNCHANGED pc
      BY <1>1
    <3>2. PICK d \in Edit : AskFor(d) \/ Progress(d) \/ StorageFails(d) \/ Restart
      BY <1>1, <3>1 DEF Next, vars, edits, Bootstrap, BootstrapPublish, Stop
    <3>3. d = e
      BY <1>1, <3>2
         DEF IInv, EditsOK, AskFor, Progress, StorageFails, Restart, Credential, Begin, Discover, DiscoveryFails,
             Commit, Rebuild, Publish, Save, Fail, End
    <3> QED
      BY <1>1, <3>2, <3>3
         DEF IInv, EditsOK, AskFor, Progress, StorageFails, Restart, Credential, Begin, Discover, DiscoveryFails,
             Commit, Rebuild, Publish, Save, Fail, End
  <2>2. store' = Change(e) /\ Checked(e) /\ ask[e] \in EditSet /\ store \in StoreSet
    BY <1>1, <2>1 DEF Commit, Save, IInv, RowsOK, EditsOK, AskOK, Begun
  <2> DEFINE row == Patched(seen[e], ask[e].patch)
  <2>3. \A f \in DOMAIN Current(ask[e]) \ DOMAIN ask[e].patch : row[f] = Current(ask[e])[f]
    BY <2>2 DEF Checked, Patched
  <2> HIDE DEF row
  <2>4. CASE ask[e].kind = "provider"
    <3>1. store'.provider[ask[e].provider] = row
      BY <2>2, <2>4, AskTyped DEF Change, StoreSet, row
    <3> QED
      BY <3>1, <2>3, <2>4
  <2>5. CASE ask[e].kind = "profile"
    <3>1. store'.profile[ask[e].profile] = row
      BY <2>2, <2>5, AskTyped DEF Change, StoreSet, row
    <3> QED
      BY <3>1, <2>3, <2>5
  <2> QED
    BY <2>2, <2>4, <2>5 DEF Checked
<1>2. IInv /\ [Next]_vars =>
        [\A e \in Edit : pc[e] = "read" /\ pc'[e] = "saved" =>
           LET a == ask[e]
               now == Current(a)
               then == (IF a.kind = "profile" THEN store'.profile[a.profile] ELSE store'.provider[a.provider])
           IN \A f \in DOMAIN now \ DOMAIN a.patch : then[f] = now[f]]_vars
  BY <1>1
<1> QED
  BY <1>2, ConfigurationInvariance, PTL DEF Spec, PatchKeepsTheRest

-----------------------------------------------------------------------------
(* The lifecycle of the Core and the desktops attached to it.              *)
(* Where a Core has the mutex, the store and a row that says RUNNING.      *)
Owning   == (Starting \ {"launched"}) \cup {"listed"} \cup Stopping \cup (Closing \ {"leaving"})
Using    == Owning \ {"owner", "close"}
Recorded == Using \ {"store"}

(* Where it answers under the record it has published, and where no more.  *)
Published == {"listed", "compare", "delete"}
Past      == {"drain", "refuse", "runtimes", "gone"} \cup Closing

(* Outside those places a process that leaves may keep the mutex it could  *)
(* not release, and what was not stopped may have the store open.          *)
OwnerOK ==
  \A c \in Core :
    /\ at[c] \in Owning => owner = c
    /\ owner = c => at[c] \in Owning \cup {"leaving"}
StoreOK ==
  \A c \in Core :
    /\ at[c] \in Using => c \in opened
    /\ c \in opened => \/ at[c] \in Using \cup {"close"}
                       \/ at[c] = "leaving" /\ c \in loose
RowOK ==
  /\ \A c \in Core : at[c] \in Recorded => rows[c] = "RUNNING"
  /\ \A c, e \in Core : rows[c] = "RUNNING" /\ rows[e] = "RUNNING" => c = e

(* As long as nothing failed, the record is that of the Core that answers, *)
(* and a desktop that found none finds none later under the same record.   *)
RecordOK ==
  failures = 0 =>
    /\ \A c \in Core : at[c] = "listed" => record = c
    /\ \A c \in Core : record = c => at[c] \in Published
    /\ \A d \in Desktop :
         /\ dpc[d] # "delete"
         /\ dpc[d] = "verify" => found[d] = None \/ at[found[d]] \in Published \cup Past
         /\ dpc[d] = "compare" => found[d] \in Core /\ at[found[d]] \in Past

LifeInv == CoreTypeOK /\ OwnerOK /\ StoreOK /\ RowOK /\ RecordOK

(* The initial state.                                                      *)
LEMMA LifeInit == CoreInit => LifeInv
<1> SUFFICES ASSUME CoreInit PROVE LifeInv
  OBVIOUS
<1> USE CoreLifecycleAssumption DEF CoreLifecycleAssumption, CoreInit
<1>1. CoreTypeOK
  BY DEF CoreTypeOK, Link
<1>2. OwnerOK /\ StoreOK /\ RowOK /\ RecordOK
  BY DEF OwnerOK, StoreOK, RowOK, RecordOK, Owning, Using, Recorded, Starting, Stopping, Closing,
    None
<1> QED
  BY <1>1, <1>2 DEF LifeInv

(* One step per action; under it, one per part of the invariant.           *)
LEMMA LifeStep == LifeInv /\ [CoreNext]_coreVars => LifeInv'
<1> SUFFICES ASSUME LifeInv, [CoreNext]_coreVars PROVE LifeInv'
  OBVIOUS
<1> USE CoreLifecycleAssumption DEF CoreLifecycleAssumption, LifeInv, Fine, MayFail, Move, Desk, host, desk, links
<1>1. ASSUME NEW c \in Core, Acquire(c) PROVE LifeInv'
  <2>1. CoreTypeOK'
    BY <1>1 DEF Acquire, CoreTypeOK, Link, Sessions, Streams, Starting, Stopping, Closing
  <2>2. OwnerOK'
    BY <1>1 DEF Acquire, CoreTypeOK, OwnerOK, Owning, Starting, Stopping, Closing
  <2>3. StoreOK'
    BY <1>1 DEF Acquire, CoreTypeOK, OwnerOK, StoreOK, Owning, Using, Starting, Stopping, Closing
  <2>4. RowOK'
    BY <1>1 DEF Acquire, CoreTypeOK, OwnerOK, RowOK, Owning, Using, Recorded, Starting, Stopping, Closing
  <2>5. RecordOK'
    BY <1>1 DEF Acquire, CoreTypeOK, OwnerOK, RecordOK, Owning, Published, Past, Starting, Stopping, Closing
  <2> QED
    BY <2>1, <2>2, <2>3, <2>4, <2>5
<1>2. ASSUME NEW c \in Core, OpenStore(c) PROVE LifeInv'
  <2>1. CoreTypeOK'
    BY <1>2 DEF OpenStore, CoreTypeOK, Link, Sessions, Streams, Starting, Stopping, Closing
  <2>2. OwnerOK'
    BY <1>2 DEF OpenStore, CoreTypeOK, OwnerOK, Owning, Starting, Stopping, Closing
  <2>3. StoreOK'
    BY <1>2 DEF OpenStore, CoreTypeOK, OwnerOK, StoreOK, Owning, Using, Starting, Stopping, Closing
  <2>4. RowOK'
    BY <1>2 DEF OpenStore, CoreTypeOK, OwnerOK, RowOK, Owning, Using, Recorded, Starting, Stopping, Closing
  <2>5. RecordOK'
    BY <1>2 DEF OpenStore, CoreTypeOK, OwnerOK, RecordOK, Owning, Published, Past, Starting, Stopping, Closing
  <2> QED
    BY <2>1, <2>2, <2>3, <2>4, <2>5
<1>3. ASSUME NEW c \in Core, StartSession(c) PROVE LifeInv'
  <2>1. CoreTypeOK'
    BY <1>3 DEF StartSession, RowAtStart, CoreTypeOK, Link, Sessions, Streams, Starting, Stopping, Closing
  <2>2. OwnerOK'
    BY <1>3 DEF StartSession, RowAtStart, CoreTypeOK, OwnerOK, Owning, Starting, Stopping, Closing
  <2>3. StoreOK'
    BY <1>3 DEF StartSession, RowAtStart, CoreTypeOK, OwnerOK, StoreOK, Owning, Using, Starting, Stopping, Closing
  <2>4. RowOK'
    BY <1>3 DEF StartSession, RowAtStart, CoreTypeOK, OwnerOK, RowOK, Owning, Using, Recorded, Starting, Stopping, Closing
  <2>5. RecordOK'
    BY <1>3 DEF StartSession, RowAtStart, CoreTypeOK, OwnerOK, RecordOK, Owning, Published, Past, Starting, Stopping, Closing
  <2> QED
    BY <2>1, <2>2, <2>3, <2>4, <2>5
<1>4. ASSUME NEW c \in Core, Compose(c) PROVE LifeInv'
  <2>1. CoreTypeOK'
    BY <1>4 DEF Compose, CoreTypeOK, Link, Sessions, Streams, Starting, Stopping, Closing
  <2>2. OwnerOK'
    BY <1>4 DEF Compose, CoreTypeOK, OwnerOK, Owning, Starting, Stopping, Closing
  <2>3. StoreOK'
    BY <1>4 DEF Compose, CoreTypeOK, OwnerOK, StoreOK, Owning, Using, Starting, Stopping, Closing
  <2>4. RowOK'
    BY <1>4 DEF Compose, CoreTypeOK, OwnerOK, RowOK, Owning, Using, Recorded, Starting, Stopping, Closing
  <2>5. RecordOK'
    BY <1>4 DEF Compose, CoreTypeOK, OwnerOK, RecordOK, Owning, Published, Past, Starting, Stopping, Closing
  <2> QED
    BY <2>1, <2>2, <2>3, <2>4, <2>5
<1>5. ASSUME NEW c \in Core, StartFails(c) PROVE LifeInv'
  <2>1. CoreTypeOK'
    BY <1>5 DEF StartFails, CoreTypeOK, Link, Sessions, Streams, Starting, Stopping, Closing
  <2>2. OwnerOK'
    BY <1>5 DEF StartFails, CoreTypeOK, OwnerOK, Owning, Starting, Stopping, Closing
  <2>3. StoreOK'
    BY <1>5 DEF StartFails, CoreTypeOK, OwnerOK, StoreOK, Owning, Using, Starting, Stopping, Closing
  <2>4. RowOK'
    BY <1>5 DEF StartFails, CoreTypeOK, OwnerOK, RowOK, Owning, Using, Recorded, Starting, Stopping, Closing
  <2>5. RecordOK'
    BY <1>5 DEF StartFails, CoreTypeOK, OwnerOK, RecordOK, Owning, Published, Past, Starting, Stopping, Closing
  <2> QED
    BY <2>1, <2>2, <2>3, <2>4, <2>5
<1>6. ASSUME NEW c \in Core, Serve(c) PROVE LifeInv'
  <2>1. CoreTypeOK'
    BY <1>6 DEF Serve, CoreTypeOK, Link, Sessions, Streams, Starting, Stopping, Closing
  <2>2. OwnerOK'
    BY <1>6 DEF Serve, CoreTypeOK, OwnerOK, Owning, Starting, Stopping, Closing
  <2>3. StoreOK'
    BY <1>6 DEF Serve, CoreTypeOK, OwnerOK, StoreOK, Owning, Using, Starting, Stopping, Closing
  <2>4. RowOK'
    BY <1>6 DEF Serve, CoreTypeOK, OwnerOK, RowOK, Owning, Using, Recorded, Starting, Stopping, Closing
  <2>5. RecordOK'
    BY <1>6 DEF Serve, CoreTypeOK, OwnerOK, RecordOK, Owning, Published, Past, Starting, Stopping, Closing
  <2> QED
    BY <2>1, <2>2, <2>3, <2>4, <2>5
<1>7. ASSUME NEW c \in Core, PublishRecord(c) PROVE LifeInv'
  <2>1. CoreTypeOK'
    BY <1>7 DEF PublishRecord, CoreTypeOK, Link, Sessions, Streams, Starting, Stopping, Closing
  <2>2. OwnerOK'
    BY <1>7 DEF PublishRecord, CoreTypeOK, OwnerOK, Owning, Starting, Stopping, Closing
  <2>3. StoreOK'
    BY <1>7 DEF PublishRecord, CoreTypeOK, OwnerOK, StoreOK, Owning, Using, Starting, Stopping, Closing
  <2>4. RowOK'
    BY <1>7 DEF PublishRecord, CoreTypeOK, OwnerOK, RowOK, Owning, Using, Recorded, Starting, Stopping, Closing
  <2>5. RecordOK'
    BY <1>7 DEF PublishRecord, CoreTypeOK, OwnerOK, RecordOK, Owning, Published, Past, Starting, Stopping, Closing
  <2> QED
    BY <2>1, <2>2, <2>3, <2>4, <2>5
<1>8. ASSUME NEW c \in Core, ServeFails(c) PROVE LifeInv'
  <2>1. CoreTypeOK'
    BY <1>8 DEF ServeFails, CoreTypeOK, Link, Sessions, Streams, Starting, Stopping, Closing
  <2>2. OwnerOK'
    BY <1>8 DEF ServeFails, CoreTypeOK, OwnerOK, Owning, Starting, Stopping, Closing
  <2>3. StoreOK'
    BY <1>8 DEF ServeFails, CoreTypeOK, OwnerOK, StoreOK, Owning, Using, Starting, Stopping, Closing
  <2>4. RowOK'
    BY <1>8 DEF ServeFails, CoreTypeOK, OwnerOK, RowOK, Owning, Using, Recorded, Starting, Stopping, Closing
  <2>5. RecordOK'
    BY <1>8 DEF ServeFails, CoreTypeOK, OwnerOK, RecordOK, Owning, Published, Past, Starting, Stopping, Closing
  <2> QED
    BY <2>1, <2>2, <2>3, <2>4, <2>5
<1>9. ASSUME NEW c \in Core, Interrupt(c) PROVE LifeInv'
  <2>1. CoreTypeOK'
    BY <1>9 DEF Interrupt, CoreTypeOK, Link, Sessions, Streams, Starting, Stopping, Closing
  <2>2. OwnerOK'
    BY <1>9 DEF Interrupt, CoreTypeOK, OwnerOK, Owning, Starting, Stopping, Closing
  <2>3. StoreOK'
    BY <1>9 DEF Interrupt, CoreTypeOK, OwnerOK, StoreOK, Owning, Using, Starting, Stopping, Closing
  <2>4. RowOK'
    BY <1>9 DEF Interrupt, CoreTypeOK, OwnerOK, RowOK, Owning, Using, Recorded, Starting, Stopping, Closing
  <2>5. RecordOK'
    BY <1>9 DEF Interrupt, CoreTypeOK, OwnerOK, RecordOK, Owning, Published, Past, Starting, Stopping, Closing
  <2> QED
    BY <2>1, <2>2, <2>3, <2>4, <2>5
<1>10. ASSUME NEW c \in Core, CompareRecord(c) PROVE LifeInv'
  <2>1. CoreTypeOK'
    BY <1>10 DEF CompareRecord, CoreTypeOK, Link, Sessions, Streams, Starting, Stopping, Closing
  <2>2. OwnerOK'
    BY <1>10 DEF CompareRecord, CoreTypeOK, OwnerOK, Owning, Starting, Stopping, Closing
  <2>3. StoreOK'
    BY <1>10 DEF CompareRecord, CoreTypeOK, OwnerOK, StoreOK, Owning, Using, Starting, Stopping, Closing
  <2>4. RowOK'
    BY <1>10 DEF CompareRecord, CoreTypeOK, OwnerOK, RowOK, Owning, Using, Recorded, Starting, Stopping, Closing
  <2>5. RecordOK'
    BY <1>10 DEF CompareRecord, CoreTypeOK, OwnerOK, RecordOK, Owning, Published, Past, Starting, Stopping, Closing
  <2> QED
    BY <2>1, <2>2, <2>3, <2>4, <2>5
<1>11. ASSUME NEW c \in Core, DeleteRecord(c) PROVE LifeInv'
  <2>1. CoreTypeOK'
    BY <1>11 DEF DeleteRecord, CoreTypeOK, Link, Sessions, Streams, Starting, Stopping, Closing
  <2>2. OwnerOK'
    BY <1>11 DEF DeleteRecord, CoreTypeOK, OwnerOK, Owning, Starting, Stopping, Closing
  <2>3. StoreOK'
    BY <1>11 DEF DeleteRecord, CoreTypeOK, OwnerOK, StoreOK, Owning, Using, Starting, Stopping, Closing
  <2>4. RowOK'
    BY <1>11 DEF DeleteRecord, CoreTypeOK, OwnerOK, RowOK, Owning, Using, Recorded, Starting, Stopping, Closing
  <2>5. RecordOK'
    BY <1>11 DEF DeleteRecord, CoreTypeOK, OwnerOK, RecordOK, Owning, Published, Past, Starting, Stopping, Closing
  <2> QED
    BY <2>1, <2>2, <2>3, <2>4, <2>5
<1>12. ASSUME NEW c \in Core, Refuse(c) PROVE LifeInv'
  <2>1. CoreTypeOK'
    BY <1>12 DEF Refuse, CoreTypeOK, Link, Sessions, Streams, Starting, Stopping, Closing
  <2>2. OwnerOK'
    BY <1>12 DEF Refuse, CoreTypeOK, OwnerOK, Owning, Starting, Stopping, Closing
  <2>3. StoreOK'
    BY <1>12 DEF Refuse, CoreTypeOK, OwnerOK, StoreOK, Owning, Using, Starting, Stopping, Closing
  <2>4. RowOK'
    BY <1>12 DEF Refuse, CoreTypeOK, OwnerOK, RowOK, Owning, Using, Recorded, Starting, Stopping, Closing
  <2>5. RecordOK'
    BY <1>12 DEF Refuse, CoreTypeOK, OwnerOK, RecordOK, Owning, Published, Past, Starting, Stopping, Closing
  <2> QED
    BY <2>1, <2>2, <2>3, <2>4, <2>5
<1>13. ASSUME NEW c \in Core, Drain(c) PROVE LifeInv'
  <2>1. CoreTypeOK'
    BY <1>13 DEF Drain, CoreTypeOK, Link, Sessions, Streams, Starting, Stopping, Closing
  <2>2. OwnerOK'
    BY <1>13 DEF Drain, CoreTypeOK, OwnerOK, Owning, Starting, Stopping, Closing
  <2>3. StoreOK'
    BY <1>13 DEF Drain, CoreTypeOK, OwnerOK, StoreOK, Owning, Using, Starting, Stopping, Closing
  <2>4. RowOK'
    BY <1>13 DEF Drain, CoreTypeOK, OwnerOK, RowOK, Owning, Using, Recorded, Starting, Stopping, Closing
  <2>5. RecordOK'
    BY <1>13 DEF Drain, CoreTypeOK, OwnerOK, RecordOK, Owning, Published, Past, Starting, Stopping, Closing
  <2> QED
    BY <2>1, <2>2, <2>3, <2>4, <2>5
<1>14. ASSUME NEW c \in Core, StopRuntimes(c) PROVE LifeInv'
  <2>1. CoreTypeOK'
    BY <1>14 DEF StopRuntimes, CoreTypeOK, Link, Sessions, Streams, Starting, Stopping, Closing
  <2>2. OwnerOK'
    BY <1>14 DEF StopRuntimes, CoreTypeOK, OwnerOK, Owning, Starting, Stopping, Closing
  <2>3. StoreOK'
    BY <1>14 DEF StopRuntimes, CoreTypeOK, OwnerOK, StoreOK, Owning, Using, Starting, Stopping, Closing
  <2>4. RowOK'
    BY <1>14 DEF StopRuntimes, CoreTypeOK, OwnerOK, RowOK, Owning, Using, Recorded, Starting, Stopping, Closing
  <2>5. RecordOK'
    BY <1>14 DEF StopRuntimes, CoreTypeOK, OwnerOK, RecordOK, Owning, Published, Past, Starting, Stopping, Closing
  <2> QED
    BY <2>1, <2>2, <2>3, <2>4, <2>5
<1>15. ASSUME NEW c \in Core, StopSession(c) PROVE LifeInv'
  <2>1. CoreTypeOK'
    BY <1>15 DEF StopSession, CoreTypeOK, Link, Sessions, Streams, Starting, Stopping, Closing
  <2>2. OwnerOK'
    BY <1>15 DEF StopSession, CoreTypeOK, OwnerOK, Owning, Starting, Stopping, Closing
  <2>3. StoreOK'
    BY <1>15 DEF StopSession, CoreTypeOK, OwnerOK, StoreOK, Owning, Using, Starting, Stopping, Closing
  <2>4. RowOK'
    BY <1>15 DEF StopSession, CoreTypeOK, OwnerOK, RowOK, Owning, Using, Recorded, Starting, Stopping, Closing
  <2>5. RecordOK'
    BY <1>15 DEF StopSession, CoreTypeOK, OwnerOK, RecordOK, Owning, Published, Past, Starting, Stopping, Closing
  <2> QED
    BY <2>1, <2>2, <2>3, <2>4, <2>5
<1>16. ASSUME NEW c \in Core, CloseAndRelease(c) PROVE LifeInv'
  <2>1. CoreTypeOK'
    BY <1>16 DEF CloseAndRelease, CoreTypeOK, Link, Sessions, Streams, Starting, Stopping, Closing
  <2>2. OwnerOK'
    BY <1>16 DEF CloseAndRelease, CoreTypeOK, OwnerOK, Owning, Starting, Stopping, Closing
  <2>3. StoreOK'
    BY <1>16 DEF CloseAndRelease, CoreTypeOK, OwnerOK, StoreOK, Owning, Using, Starting, Stopping, Closing
  <2>4. RowOK'
    BY <1>16 DEF CloseAndRelease, CoreTypeOK, OwnerOK, RowOK, Owning, Using, Recorded, Starting, Stopping, Closing
  <2>5. RecordOK'
    BY <1>16 DEF CloseAndRelease, CoreTypeOK, OwnerOK, RecordOK, Owning, Published, Past, Starting, Stopping, Closing
  <2> QED
    BY <2>1, <2>2, <2>3, <2>4, <2>5
<1>17. ASSUME NEW c \in Core, Stray(c) PROVE LifeInv'
  <2>1. CoreTypeOK'
    BY <1>17 DEF Stray, CoreTypeOK, Link, Sessions, Streams, Starting, Stopping, Closing
  <2>2. OwnerOK'
    BY <1>17 DEF Stray, CoreTypeOK, OwnerOK, Owning, Starting, Stopping, Closing
  <2>3. StoreOK'
    BY <1>17 DEF Stray, CoreTypeOK, OwnerOK, StoreOK, Owning, Using, Starting, Stopping, Closing
  <2>4. RowOK'
    BY <1>17 DEF Stray, CoreTypeOK, OwnerOK, RowOK, Owning, Using, Recorded, Starting, Stopping, Closing
  <2>5. RecordOK'
    BY <1>17 DEF Stray, CoreTypeOK, OwnerOK, RecordOK, Owning, Published, Past, Starting, Stopping, Closing
  <2> QED
    BY <2>1, <2>2, <2>3, <2>4, <2>5
<1>18. ASSUME NEW c \in Core, Exit(c) PROVE LifeInv'
  <2>1. CoreTypeOK'
    BY <1>18 DEF Exit, Ends, CoreTypeOK, Link, Sessions, Streams, Starting, Stopping, Closing
  <2>2. OwnerOK'
    BY <1>18 DEF Exit, Ends, CoreTypeOK, OwnerOK, Owning, Starting, Stopping, Closing
  <2>3. StoreOK'
    BY <1>18 DEF Exit, Ends, CoreTypeOK, OwnerOK, StoreOK, Owning, Using, Starting, Stopping, Closing
  <2>4. RowOK'
    BY <1>18 DEF Exit, Ends, CoreTypeOK, OwnerOK, RowOK, Owning, Using, Recorded, Starting, Stopping, Closing
  <2>5. RecordOK'
    BY <1>18 DEF Exit, Ends, CoreTypeOK, OwnerOK, RecordOK, Owning, Published, Past, Starting, Stopping, Closing
  <2> QED
    BY <2>1, <2>2, <2>3, <2>4, <2>5
<1>19. ASSUME NEW c \in Core, Crash(c) PROVE LifeInv'
  <2>1. CoreTypeOK'
    BY <1>19 DEF Crash, Ends, CoreTypeOK, Link, Sessions, Streams, Starting, Stopping, Closing
  <2>2. OwnerOK'
    BY <1>19 DEF Crash, Ends, CoreTypeOK, OwnerOK, Owning, Starting, Stopping, Closing
  <2>3. StoreOK'
    BY <1>19 DEF Crash, Ends, CoreTypeOK, OwnerOK, StoreOK, Owning, Using, Starting, Stopping, Closing
  <2>4. RowOK'
    BY <1>19 DEF Crash, Ends, CoreTypeOK, OwnerOK, RowOK, Owning, Using, Recorded, Starting, Stopping, Closing
  <2>5. RecordOK'
    BY <1>19 DEF Crash, Ends, CoreTypeOK, OwnerOK, RecordOK, Owning, Published, Past, Starting, Stopping, Closing
  <2> QED
    BY <2>1, <2>2, <2>3, <2>4, <2>5
<1>20. ASSUME NEW d \in Desktop, BeginAttach(d) PROVE LifeInv'
  <2>1. CoreTypeOK'
    BY <1>20 DEF BeginAttach, Answers, CoreTypeOK, Link, Sessions, Streams, Starting, Stopping, Closing
  <2>2. OwnerOK'
    BY <1>20 DEF BeginAttach, Answers, CoreTypeOK, OwnerOK, Owning, Starting, Stopping, Closing
  <2>3. StoreOK'
    BY <1>20 DEF BeginAttach, Answers, CoreTypeOK, OwnerOK, StoreOK, Owning, Using, Starting, Stopping, Closing
  <2>4. RowOK'
    BY <1>20 DEF BeginAttach, Answers, CoreTypeOK, OwnerOK, RowOK, Owning, Using, Recorded, Starting, Stopping, Closing
  <2>5. RecordOK'
    BY <1>20 DEF BeginAttach, Answers, CoreTypeOK, OwnerOK, RecordOK, Owning, Published, Past, Starting, Stopping, Closing
  <2> QED
    BY <2>1, <2>2, <2>3, <2>4, <2>5
<1>21. ASSUME NEW d \in Desktop, Read(d) PROVE LifeInv'
  <2>1. CoreTypeOK'
    BY <1>21 DEF Read, LooksAgain, CoreTypeOK, Link, Sessions, Streams, Starting, Stopping, Closing
  <2>2. OwnerOK'
    BY <1>21 DEF Read, LooksAgain, CoreTypeOK, OwnerOK, Owning, Starting, Stopping, Closing
  <2>3. StoreOK'
    BY <1>21 DEF Read, LooksAgain, CoreTypeOK, OwnerOK, StoreOK, Owning, Using, Starting, Stopping, Closing
  <2>4. RowOK'
    BY <1>21 DEF Read, LooksAgain, CoreTypeOK, OwnerOK, RowOK, Owning, Using, Recorded, Starting, Stopping, Closing
  <2>5. RecordOK'
    BY <1>21 DEF Read, LooksAgain, CoreTypeOK, OwnerOK, RecordOK, Owning, Published, Past, Starting, Stopping, Closing
  <2> QED
    BY <2>1, <2>2, <2>3, <2>4, <2>5
<1>22. ASSUME NEW d \in Desktop, Verify(d) PROVE LifeInv'
  <2>1. CoreTypeOK'
    BY <1>22 DEF Verify, NotFound, Answers, CoreTypeOK, Link, Sessions, Streams, Starting, Stopping, Closing
  <2>2. OwnerOK'
    BY <1>22 DEF Verify, NotFound, Answers, CoreTypeOK, OwnerOK, Owning, Starting, Stopping, Closing
  <2>3. StoreOK'
    BY <1>22 DEF Verify, NotFound, Answers, CoreTypeOK, OwnerOK, StoreOK, Owning, Using, Starting, Stopping, Closing
  <2>4. RowOK'
    BY <1>22 DEF Verify, NotFound, Answers, CoreTypeOK, OwnerOK, RowOK, Owning, Using, Recorded, Starting, Stopping, Closing
  <2>5. RecordOK'
    BY <1>22 DEF Verify, NotFound, Answers, CoreTypeOK, OwnerOK, RecordOK, Owning, Published, Past, Starting, Stopping, Closing
  <2> QED
    BY <2>1, <2>2, <2>3, <2>4, <2>5
<1>23. ASSUME NEW d \in Desktop, CompareStale(d) PROVE LifeInv'
  <2>1. CoreTypeOK'
    BY <1>23 DEF CompareStale, CoreTypeOK, Link, Sessions, Streams, Starting, Stopping, Closing
  <2>2. OwnerOK'
    BY <1>23 DEF CompareStale, CoreTypeOK, OwnerOK, Owning, Starting, Stopping, Closing
  <2>3. StoreOK'
    BY <1>23 DEF CompareStale, CoreTypeOK, OwnerOK, StoreOK, Owning, Using, Starting, Stopping, Closing
  <2>4. RowOK'
    BY <1>23 DEF CompareStale, CoreTypeOK, OwnerOK, RowOK, Owning, Using, Recorded, Starting, Stopping, Closing
  <2>5. RecordOK'
    BY <1>23 DEF CompareStale, CoreTypeOK, OwnerOK, RecordOK, Owning, Published, Past, Starting, Stopping, Closing
  <2> QED
    BY <2>1, <2>2, <2>3, <2>4, <2>5
<1>24. ASSUME NEW d \in Desktop, DeleteStale(d) PROVE LifeInv'
  <2>1. CoreTypeOK'
    BY <1>24 DEF DeleteStale, CoreTypeOK, Link, Sessions, Streams, Starting, Stopping, Closing
  <2>2. OwnerOK'
    BY <1>24 DEF DeleteStale, CoreTypeOK, OwnerOK, Owning, Starting, Stopping, Closing
  <2>3. StoreOK'
    BY <1>24 DEF DeleteStale, CoreTypeOK, OwnerOK, StoreOK, Owning, Using, Starting, Stopping, Closing
  <2>4. RowOK'
    BY <1>24 DEF DeleteStale, CoreTypeOK, OwnerOK, RowOK, Owning, Using, Recorded, Starting, Stopping, Closing
  <2>5. RecordOK'
    BY <1>24 DEF DeleteStale, CoreTypeOK, OwnerOK, RecordOK, Owning, Published, Past, Starting, Stopping, Closing
  <2> QED
    BY <2>1, <2>2, <2>3, <2>4, <2>5
<1>25. ASSUME NEW d \in Desktop, Launch(d) PROVE LifeInv'
  <2>1. CoreTypeOK'
    BY <1>25 DEF Launch, CoreTypeOK, Link, Sessions, Streams, Starting, Stopping, Closing
  <2>2. OwnerOK'
    BY <1>25 DEF Launch, CoreTypeOK, OwnerOK, Owning, Starting, Stopping, Closing
  <2>3. StoreOK'
    BY <1>25 DEF Launch, CoreTypeOK, OwnerOK, StoreOK, Owning, Using, Starting, Stopping, Closing
  <2>4. RowOK'
    BY <1>25 DEF Launch, CoreTypeOK, OwnerOK, RowOK, Owning, Using, Recorded, Starting, Stopping, Closing
  <2>5. RecordOK'
    BY <1>25 DEF Launch, CoreTypeOK, OwnerOK, RecordOK, Owning, Published, Past, Starting, Stopping, Closing
  <2> QED
    BY <2>1, <2>2, <2>3, <2>4, <2>5
<1>26. ASSUME NEW d \in Desktop, RequestStop(d) PROVE LifeInv'
  <2>1. CoreTypeOK'
    BY <1>26 DEF RequestStop, Answers, CoreTypeOK, Link, Sessions, Streams, Starting, Stopping, Closing
  <2>2. OwnerOK'
    BY <1>26 DEF RequestStop, Answers, CoreTypeOK, OwnerOK, Owning, Starting, Stopping, Closing
  <2>3. StoreOK'
    BY <1>26 DEF RequestStop, Answers, CoreTypeOK, OwnerOK, StoreOK, Owning, Using, Starting, Stopping, Closing
  <2>4. RowOK'
    BY <1>26 DEF RequestStop, Answers, CoreTypeOK, OwnerOK, RowOK, Owning, Using, Recorded, Starting, Stopping, Closing
  <2>5. RecordOK'
    BY <1>26 DEF RequestStop, Answers, CoreTypeOK, OwnerOK, RecordOK, Owning, Published, Past, Starting, Stopping, Closing
  <2> QED
    BY <2>1, <2>2, <2>3, <2>4, <2>5
<1>27. ASSUME NEW d \in Desktop, OpenStream(d) PROVE LifeInv'
  <2>1. CoreTypeOK'
    BY <1>27 DEF OpenStream, Answers, CoreTypeOK, Link, Sessions, Streams, Starting, Stopping, Closing
  <2>2. OwnerOK'
    BY <1>27 DEF OpenStream, Answers, CoreTypeOK, OwnerOK, Owning, Starting, Stopping, Closing
  <2>3. StoreOK'
    BY <1>27 DEF OpenStream, Answers, CoreTypeOK, OwnerOK, StoreOK, Owning, Using, Starting, Stopping, Closing
  <2>4. RowOK'
    BY <1>27 DEF OpenStream, Answers, CoreTypeOK, OwnerOK, RowOK, Owning, Using, Recorded, Starting, Stopping, Closing
  <2>5. RecordOK'
    BY <1>27 DEF OpenStream, Answers, CoreTypeOK, OwnerOK, RecordOK, Owning, Published, Past, Starting, Stopping, Closing
  <2> QED
    BY <2>1, <2>2, <2>3, <2>4, <2>5
<1>28. ASSUME NEW d \in Desktop, CloseStream(d) PROVE LifeInv'
  <2>1. CoreTypeOK'
    BY <1>28 DEF CloseStream, CoreTypeOK, Link, Sessions, Streams, Starting, Stopping, Closing
  <2>2. OwnerOK'
    BY <1>28 DEF CloseStream, CoreTypeOK, OwnerOK, Owning, Starting, Stopping, Closing
  <2>3. StoreOK'
    BY <1>28 DEF CloseStream, CoreTypeOK, OwnerOK, StoreOK, Owning, Using, Starting, Stopping, Closing
  <2>4. RowOK'
    BY <1>28 DEF CloseStream, CoreTypeOK, OwnerOK, RowOK, Owning, Using, Recorded, Starting, Stopping, Closing
  <2>5. RecordOK'
    BY <1>28 DEF CloseStream, CoreTypeOK, OwnerOK, RecordOK, Owning, Published, Past, Starting, Stopping, Closing
  <2> QED
    BY <2>1, <2>2, <2>3, <2>4, <2>5
<1>29. ASSUME NEW d \in Desktop, Quit(d) PROVE LifeInv'
  <2>1. CoreTypeOK'
    BY <1>29 DEF Quit, CoreTypeOK, Link, Sessions, Streams, Starting, Stopping, Closing
  <2>2. OwnerOK'
    BY <1>29 DEF Quit, CoreTypeOK, OwnerOK, Owning, Starting, Stopping, Closing
  <2>3. StoreOK'
    BY <1>29 DEF Quit, CoreTypeOK, OwnerOK, StoreOK, Owning, Using, Starting, Stopping, Closing
  <2>4. RowOK'
    BY <1>29 DEF Quit, CoreTypeOK, OwnerOK, RowOK, Owning, Using, Recorded, Starting, Stopping, Closing
  <2>5. RecordOK'
    BY <1>29 DEF Quit, CoreTypeOK, OwnerOK, RecordOK, Owning, Published, Past, Starting, Stopping, Closing
  <2> QED
    BY <2>1, <2>2, <2>3, <2>4, <2>5
<1>30. CASE UNCHANGED coreVars
  BY <1>30 DEF coreVars, CoreTypeOK, OwnerOK, StoreOK, RowOK, RecordOK
<1> QED
  BY <1>1, <1>2, <1>3, <1>4, <1>5, <1>6, <1>7, <1>8, <1>9, <1>10, <1>11, <1>12, <1>13, <1>14, <1>15, <1>16, <1>17, <1>18, <1>19, <1>20, <1>21, <1>22, <1>23, <1>24, <1>25, <1>26, <1>27, <1>28, <1>29, <1>30
     DEF CoreNext, CoreStep, DesktopStep

(* The strengthened invariant holds in every reachable state.              *)
THEOREM LifecycleInvariance == CoreSpec => []LifeInv
BY LifeInit, LifeStep, PTL DEF CoreSpec

(* Whoever has the operational store open owns it, but for a process on    *)
(* its way out that could not close it or left work behind.                *)
THEOREM StoreKeepsOneUser == CoreSpec => []StoreHasOneUser
<1>1. LifeInv => StoreHasOneUser
  BY DEF LifeInv, CoreTypeOK, OwnerOK, StoreOK, StoreHasOneUser, Using, Owning, Starting,
       Stopping, Closing
<1> QED
  BY <1>1, LifecycleInvariance, PTL

(* The rows tell who runs, and a Core that is ready is listed as long as   *)
(* nothing failed.                                                         *)
THEOREM RecordsStayTrue == CoreSpec => []RecordsAreTrue
<1>1. LifeInv => RecordsAreTrue
  <2> SUFFICES ASSUME LifeInv PROVE RecordsAreTrue
    OBVIOUS
  <2>1. RowsTellWhoRuns
    BY DEF LifeInv, RowOK, StoreOK, RowsTellWhoRuns, Lends, Recorded, Using, Owning, Starting, Stopping,
      Closing
  <2>2. ListedWhileWell
    BY DEF LifeInv, RecordOK, ListedWhileWell
  <2> QED
    BY <2>1, <2>2 DEF LifeInv, RecordsAreTrue
<1> QED
  BY <1>1, LifecycleInvariance, PTL
=================================================================================
