---------------------------- MODULE AIConfiguration ----------------------------
(***************************************************************************)
(* The AI configuration of the Core (AIConfigurationService): rows for     *)
(* providers, models, profiles and bindings in the local store, and the    *)
(* immutable RoutingSnapshot built from them that every request is routed  *)
(* with (RoutingPolicy.resolve).  One lock is held from the first read of  *)
(* a change to the publication of the snapshot built after it.             *)
(*                                                                         *)
(* An Edit is one request of the configuration API.  The store and the     *)
(* snapshot survive differently: the rows are durable, the snapshot is not.*)
(*                                                                         *)
(* Left out: names, the metadata of rows, preferred capabilities and the   *)
(* CLOUD_PREFERRED tier (RoutingPolicy asks the router for one named model *)
(* at a time, which bypasses them), and adapter types, since the host      *)
(* composes one adapter for all of them.  Nothing in the code changes      *)
(* `enabled' or the claims of a model row after it was added.              *)
(***************************************************************************)
EXTENDS Naturals, Sequences, FiniteSetsExt

CONSTANTS
  Model, Provider, Profile, Capability,
  Owner,        (* the provider of a model                                 *)
  Local,        (* the providers whose execution location is LOCAL         *)
  Claims,       (* the capabilities a bootstrap claims for a model         *)
  Requires,     (* the required capabilities of a profile                  *)
  Bootstraps,   (* configured canonical models: profile -> model to bind   *)
  Chat,         (* the profile whose model is the canonical one            *)
  Patches,      (* the fields a ProfilePatch may name                      *)
  Orders,       (* the bindings it may name                                *)
  Edit,         (* requests of the configuration API                       *)
  MaxRestarts,  (* bound: ends of the process                              *)
  MaxFaults     (* bound: storage and discovery errors                     *)

NoModel == "no model"
NoOne == "no one"
DefaultProfile == [enabled |-> TRUE, local |-> FALSE, canonical |-> TRUE]

ASSUME AIConfigurationAssumption ==
  /\ NoModel \notin Model /\ NoOne \notin Edit
  /\ Owner \in [Model -> Provider] /\ Local \subseteq Provider
  /\ Claims \in [Model -> SUBSET Capability] /\ Requires \in [Profile -> SUBSET Capability]
  /\ Chat \in Profile
  /\ Bootstraps \subseteq {b \in [Profile -> Model \cup {NoModel}] : b[Chat] # NoModel}
  (* The host vouches for the model it names, at least for text.           *)
  /\ \A b \in Bootstraps : Claims[b[Chat]] # {}
  /\ \A p \in Patches : p \in [DOMAIN p -> BOOLEAN] /\ DOMAIN p \subseteq DOMAIN DefaultProfile
  /\ Orders \subseteq Seq([model : Model, enabled : BOOLEAN])
  /\ MaxRestarts \in Nat /\ MaxFaults \in Nat

VARIABLES
  store,      (* the durable rows                                          *)
  snapshot,   (* the published RoutingSnapshot                             *)
  lock,       (* who holds AIConfigurationService._lock                    *)
  pc, ask, seen, built,           (* an Edit: step, request, row read, snapshot built              *)
  phase, canonical, environment,  (* the process: its canonical model, the keys its environment has *)
  missed,     (* history: the last rebuild after a change failed           *)
  restarts, faults

edits == <<pc, ask, seen, built>>
process == <<phase, canonical, environment>>
vars == <<store, snapshot, lock, edits, process, missed, restarts, faults>>

NoRow == [there |-> FALSE, enabled |-> FALSE, available |-> FALSE, source |-> "none"]
Seeded == [there |-> TRUE, enabled |-> TRUE, available |-> TRUE, source |-> "BOOTSTRAP"]
Discovered == [there |-> TRUE, enabled |-> FALSE, available |-> TRUE, source |-> "DISCOVERED"]
NoProvider == [there |-> FALSE, enabled |-> FALSE, moved |-> FALSE]
DefaultProvider == [there |-> TRUE, enabled |-> TRUE, moved |-> FALSE]

NoAsk == [kind |-> "none"]

EmptyStore ==
  [seeded |-> FALSE, provider |-> [p \in Provider |-> NoProvider],
   model |-> [m \in Model |-> NoRow], profile |-> [k \in Profile |-> DefaultProfile],
   bindings |-> [k \in Profile |-> <<>>], key |-> [p \in Provider |-> FALSE]]

(* Only trusted claims count; a model that was merely discovered has none. *)
Trusted(row, m) == IF row.source = "BOOTSTRAP" THEN Claims[m] ELSE {}

(* A mutant of Registered.                                                *)
RegisteredWhateverProvider(s) ==
  {m \in Model : s.model[m].enabled /\ s.model[m].available /\ Trusted(s.model[m], m) # {}}

Registered(s) == {m \in Model : /\ s.provider[Owner[m]].enabled
                                /\ s.model[m].enabled /\ s.model[m].available
                                /\ Trusted(s.model[m], m) # {}}

Build(s, c) ==
  [profiles |-> IF s.seeded THEN Profile ELSE {}, profile |-> s.profile, bindings |-> s.bindings,
   canonical |-> c, registered |-> Registered(s)]

Empty == [profiles |-> {}, profile |-> EmptyStore.profile, bindings |-> EmptyStore.bindings,
          canonical |-> NoModel, registered |-> {}]

-----------------------------------------------------------------------------
(* Routing: pure, over one snapshot.                                       *)

Request == [caps : SUBSET Capability, local : BOOLEAN, override : Model \cup {NoModel}]

(* A mutant of NarrowLocality.                                            *)
NarrowLocalityByProfile(request, profile) == profile
NarrowLocality(request, profile) == request \/ profile

Needs(snap, k, r) ==
  [caps |-> r.caps \cup Requires[k], local |-> NarrowLocality(r.local, snap.profile[k].local)]

Eligible(snap, m, needs) ==
  /\ m \in snap.registered
  /\ needs.caps \subseteq Claims[m]
  /\ needs.local => Owner[m] \in Local

(* The bindings a profile may use, most preferred first. *)
Candidates(snap, k) ==
  IF snap.profile[k].canonical /\ snap.canonical # NoModel
  THEN Append(snap.bindings[k], [model |-> snap.canonical, enabled |-> TRUE]) ELSE snap.bindings[k]

Resolve(snap, k, r) ==
  LET needs == Needs(snap, k, r)
      tried == IF r.override # NoModel THEN <<[model |-> r.override, enabled |-> TRUE]>>
               ELSE Candidates(snap, k)
      usable == {i \in DOMAIN tried : tried[i].enabled /\ Eligible(snap, tried[i].model, needs)}
  IN IF k \notin snap.profiles \/ ~snap.profile[k].enabled \/ usable = {}
     THEN NoModel ELSE tried[Min(usable)].model

-----------------------------------------------------------------------------
(* The process.                                                            *)

TypeOK ==
  /\ DOMAIN store = DOMAIN EmptyStore
  /\ store.provider \in [Provider -> [there : BOOLEAN, enabled : BOOLEAN, moved : BOOLEAN]]
  /\ store.model \in [Model -> {NoRow, Seeded, Discovered, [Discovered EXCEPT !.available = FALSE]}]
  /\ store.profile \in [Profile -> [enabled : BOOLEAN, local : BOOLEAN, canonical : BOOLEAN]]
  /\ \A k \in Profile : \A i \in DOMAIN store.bindings[k] : store.model[store.bindings[k][i].model].there
  /\ lock \in Edit \cup {NoOne}
  /\ pc \in [Edit -> {"new", "waiting", "discovering", "read", "saved", "built", "ended"}]
  /\ phase \in {"down", "seeded", "up"} /\ canonical \in Model \cup {NoModel}
  /\ snapshot.registered \subseteq Model /\ environment \subseteq Provider
  /\ restarts \in 0 .. MaxRestarts /\ faults \in 0 .. MaxFaults

Init ==
  /\ store = EmptyStore /\ snapshot = Empty /\ lock = NoOne
  /\ pc = [e \in Edit |-> "new"] /\ ask = [e \in Edit |-> NoAsk]
  /\ seen = [e \in Edit |-> {}] /\ built = [e \in Edit |-> Empty]
  /\ phase = "down" /\ canonical = NoModel /\ environment = {}
  /\ missed = FALSE /\ restarts = 0 /\ faults = 0

(* What a bootstrap adds: rows that are missing, never a change of a row,  *)
(* and a binding for a profile that has none.                              *)
Seed(s, b) ==
  [s EXCEPT !.seeded = TRUE,
     !.provider = [p \in Provider |-> IF p = Owner[b[Chat]] /\ ~s.provider[p].there
                                      THEN DefaultProvider ELSE s.provider[p]],
     !.model = [m \in Model |-> IF m \in {b[k] : k \in Profile} /\ ~s.model[m].there
                                THEN Seeded ELSE s.model[m]],
     !.bindings = [k \in Profile |-> IF s.bindings[k] = <<>> /\ b[k] # NoModel
                                     THEN <<[model |-> b[k], enabled |-> TRUE]>> ELSE s.bindings[k]]]

Bootstrap ==
  /\ phase = "down"
  /\ \E b \in Bootstraps : \E keys \in {{}, {Owner[b[Chat]]}} :
       /\ canonical' = b[Chat] /\ environment' = keys
       /\ store' = Seed(store, b)
  /\ phase' = "seeded"
  /\ UNCHANGED <<snapshot, lock, edits, missed, restarts, faults>>

BootstrapPublish ==
  /\ phase = "seeded"
  /\ snapshot' = Build(store, canonical)
  /\ phase' = "up" /\ missed' = FALSE
  /\ UNCHANGED <<store, lock, edits, canonical, environment, restarts, faults>>

(* A crash, a stop, or a start of the Core that fails after the seeding.    *)
Restart ==
  /\ phase # "down" /\ restarts < MaxRestarts
  /\ phase' = "down" /\ snapshot' = Empty /\ lock' = NoOne /\ missed' = FALSE
  /\ canonical' = NoModel /\ environment' = {}
  /\ restarts' = restarts + 1
  /\ pc' = [e \in Edit |-> IF pc[e] = "new" THEN "new" ELSE "ended"]
  /\ built' = [e \in Edit |-> Empty] /\ seen' = [e \in Edit |-> {}]
  /\ ask' = [e \in Edit |-> NoAsk]
  /\ UNCHANGED <<store, faults>>

-----------------------------------------------------------------------------
(* The operations.                                                         *)

EditSet == [kind : {"refresh"}, provider : Provider]
  \cup [kind : {"credential"}, provider : Provider, set : BOOLEAN]
  \cup [kind : {"provider"}, provider : Provider, patch : {[enabled |-> TRUE], [enabled |-> FALSE], [moved |-> TRUE]}]
  \cup [kind : {"profile"}, profile : Profile, rebind : BOOLEAN, order : Orders, patch : Patches]

Patched(row, patch) == [f \in DOMAIN row |-> IF f \in DOMAIN patch THEN patch[f] ELSE row[f]]

Configured(p) == p \in environment \/ store.key[p]

AskFor(e) ==
  /\ phase = "up" /\ pc[e] = "new"
  /\ \E a \in EditSet :
       /\ ask' = [ask EXCEPT ![e] = a]
       /\ a.kind = "profile" /\ ~a.rebind => a.order = <<>>
  /\ pc' = [pc EXCEPT ![e] = "waiting"]
  /\ UNCHANGED <<store, snapshot, lock, seen, built, process, missed, restarts, faults>>

End(e) == /\ pc' = [pc EXCEPT ![e] = "ended"] /\ ask' = [ask EXCEPT ![e] = NoAsk]
          /\ seen' = [seen EXCEPT ![e] = {}] /\ built' = [built EXCEPT ![e] = Empty]

Release(e) == lock' = IF lock = e THEN NoOne ELSE lock

(* set_ and delete_provider_credential: no lock, no snapshot; the key in    *)
(* the environment is read-only and shadows the stored one.                 *)
Credential(e) ==
  /\ pc[e] = "waiting" /\ ask[e].kind = "credential"
  /\ LET p == ask[e].provider
     IN IF store.provider[p].there
        THEN store' = [store EXCEPT !.key[p] = ask[e].set] ELSE UNCHANGED store
  /\ End(e)
  /\ UNCHANGED <<snapshot, lock, process, missed, restarts, faults>>

(* A mutant of Free.                                                      *)
FreeUnlessProvider(e) == lock = NoOne \/ ask[e].kind = "provider"
Free(e) == lock = NoOne

ValidBinding(profile, k, m) ==
  /\ store.model[m].there
  /\ Requires[k] \subseteq Trusted(store.model[m], m)
  /\ profile.local => Owner[m] \in Local

Refused(a) ==
  \/ a.kind \in {"refresh", "provider"} /\ ~store.provider[a.provider].there
  \/ /\ a.kind = "profile" /\ a.rebind
     /\ \E i \in DOMAIN a.order :
          ~ValidBinding(Patched(store.profile[a.profile], a.patch), a.profile, a.order[i].model)

Current(a) == IF a.kind = "profile" THEN store.profile[a.profile] ELSE store.provider[a.provider]

(* The lock is taken and the row to change is read and checked. *)
Begin(e) ==
  /\ pc[e] = "waiting" /\ ask[e].kind # "credential" /\ Free(e)
  /\ \/ /\ Refused(ask[e]) /\ End(e)
        /\ UNCHANGED lock
     \/ /\ ~Refused(ask[e]) /\ lock' = e
        /\ seen' = [seen EXCEPT ![e] = Current(ask[e])]
        /\ pc' = [pc EXCEPT ![e] = IF ask[e].kind = "refresh" THEN "discovering" ELSE "read"]
        /\ UNCHANGED <<ask, built>>
  /\ UNCHANGED <<store, snapshot, process, missed, restarts, faults>>

(* refresh_models: the provider lists its models, within a timeout; what    *)
(* it lists is added, what it lists no more becomes unavailable.            *)
Listed(s, p, models) ==
  [s EXCEPT !.model = [m \in Model |->
     IF m \in models
     THEN IF s.model[m].there THEN [s.model[m] EXCEPT !.available = TRUE] ELSE Discovered
     ELSE IF Owner[m] = p /\ s.model[m].source = "DISCOVERED"
          THEN [s.model[m] EXCEPT !.available = FALSE] ELSE s.model[m]]]

Save(e, s) ==
  /\ store' = s /\ pc' = [pc EXCEPT ![e] = "saved"]
  /\ UNCHANGED <<snapshot, lock, ask, seen, built, process, missed, restarts, faults>>

Discover(e) ==
  /\ pc[e] = "discovering" /\ Configured(ask[e].provider)
  /\ \E models \in SUBSET {m \in Model : Owner[m] = ask[e].provider} :
       Save(e, Listed(store, ask[e].provider, models))

Fail(e) ==
  /\ End(e) /\ Release(e)
  /\ UNCHANGED <<store, snapshot, process, restarts>>

DiscoveryFails(e) ==
  /\ pc[e] = "discovering"
  /\ \/ ~Configured(ask[e].provider) /\ UNCHANGED faults
     \/ faults < MaxFaults /\ faults' = faults + 1
  /\ Fail(e) /\ UNCHANGED missed

(* update_provider and update_profile: the row that was read, with the      *)
(* fields of the patch, and the bindings when the patch has them.           *)
Change(e) ==
  LET a == ask[e]
      row == Patched(seen[e], a.patch)
  IN IF a.kind = "provider" THEN [store EXCEPT !.provider[a.provider] = row]
     ELSE [store EXCEPT !.profile[a.profile] = row,
                        !.bindings[a.profile] = IF a.rebind THEN a.order ELSE @]

Commit(e) == pc[e] = "read" /\ Save(e, Change(e))

(* _rebuild_and_publish: read everything, then replace the snapshot.        *)
Rebuild(e) ==
  /\ pc[e] = "saved"
  /\ built' = [built EXCEPT ![e] = Build(store, canonical)]
  /\ pc' = [pc EXCEPT ![e] = "built"]
  /\ UNCHANGED <<store, snapshot, lock, ask, seen, process, missed, restarts, faults>>

Publish(e) ==
  /\ pc[e] = "built"
  /\ snapshot' = built[e] /\ missed' = FALSE
  /\ End(e) /\ Release(e)
  /\ UNCHANGED <<store, process, restarts, faults>>

(* An error of the store: at the commit nothing is kept; at the rebuild the *)
(* change is durable, and the previous snapshot stands.                     *)
StorageFails(e) ==
  /\ faults < MaxFaults /\ faults' = faults + 1
  /\ \/ pc[e] = "read" /\ Fail(e) /\ UNCHANGED missed
     \/ pc[e] = "saved" /\ Fail(e) /\ missed' = TRUE

Progress(e) == Credential(e) \/ Begin(e) \/ Discover(e) \/ DiscoveryFails(e)
                 \/ Commit(e) \/ Rebuild(e) \/ Publish(e)

Stop == /\ phase = "up" /\ restarts = MaxRestarts /\ \A e \in Edit : pc[e] = "ended"
        /\ UNCHANGED vars

Next == \/ Bootstrap \/ BootstrapPublish \/ Restart \/ Stop
        \/ \E e \in Edit : AskFor(e) \/ Progress(e) \/ StorageFails(e)

(* The lock is fair and discovery has a timeout, so that a request that     *)
(* has begun goes on.                                                       *)
Spec == Init /\ [][Next]_vars /\ \A e \in Edit : WF_vars(Progress(e))

-----------------------------------------------------------------------------
(* Properties.                                                             *)

Settled == phase = "up" /\ lock = NoOne /\ ~missed

(* Every change that is durable is the one in force: whenever no change is  *)
(* under way, requests are routed with a snapshot of exactly what is        *)
(* stored, unless the last rebuild failed after its change was committed    *)
(* (then the old one stands until the next change or the next start).       *)
SnapshotIsCurrent == Settled => snapshot = Build(store, canonical)

(* However configuration and requests are combined, a request or a profile  *)
(* that says LOCAL_ONLY is answered by a local model or by none, and the    *)
(* model has every capability that either of them requires; profiles cannot *)
(* widen what a request allows, and a narrowed profile cannot be left       *)
(* through a binding made before, an override or the canonical fallback.    *)
RoutesAreEligible ==
  \A k \in snapshot.profiles, r \in Request :
    LET m == Resolve(snapshot, k, r)
    IN m # NoModel =>
         /\ r.local \/ snapshot.profile[k].local => Owner[m] \in Local
         /\ r.caps \cup Requires[k] \subseteq Claims[m]
         /\ r.override \in {m, NoModel}

(* A provider or a profile switched off, and a model nobody vouched for or  *)
(* that its provider lists no more, are chosen by no request that starts    *)
(* when nothing is under way.                                               *)
DisabledIsUnused ==
  Settled =>
    \A k \in Profile, r \in Request :
      LET m == Resolve(snapshot, k, r)
      IN m # NoModel => /\ store.profile[k].enabled /\ store.provider[Owner[m]].enabled
                        /\ store.model[m].source = "BOOTSTRAP" /\ store.model[m].available

(* The canonical model of the configuration can be used after every start,  *)
(* unless its provider was switched off, or a refresh had listed the model  *)
(* before it was configured: bootstrap keeps that row, disabled and without *)
(* claims, and no operation of the service can enable it.                   *)
CanonicalRoutable ==
  Settled => \/ canonical \in snapshot.registered
             \/ ~store.provider[Owner[canonical]].enabled
             \/ store.model[canonical].source = "DISCOVERED"

(* A change keeps the fields it does not name as they are at its commit, so *)
(* that of two concurrent patches of one row neither undoes the other.      *)
PatchKeepsTheRest ==
  [][\A e \in Edit : pc[e] = "read" /\ pc'[e] = "saved" =>
       LET a == ask[e]
           now == Current(a)
           then == (IF a.kind = "profile" THEN store'.profile[a.profile] ELSE store'.provider[a.provider])
       IN \A f \in DOMAIN now \ DOMAIN a.patch : then[f] = now[f]]_vars

(* Every request of the API ends, although refreshes hold the lock over a   *)
(* call to their provider and any step may fail.                            *)
EditEnds == \A e \in Edit : pc[e] = "waiting" ~> pc[e] = "ended"

(* Settings are in order at every step: what is stored is in force, what    *)
(* was switched off is unused, and the canonical model can be used.         *)
SettingsInOrder == TypeOK /\ SnapshotIsCurrent /\ DisabledIsUnused /\ CanonicalRoutable

(* Concurrent changes neither undo nor block each other.                    *)
EditsAreKept == PatchKeepsTheRest /\ EditEnds
=============================================================================
