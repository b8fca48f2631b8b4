------------------------------- MODULE KeySet -------------------------------
(***************************************************************************)
(* The signing keys Keyway operates for one issuer (localkeys.KeySet): the *)
(* announce, promote and retire operations of concurrent API callers, the  *)
(* hook that writes the whole key set back after each, and the restarts    *)
(* that load it again (issuerregistry.bindStore).  Every replica of the    *)
(* daemon keeps a key set of its own; the replicas share one stored row,   *)
(* or one file.                                                            *)
(*                                                                         *)
(* A mutation is atomic under ks.mu.  The Export that follows it takes the *)
(* lock again, later, inside persistMu: what a caller saves is whatever    *)
(* the key set is by then.                                                 *)
(***************************************************************************)
EXTENDS Naturals, Sequences, FiniteSets, Functions

CONSTANTS
    Replicas,       \* daemons pointed at the same key store
    Callers,        \* API requests that can be in flight
    Home,           \* the replica a caller talks to
    Durability,     \* whether a key store is configured: a set of BOOLEAN
    MaxKeys,        \* bound: keys ever generated
    MaxFailures     \* bound: crashes and failed saves

ASSUME KeySetAssumption ==
    /\ Home \in [Callers -> Replicas]
    /\ Durability \subseteq BOOLEAN
    /\ MaxKeys \in Nat
    /\ MaxFailures \in Nat

(* KIDs are UUIDs: a number per key, never used twice. *)
KID == Nat \ {0}

Status == {"announced", "active", "retiring", "retired"}

Key == [kid : KID, status : Status]

VARIABLES
    durable,    \* a key store is configured
    stored,     \* the key set in it
    up,         \* whether a replica runs
    keys,       \* the key set in each replica's memory, in list order
    pc,         \* where a caller is: "idle", "notify" or "save"
    copy,       \* the key set a caller has exported and is saving
    generated,  \* keys generated so far, anywhere
    failures,   \* crashes and failed saves so far
    outcome,    \* history: the replica's last save since it started
    settled     \* history: nothing loaded, or a key promoted since

vars == <<durable, stored, up, keys, pc, copy, generated, failures, outcome, settled>>

KIDs(ks) == {k.kid : k \in Range(ks)}

(* The keys of a set that have a status, by position: the code uses the    *)
(* first.                                                                  *)
With(ks, status) == {i \in DOMAIN ks : ks[i].status = status}

(* activeLocked, kidByStatus: the first key of the list with that status.  *)
First(ks, status) ==
    {ks[i].kid : i \in {j \in With(ks, status) : \A l \in With(ks, status) : j <= l}}

Init ==
    /\ durable \in Durability
    /\ stored = <<>>
    /\ up = [r \in Replicas |-> FALSE]
    /\ keys = [r \in Replicas |-> <<>>]
    /\ pc = [c \in Callers |-> "idle"]
    /\ copy = [c \in Callers |-> <<>>]
    /\ generated = 0
    /\ failures = 0
    /\ outcome = [r \in Replicas |-> "none"]
    /\ settled = [r \in Replicas |-> FALSE]

-----------------------------------------------------------------------------
(* The daemon. *)

(* A plausible bug: only the canary is loaded. *)
StartWithCanary(r) ==
    /\ ~up[r]
    /\ generated < MaxKeys
    /\ up' = [up EXCEPT ![r] = TRUE]
    /\ generated' = generated + 1
    /\ keys' = [keys EXCEPT ![r] =
           <<[kid |-> generated + 1, status |-> "active"]>>
               \o SelectSeq(stored, LAMBDA k : k.status = "announced")]
    /\ outcome' = [outcome EXCEPT ![r] = "none"]
    /\ settled' = [settled EXCEPT ![r] = stored = <<>>]
    /\ UNCHANGED <<durable, stored, pc, copy, failures>>

(* The key an adapter generates when it is built. *)
New(kid) == <<[kid |-> kid, status |-> "active"]>>

(* What is loaded goes behind the keys there are. *)
Import(ks, loaded) == ks \o loaded

(* The adapter generates an active key, then bindStore imports what is     *)
(* stored behind it (skipping KIDs that are there, which a fresh UUID      *)
(* never is) and only then installs the hook: nothing is written.  A store *)
(* that does not load keeps the daemon down.                               *)
Start(r) ==
    /\ ~up[r]
    /\ generated < MaxKeys
    /\ up' = [up EXCEPT ![r] = TRUE]
    /\ generated' = generated + 1
    /\ keys' = [keys EXCEPT ![r] = Import(New(generated + 1), stored)]
    /\ outcome' = [outcome EXCEPT ![r] = "none"]
    /\ settled' = [settled EXCEPT ![r] = stored = <<>>]
    /\ UNCHANGED <<durable, stored, pc, copy, failures>>

CallersOf(r) == {c \in Callers : Home[c] = r}

(* What the store may hold after saves that nobody saw the end of. *)
Torn(cs) == {stored} \cup {copy[c] : c \in {d \in cs : pc[d] = "save"}}

(* The daemon dies, its memory and its callers with it.  A save in flight  *)
(* lands or not.                                                           *)
Crash(r) ==
    /\ up[r]
    /\ failures < MaxFailures
    /\ failures' = failures + 1
    /\ up' = [up EXCEPT ![r] = FALSE]
    /\ keys' = [keys EXCEPT ![r] = <<>>]
    /\ stored' \in Torn(CallersOf(r))
    /\ pc' = [c \in Callers |-> IF Home[c] = r THEN "idle" ELSE pc[c]]
    /\ copy' = [c \in Callers |-> IF Home[c] = r THEN <<>> ELSE copy[c]]
    /\ UNCHANGED <<durable, generated, outcome, settled>>

-----------------------------------------------------------------------------
(* Mutations: under ks.mu, then notify. *)

(* The operation has changed the key set of the caller's replica; without  *)
(* a hook it is done.                                                      *)
Mutate(c, ks) ==
    /\ up[Home[c]]
    /\ pc[c] = "idle"
    /\ keys' = [keys EXCEPT ![Home[c]] = ks]
    /\ pc' = [pc EXCEPT ![c] = IF durable THEN "notify" ELSE "idle"]
    /\ UNCHANGED <<durable, stored, up, copy, failures, outcome>>

(* Generate, as AnnounceKey calls it: published, not signing. *)
Announce(c) ==
    /\ generated < MaxKeys
    /\ generated' = generated + 1
    /\ Mutate(c, Append(keys[Home[c]], [kid |-> generated + 1, status |-> "announced"]))
    /\ UNCHANGED settled

SetStatus(ks, kid, status) ==
    [i \in DOMAIN ks |-> IF ks[i].kid = kid THEN [ks[i] EXCEPT !.status = status] ELSE ks[i]]

(* A plausible bug: the key that signs is demoted, other active keys are   *)
(* not.                                                                    *)
DemoteSigner(ks) ==
    [i \in DOMAIN ks |-> IF ks[i].kid \in First(ks, "active")
                         THEN [ks[i] EXCEPT !.status = "retiring"] ELSE ks[i]]

(* Every active key becomes retiring. *)
Demote(ks) ==
    [i \in DOMAIN ks |-> IF ks[i].status = "active"
                         THEN [ks[i] EXCEPT !.status = "retiring"] ELSE ks[i]]

(* A key of any status becomes the active one. *)
Promote(c, kid) ==
    /\ kid \in KIDs(keys[Home[c]])
    /\ Mutate(c, SetStatus(Demote(keys[Home[c]]), kid, "active"))
    /\ settled' = [settled EXCEPT ![Home[c]] = TRUE]
    /\ UNCHANGED generated

(* A key of any status, the active one included, becomes retired. *)
Retire(c, kid) ==
    /\ kid \in KIDs(keys[Home[c]])
    /\ Mutate(c, SetStatus(keys[Home[c]], kid, "retired"))
    /\ UNCHANGED <<generated, settled>>

-----------------------------------------------------------------------------
(* notify: persistMu is held from Export to the end of the save. *)

(* A plausible bug: no persistMu. *)
ExportUnlocked(c) ==
    /\ pc[c] = "notify"
    /\ pc' = [pc EXCEPT ![c] = "save"]
    /\ copy' = [copy EXCEPT ![c] = keys[Home[c]]]
    /\ UNCHANGED <<durable, stored, up, keys, generated, failures, outcome, settled>>

(* A plausible bug: retired keys are not worth keeping. *)
ExportPublished(c) ==
    /\ pc[c] = "notify"
    /\ \A d \in CallersOf(Home[c]) : pc[d] # "save"
    /\ pc' = [pc EXCEPT ![c] = "save"]
    /\ copy' = [copy EXCEPT ![c] = SelectSeq(keys[Home[c]], LAMBDA k : k.status # "retired")]
    /\ UNCHANGED <<durable, stored, up, keys, generated, failures, outcome, settled>>

Export(c) ==
    /\ pc[c] = "notify"
    /\ \A d \in CallersOf(Home[c]) : pc[d] # "save"
    /\ pc' = [pc EXCEPT ![c] = "save"]
    /\ copy' = [copy EXCEPT ![c] = keys[Home[c]]]
    /\ UNCHANGED <<durable, stored, up, keys, generated, failures, outcome, settled>>

(* The caller has what it came for, saved or not. *)
Return(c, result) ==
    /\ pc[c] = "save"
    /\ pc' = [pc EXCEPT ![c] = "idle"]
    /\ copy' = [copy EXCEPT ![c] = <<>>]
    /\ outcome' = [outcome EXCEPT ![Home[c]] = result]
    /\ UNCHANGED <<durable, up, keys, generated, settled>>

(* A plausible bug: a status that is not serialized. *)
SaveNames(c) ==
    /\ stored' = [i \in DOMAIN copy[c] |-> [kid |-> copy[c][i].kid]]
    /\ Return(c, "saved")
    /\ UNCHANGED failures

(* A plausible bug: an error path that keeps persistMu. *)
SaveKeepsLock(c) ==
    /\ pc[c] = "save"
    /\ stored' = copy[c]
    /\ outcome' = [outcome EXCEPT ![Home[c]] = "saved"]
    /\ UNCHANGED <<durable, up, keys, pc, copy, generated, failures, settled>>

(* The row, or the file, is replaced by the copy. *)
Save(c) ==
    /\ stored' = copy[c]
    /\ Return(c, "saved")
    /\ UNCHANGED failures

(* The save fails, or its outcome is lost: logged, and no error to the     *)
(* caller.                                                                 *)
SaveError(c) ==
    /\ failures < MaxFailures
    /\ failures' = failures + 1
    /\ stored' \in Torn({c})
    /\ Return(c, "failed")

(* persist.go's notify goes on. *)
Notify(c) == Export(c) \/ Save(c) \/ SaveError(c)

Next ==
    \/ \E r \in Replicas : Start(r) \/ Crash(r)
    \/ \E c \in Callers :
           \/ Announce(c)
           \/ \E kid \in KIDs(keys[Home[c]]) : Promote(c, kid) \/ Retire(c, kid)
           \/ Notify(c)

Spec == Init /\ [][Next]_vars

(* A caller that wants persistMu gets it sooner or later (sync.Mutex does  *)
(* not starve), and a save ends: ten seconds in Postgres, a local file     *)
(* otherwise.                                                              *)
Fairness ==
    \A c \in Callers : SF_vars(Export(c)) /\ WF_vars(Save(c) \/ SaveError(c))

FairSpec == Spec /\ Fairness

-----------------------------------------------------------------------------
TypeOK ==
    /\ durable \in BOOLEAN
    /\ stored \in Seq(Key)
    /\ up \in [Replicas -> BOOLEAN]
    /\ keys \in [Replicas -> Seq(Key)]
    /\ pc \in [Callers -> {"idle", "notify", "save"}]
    /\ copy \in [Callers -> Seq(Key)]
    /\ generated \in Nat
    /\ failures \in Nat
    /\ outcome \in [Replicas -> {"none", "saved", "failed"}]
    /\ settled \in [Replicas -> BOOLEAN]

Quiet(r) == \A c \in CallersOf(r) : pc[c] = "idle"

(* "two concurrent mutations cannot race their persists (which would drop  *)
(* an update) or apply them out of order" (persist.go): once a replica is  *)
(* quiet, the store holds its key set, all but the key it was started      *)
(* with if nothing has been saved since, unless its last save failed.      *)
StoreIsCurrent ==
    \A r \in Replicas :
        durable /\ up[r] /\ Quiet(r) =>
            /\ outcome[r] = "saved" => stored = keys[r]
            /\ outcome[r] = "none" => stored = Tail(keys[r])

(* A key that is stored once is never lost from the store again, through   *)
(* saves that fail or race and restarts that load it (KI-09): with one     *)
(* replica.                                                                *)
KeysNeverDropped == [][KIDs(stored) \subseteq KIDs(stored')]_vars

(* "only one key signs at a time" (keyset.go, Promote): at most one key is *)
(* active in a replica, unless it loaded keys and none was promoted since. *)
SoleSigner ==
    \A r \in Replicas :
        settled[r] => \A i, j \in With(keys[r], "active") : i = j

(* Every announce, promote and retire returns, or its replica dies:        *)
(* neither the two locks nor a failing store hold it for ever.             *)
CallsReturn == \A c \in Callers : pc[c] = "notify" ~> pc[c] = "idle"

(* "Canary state therefore survives a `keyway serve` restart."             *)
(* (registry.go): a replica that has nothing left to save signs with the   *)
(* key that, of the stored ones, signed.                                   *)
SignerSurvives ==
    \A r \in Replicas :
        durable /\ up[r] /\ Quiet(r) /\ outcome[r] # "failed" /\ With(stored, "active") # {} =>
            First(keys[r], "active") = First(stored, "active")
=============================================================================
