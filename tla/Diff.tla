-------------------------------- MODULE Diff --------------------------------
(***************************************************************************)
(* The typed diff of two contract graphs and the classification of each    *)
(* change (internal/diff), with the canonical content hash of a graph      *)
(* (internal/contract/hash.go).                                            *)
(*                                                                         *)
(* A graph is a function from the StableIDs of its consumers to consumer   *)
(* records.  A consumer record keeps the fields the differ compares, one   *)
(* field "metadata" for everything the hash covers and the differ does not *)
(* (library, endpoints, owner, probeable, refresh interval, ...), and      *)
(* "doubtful": the field paths whose confidence is below confidenceFloor,  *)
(* which the differ reads and the hash does not.                           *)
(***************************************************************************)
EXTENDS Integers, FiniteSets

FieldAudiences      == "expects.audiences"
FieldIssuers        == "expects.issuers"
FieldAlgorithms     == "expects.algorithms"
FieldRequiredClaims == "expects.required_claims"
FieldClockSkew      == "expects.clock_skew_sec"
FieldRefreshUnknown == "jwks_behavior.refreshes_on_unknown_kid"
FieldCacheTTL       == "jwks_behavior.cache_ttl_sec"
FieldConsumer       == "consumer"

Fields == {FieldAudiences, FieldIssuers, FieldAlgorithms, FieldRequiredClaims,
           FieldClockSkew, FieldRefreshUnknown, FieldCacheTTL, FieldConsumer}

SetFields == {FieldAudiences, FieldIssuers, FieldAlgorithms, FieldRequiredClaims}

(* A nil *int (TTL never learnt) and a nil *bool. *)
NoTTL    == -1
NotKnown == "unknown"
Refreshes == {NotKnown, "yes", "no"}

(* What is kept of a model.Consumer. *)
Consumer ==
    [audiences : SUBSET STRING, issuers : SUBSET STRING, algorithms : SUBSET STRING,
     requiredClaims : SUBSET STRING, clockSkew : Int, refresh : Refreshes,
     cacheTTL : Int, metadata : STRING, doubtful : SUBSET Fields]

Classes    == {"widened", "narrowed", "neutral", "unknown"}
Severities == {"info", "low", "medium", "high", "critical"}

(* The part of an event a whole-field change has no element for. *)
NoValue == "-"

-----------------------------------------------------------------------------
(* Classify: the tables of classify.go, the confidence gate first. *)

Mark(class, severity) == [class |-> class, severity |-> severity]

Classify(field, op, value, doubtful) ==
    IF doubtful THEN Mark("unknown", "info") ELSE
    CASE field = FieldAudiences        -> IF op = "add" THEN Mark("widened", "medium")
                                                        ELSE Mark("narrowed", "low")
      [] field = FieldIssuers          -> IF op = "add" THEN Mark("widened", "high")
                                                        ELSE Mark("narrowed", "low")
      [] field = FieldAlgorithms       -> IF op = "add"
                                          THEN Mark("widened", IF value = "none" THEN "critical"
                                                                                 ELSE "medium")
                                          ELSE Mark("narrowed", "low")
      [] field = FieldRequiredClaims   -> IF op = "add" THEN Mark("narrowed", "low")
                                                        ELSE Mark("widened", "critical")
      [] field = FieldClockSkew        -> IF op = "increase" THEN Mark("widened", "medium")
                                                             ELSE Mark("narrowed", "low")
      [] field = FieldRefreshUnknown   -> IF op = "true_false" THEN Mark("narrowed", "high")
                                                               ELSE Mark("widened", "low")
      [] field = FieldCacheTTL         -> IF op = "increase" THEN Mark("narrowed", "medium")
                                                             ELSE Mark("narrowed", "low")
      [] field = FieldConsumer         -> Mark("neutral", "low")

(* emit: one classified change; "owner" is the consumer record whose       *)
(* confidence gates it.                                                    *)
Change(id, owner, field, op, value) ==
    [consumer |-> id, field |-> field, op |-> op, value |-> value,
     mark |-> Classify(field, op, value, field \in owner.doubtful)]

-----------------------------------------------------------------------------
(* Compute and its helpers. *)

DiffSet(id, field, from, to, owner) ==
         {Change(id, owner, field, "add", v) : v \in to \ from}
    \cup {Change(id, owner, field, "remove", v) : v \in from \ to}

DiffNumber(id, field, from, to, owner) ==
    IF from = to THEN {}
    ELSE {Change(id, owner, field, IF to < from THEN "decrease" ELSE "increase", NoValue)}

DiffExpectations(id, from, to) ==
         DiffSet(id, FieldAudiences, from.audiences, to.audiences, to)
    \cup DiffSet(id, FieldIssuers, from.issuers, to.issuers, to)
    \cup DiffSet(id, FieldAlgorithms, from.algorithms, to.algorithms, to)
    \cup DiffSet(id, FieldRequiredClaims, from.requiredClaims, to.requiredClaims, to)
    \cup DiffNumber(id, FieldClockSkew, from.clockSkew, to.clockSkew, to)

DiffJWKS(id, from, to) ==
         (IF NotKnown \in {from.refresh, to.refresh} \/ from.refresh = to.refresh THEN {}
          ELSE {Change(id, to, FieldRefreshUnknown,
                       IF from.refresh = "yes" THEN "true_false" ELSE "false_true", NoValue)})
    \cup (IF NoTTL \in {from.cacheTTL, to.cacheTTL} THEN {}
          ELSE DiffNumber(id, FieldCacheTTL, from.cacheTTL, to.cacheTTL, to))

Compute(from, to) ==
         {Change(id, from[id], FieldConsumer, "consumer_del", NoValue)
              : id \in DOMAIN from \ DOMAIN to}
    \cup {Change(id, to[id], FieldConsumer, "consumer_add", NoValue)
              : id \in DOMAIN to \ DOMAIN from}
    \cup UNION {DiffExpectations(id, from[id], to[id]) \cup DiffJWKS(id, from[id], to[id])
              : id \in DOMAIN from \cap DOMAIN to}

-----------------------------------------------------------------------------
(* A plausible bug: the hash forgets what a consumer expects.              *)
HashOfNames(graph) == DOMAIN graph

(* The canonical hash: everything of a consumer but its confidence.        *)
(* SHA-256 is taken as injective, so the hash is the canonical form.       *)
Hash(graph) ==
    [id \in DOMAIN graph |->
        [graph[id] EXCEPT !.doubtful = {}]]

(* ShouldNotify (internal/notify): never unknown, medium severity or more. *)
ShouldNotify(change) ==
    /\ change.mark.class # "unknown"
    /\ change.mark.severity \in {"medium", "high", "critical"}
=============================================================================
