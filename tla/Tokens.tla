------------------------------- MODULE Tokens -------------------------------
(***************************************************************************)
(* The synthetic tokens the engine sends: the thirteen probes              *)
(* (internal/probe/probes.go, mint.go) and the attack corpus               *)
(* (internal/attack), and the verifier they are judged by                  *)
(* (internal/attack/oracle.go).                                            *)
(*                                                                         *)
(* A token is a record: its shape, the alg of its header, where the header *)
(* says the key is to be found, what its signature was made with, and its  *)
(* claims, a function from claim names.  "aud" is a set; a time is "past"  *)
(* or "future".                                                            *)
(***************************************************************************)
EXTENDS Sequences, SequencesExt

NoKey     == ""     \* no key with that status
NoName    == ""

First(s, default) == IF s = <<>> THEN default ELSE Head(s)

-----------------------------------------------------------------------------
(* The keys of the issuer, a sequence of [kid, status].                    *)

ResolveKey(keys, status) ==
    LET found == {i \in DOMAIN keys : keys[i].status = status}
    IN  IF found = {} THEN NoKey ELSE keys[Min(found)].kid

(* The first audience of another consumer that is not taken.               *)
FirstAudience(c, all, taken) ==
    LET free(i) == {j \in DOMAIN all[i].audiences : all[i].audiences[j] \notin taken}
        others  == {i \in DOMAIN all : all[i].id # c.id /\ free(i) # {}}
        first   == Min(others)
    IN  IF others = {} THEN NoName ELSE all[first].audiences[Min(free(first))]

(* A plausible bug: one that is this one's too.                            *)
AnyOtherAudience(c, all) == FirstAudience(c, all, {NoName})

SiblingAudience(c, all) == FirstAudience(c, all, ToSet(c.audiences) \cup {NoName})

-----------------------------------------------------------------------------
(* Claims. *)

Given(name, value) == IF name = "aud" THEN {value} ELSE value

Standard(c, issuer) ==
    [iss |-> First(c.issuers, issuer), aud |-> {First(c.audiences, NoName)}, sub |-> "synthetic",
     iat |-> "past", nbf |-> "past", exp |-> "future"]

(* Every claim the consumer requires is there; a probe's claims keep their *)
(* standard values ...                                                     *)
BaselineClaims(c, issuer) ==
    LET standard == Standard(c, issuer)
    IN  [n \in DOMAIN standard \cup ToSet(c.claims) |->
            IF n \in DOMAIN standard THEN standard[n] ELSE Given(n, "keyway-placeholder")]

(* ... and those of the corpus lose them to the required ones.             *)
CorpusClaims(c, issuer) ==
    LET standard == Standard(c, issuer)
    IN  [n \in DOMAIN standard \cup ToSet(c.claims) |->
            IF n \in ToSet(c.claims) THEN Given(n, "read") ELSE standard[n]]

With(m, name, value) == [n \in DOMAIN m \cup {name} |-> IF n = name THEN value ELSE m[n]]
Without(m, name)     == [n \in DOMAIN m \ {name} |-> m[n]]

-----------------------------------------------------------------------------
(* Tokens. *)

Signed(kid, claims) ==
    [shape |-> "jws", alg |-> "RS256", key |-> "kid", signature |-> kid, claims |-> claims]
Forged(alg, key, signature, claims) ==
    [shape |-> "jws", alg |-> alg, key |-> key, signature |-> signature, claims |-> claims]

TamperSignature(tok) == [tok EXCEPT !.signature = "tampered"]

(* No bearer token, and headers that claim an identity.                    *)
NoToken == [shape |-> "absent"]

(* What is sent, and the check of a service's that it is about.            *)
Send(id, check, token, expect) == [id |-> id, check |-> check, token |-> token, expect |-> expect]

(* Definitions, with probe 9 expanded by the engine: what is sent to a     *)
(* consumer, in order.  A probe that needs what is not there is left out.  *)
ProbePlan(c, all, keys, issuer, maxClaims) ==
    LET b         == BaselineClaims(c, issuer)
        active    == ResolveKey(keys, "active")
        announced == ResolveKey(keys, "announced")
        retired   == ResolveKey(keys, "retired")
        sibling   == SiblingAudience(c, all)
        mint(m)   == Signed(active, m)
        omitted   == SubSeq(c.claims, 1, IF Len(c.claims) > maxClaims THEN maxClaims ELSE Len(c.claims))
        when(condition, probe) == IF condition THEN <<probe>> ELSE <<>>
    IN  <<Send("valid_token", "nothing", mint(b), "accept"),
          Send("expired", "expiry", mint(With(b, "exp", "past")), "reject"),
          Send("not_yet_valid", "notBefore", mint(With(b, "nbf", "future")), "reject"),
          Send("wrong_issuer", "issuer", mint(With(b, "iss", "invalid")), "reject"),
          Send("wrong_audience", "audience", mint(With(b, "aud", {"invalid"})), "reject"),
          Send("alg_none", "none", Forged("none", "kid", "empty", b), "reject")>>
        \o when(active # NoKey,
             Send("alg_confusion", "keyType", Forged("HS256", "kid", "publicPEM", b), "reject"))
        \o <<Send("tampered_signature", "signature", TamperSignature(mint(b)), "reject")>>
        \o [i \in DOMAIN omitted |->
             Send("missing_required_claim", "claims", mint(Without(b, omitted[i])), "reject")]
        \o when(retired # NoKey, Send("retired_key", "retired", Signed(retired, b), "reject"))
        \o when(sibling # NoName,
             Send("sibling_client_token", "audience", mint(With(b, "aud", {sibling})), "reject"))
        \o <<Send("header_bypass", "bearer", NoToken, "reject")>>
        \o when(announced # NoKey, Send("canary_key", "pickup", Signed(announced, b), "accept"))

(* The fourth ends in a blank. *)
Spellings == <<"None", "NONE", "nOnE", "noneBlank">>

(* Corpus: the control, forgeries, and tokens the real issuer signs.  The  *)
(* signature of a padded token is the one of the payload before.           *)
Corpus(c, keys, issuer) ==
    LET b          == CorpusClaims(c, issuer)
        active     == ResolveKey(keys, "active")
        trusted(m) == Signed(active, m)
        reject(id, check, token) == Send(id, check, token, "reject")
    IN  <<Send("CONTROL", "nothing", trusted(b), "accept"),
          reject("SIG-01", "none", Forged("none", "kid", "empty", b)),
          reject("SIG-03", "signature", Forged("RS256", "kid", "empty", b)),
          reject("SIG-02", "signature", TamperSignature(trusted(b)))>>
        \o (IF active = NoKey THEN <<>>
            ELSE <<reject("ALG-01", "keyType", Forged("HS256", "kid", "publicPEM", b))>>)
        \o [i \in DOMAIN Spellings |-> reject("ALG-03", "spellings", Forged(Spellings[i], "kid", "empty", b))]
        \o <<reject("ALG-04", "zeros", Forged("ES256", "kid", "zeros", b)),
             reject("HDR-03", "embeddedKey", Forged("RS256", "jwk", "attacker", b)),
             reject("HDR-01", "keyURL", Forged("RS256", "jku", "attacker", b)),
             reject("HDR-02", "keyURL", Forged("RS256", "x5u", "attacker", b)),
             reject("HDR-05", "keyPath", Forged("HS256", "path", "emptySecret", b)),
             reject("CLM-01", "expiry", trusted(With(b, "exp", "past"))),
             reject("CLM-02", "notBefore", trusted(With(b, "nbf", "future"))),
             reject("CLM-03", "issuer", trusted(With(b, "iss", "evil"))),
             reject("CLM-04", "audience", trusted(With(b, "aud", {"other"}))),
             reject("CLM-06", "audience", trusted(With(b, "aud", {"other", "another"}))),
             reject("CLM-08", "expiry", trusted(Without(b, "exp"))),
             reject("ENC-01", "segments", [trusted(b) EXCEPT !.shape = "fourSegments"]),
             reject("ENC-02", "padding", [trusted(b) EXCEPT !.shape = "padded"]),
             reject("MCP-01", "audience", trusted(With(b, "aud", {"passthrough"}))),
             reject("MCP-02", "audience", trusted(Without(b, "aud"))),
             reject("DEL-02", "audience", trusted(With(b, "aud", {"sibling"})))>>

-----------------------------------------------------------------------------
(* The verifier: what a service makes of a token when it performs the      *)
(* given checks; without one it makes the classic mistake.  The Oracle     *)
(* performs them all.                                                      *)

Checks ==
    {"segments",    \* there are three
     "padding",     \* none is padded
     "algorithm",   \* alg is the issuer's, RS256
     "none",        \* alg is not "none" ...
     "spellings",   \* ... however it is spelled
     "keyType",     \* a public key is no HMAC secret
     "zeros",       \* an ECDSA signature has no zeros (or it holds no such key)
     "signature",   \* the signature is looked at
     "rawInput",    \* ... and over the segments as they came
     "embeddedKey", \* a key in the header is not used
     "keyURL",      \* nor one that the header says where to fetch
     "keyPath",     \* and a kid is not the path of a file
     "expiry", "notBefore", "issuer", "audience", "claims",
     "bearer"}      \* without a token nobody is let in

AllowedAlgorithm(checks, alg) ==
    /\ "algorithm" \in checks => alg = "RS256"
    /\ "none" \in checks => alg # "none"
    /\ "spellings" \in checks => alg \notin {"none"} \cup ToSet(Spellings)

(* The keys found where a header says: nobody hosts the attacker's.        *)
Hosted == {}

(* The keys an RS256 signature is verified with. *)
KeysFor(checks, trusts, tok) ==
    trusts \cup (IF "embeddedKey" \notin checks /\ tok.key = "jwk" THEN {"attacker"} ELSE {})
           \cup (IF "keyURL" \notin checks /\ tok.key \in {"jku", "x5u"} THEN Hosted ELSE {})

ValidSignature(checks, trusts, tok) ==
    /\ "rawInput" \in checks => tok.shape # "padded"
    /\ \/ tok.alg = "RS256" /\ tok.signature \in KeysFor(checks, trusts, tok)
       \/ tok.alg = "HS256" /\ tok.signature = "publicPEM" /\ "keyType" \notin checks
       \/ tok.alg = "HS256" /\ tok.signature = "emptySecret" /\ tok.key = "path" /\ "keyPath" \notin checks
       \/ tok.alg = "ES256" /\ tok.signature = "zeros" /\ "zeros" \notin checks
       \/ tok.alg \notin {"RS256", "HS256", "ES256"}

ValidClaims(checks, c, m) ==
    /\ "expiry" \in checks => "exp" \in DOMAIN m /\ m.exp = "future"
    /\ "notBefore" \in checks /\ "nbf" \in DOMAIN m => m.nbf # "future"
    /\ "issuer" \in checks /\ c.issuers # <<>> => "iss" \in DOMAIN m /\ Contains(c.issuers, m.iss)
    /\ "audience" \in checks /\ c.audiences # <<>> =>
           "aud" \in DOMAIN m /\ m.aud \cap ToSet(c.audiences) # {}
    /\ "claims" \in checks => ToSet(c.claims) \subseteq DOMAIN m

Verify(checks, trusts, c, tok) ==
    IF tok = NoToken THEN "bearer" \notin checks
    ELSE /\ "segments" \in checks => tok.shape # "fourSegments"
         /\ "padding" \in checks => tok.shape # "padded"
         /\ AllowedAlgorithm(checks, tok.alg)
         /\ "signature" \in checks => ValidSignature(checks, trusts, tok)
         /\ ValidClaims(checks, c, tok.claims)
=============================================================================
