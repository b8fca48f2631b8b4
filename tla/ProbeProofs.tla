----------------------------- MODULE ProbeProofs -----------------------------
(* Theorems about Probe: any consumers, issuer, limits and services, an    *)
(* operator who throws the switch and a caller who goes away at any time.  *)
EXTENDS Probe, Collections, SequenceTheorems, TLAPS

(***************************************************************************)
(* Sequences.                                                              *)
(***************************************************************************)

Sequence(s) == \E S : s \in Seq(S)

(* Lengths of sequences add up.                                            *)
LEMMA OfSequences ==
    ASSUME NEW s, NEW t, Sequence(s), Sequence(t)
    PROVE  /\ Sequence(s \o t) /\ Len(s \o t) = Len(s) + Len(t)
           /\ Len(s) \in Nat /\ Len(t) \in Nat
<1>1. PICK S : s \in Seq(S)
  BY DEF Sequence
<1>2. PICK T : t \in Seq(T)
  BY DEF Sequence
<1>3. s \in Seq(S \cup T) /\ t \in Seq(S \cup T)
  BY <1>1, <1>2, SeqMonotonic
<1>4. s \o t \in Seq(S \cup T) /\ Len(s \o t) = Len(s) + Len(t) /\ Len(s) \in Nat /\ Len(t) \in Nat
  BY <1>3, ConcatProperties, LenProperties
<1>5. QED
  BY <1>4 DEF Sequence

(* What a sequence made of two holds comes from one of them. *)
LEMMA FromEither ==
    ASSUME NEW s, NEW t, Sequence(s), Sequence(t)
    PROVE  ToSet(s \o t) = ToSet(s) \cup ToSet(t)
<1>1. PICK S : s \in Seq(S)
  BY DEF Sequence
<1>2. PICK T : t \in Seq(T)
  BY DEF Sequence
<1>3. s \in Seq(S \cup T) /\ t \in Seq(S \cup T)
  BY <1>1, <1>2, SeqMonotonic
<1>4. /\ Len(s \o t) = Len(s) + Len(t) /\ s \o t \in Seq(S \cup T)
      /\ \A i \in 1..(Len(s) + Len(t)) : (s \o t)[i] = IF i <= Len(s) THEN s[i] ELSE t[i - Len(s)]
  BY <1>3, ConcatProperties
<1>5. /\ Len(s) \in Nat /\ DOMAIN s = 1..Len(s) /\ Len(t) \in Nat /\ DOMAIN t = 1..Len(t)
      /\ DOMAIN (s \o t) = 1..(Len(s) + Len(t))
  BY <1>3, <1>4, LenProperties
<1> DEFINE u == s \o t
<1>6. \A i \in DOMAIN u : u[i] \in ToSet(s) \cup ToSet(t)
  BY <1>4, <1>5 DEF ToSet
<1>7. \A i \in DOMAIN s : s[i] \in ToSet(u)
  <2>1. \A i \in DOMAIN s : i \in DOMAIN u /\ u[i] = s[i]
    BY <1>4, <1>5
  <2> HIDE DEF u
  <2>2. QED
    BY <2>1 DEF ToSet
<1>8. \A i \in DOMAIN t : t[i] \in ToSet(u)
  <2>1. \A i \in DOMAIN t : Len(s) + i \in DOMAIN u /\ u[Len(s) + i] = t[i]
    BY <1>4, <1>5
  <2> HIDE DEF u
  <2>2. QED
    BY <2>1 DEF ToSet
<1> HIDE DEF u
<1>9. ToSet(u) \subseteq ToSet(s) \cup ToSet(t)
  BY <1>6 DEF ToSet
<1>10. ToSet(s) \subseteq ToSet(u) /\ ToSet(t) \subseteq ToSet(u)
  BY <1>7, <1>8 DEF ToSet
<1>11. QED
  BY <1>9, <1>10 DEF u

LEMMA Tuples ==
    /\ Sequence(<<>>) /\ Len(<<>>) = 0
    /\ \A a : Sequence(<<a>>) /\ Len(<<a>>) = 1
    /\ \A a, b, c, d : Sequence(<<a, b, c, d>>) /\ Len(<<a, b, c, d>>) = 4
    /\ \A a, b, c, d, e, f : Sequence(<<a, b, c, d, e, f>>) /\ Len(<<a, b, c, d, e, f>>) = 6
<1>1. <<>> \in Seq({})
  OBVIOUS
<1>2. ASSUME NEW a PROVE <<a>> \in Seq({a})
  OBVIOUS
<1>3. ASSUME NEW a, NEW b, NEW c, NEW d PROVE <<a, b, c, d>> \in Seq({a, b, c, d})
  OBVIOUS
<1>4. ASSUME NEW a, NEW b, NEW c, NEW d, NEW e, NEW f
      PROVE  <<a, b, c, d, e, f>> \in Seq({a, b, c, d, e, f})
  OBVIOUS
<1>5. QED
  BY <1>1, <1>2, <1>3, <1>4 DEF Sequence

(* What the shortest of them hold. *)
LEMMA OfTuples ==
    ASSUME NEW S
    PROVE  ToSet(<<>>) \subseteq S /\ \A a \in S : ToSet(<<a>>) \subseteq S
<1>1. ToSet(<<>>) \subseteq S
  BY DEF ToSet
<1>2. ASSUME NEW a \in S PROVE ToSet(<<a>>) \subseteq S
  BY DEF ToSet
<1>3. QED
  BY <1>1, <1>2

(* What goes before a sequence of members of S is not made shorter by it.  *)
LEMMA Longer ==
    ASSUME NEW s, NEW t, NEW S, Sequence(s), Len(s) > 0, ToSet(s) \subseteq S, Sequence(t), ToSet(t) \subseteq S
    PROVE  Sequence(s \o t) /\ Len(s \o t) > 0 /\ ToSet(s \o t) \subseteq S
BY OfSequences, FromEither

(* A set of numbers has a least one, and Min is it.                        *)
LEMMA Minimum ==
    ASSUME NEW S, S \subseteq Nat, S # {}
    PROVE  Min(S) \in S
<1>1. PICK m \in S : \A k \in S : ~(<<k, m>> \in OpToRel(<, Nat))
  BY WFMin, NatLessThanWellFounded
<1>2. \A k \in S : m <= k
  <2>1. ASSUME NEW k \in S, k < m PROVE FALSE
    BY <1>1, <2>1 DEF OpToRel
  <2>2. QED
    BY <2>1
<1>3. QED
  BY <1>2 DEF Min

(***************************************************************************)
(* Claims and tokens.                                                      *)
(***************************************************************************)

(* The claims of a token are in order: nothing is wrong with them.         *)
InOrderClaims(c, b) ==
    /\ {"exp", "iss", "aud"} \cup ToSet(c.claims) \subseteq DOMAIN b
    /\ b.exp = "future"
    /\ "nbf" \in DOMAIN b => b.nbf # "future"
    /\ c.issuers # <<>> => b.iss \in ToSet(c.issuers)
    /\ b.aud = {Head(c.audiences)}

(* The first member of a list is on it.                                    *)
LEMMA Heads ==
    ASSUME NEW s \in Seq(STRING), s # <<>>
    PROVE  Head(s) \in ToSet(s) /\ Contains(s, Head(s))
<1>1. Len(s) \in Nat /\ Len(s) > 0 /\ DOMAIN s = 1..Len(s)
  BY EmptySeq, LenProperties
<1>2. 1 \in DOMAIN s /\ Head(s) = s[1]
  BY <1>1, HeadTailProperties
<1>3. QED
  BY <1>2 DEF ToSet, Contains

(* Contains is membership.                                                 *)
LEMMA Within ==
    ASSUME NEW s, NEW e PROVE Contains(s, e) <=> e \in ToSet(s)
BY DEF Contains, ToSet

(* The claims the probes start from are in order, ...                      *)
LEMMA BaselineInOrder ==
    ASSUME NEW c, NEW issuer, Described(c) PROVE InOrderClaims(c, BaselineClaims(c, issuer))
<1> DEFINE standard == Standard(c, issuer)
           b == BaselineClaims(c, issuer)
<1>1. /\ DOMAIN standard = {"iss", "aud", "sub", "iat", "nbf", "exp"}
      /\ standard["exp"] = "future" /\ standard["nbf"] = "past"
      /\ standard["iss"] = First(c.issuers, issuer) /\ standard["aud"] = {First(c.audiences, NoName)}
  BY DEF Standard
<1>2. /\ DOMAIN b = DOMAIN standard \cup ToSet(c.claims)
      /\ \A n \in DOMAIN standard : b[n] = standard[n]
  BY DEF BaselineClaims
<1>3. /\ First(c.audiences, NoName) = Head(c.audiences)
      /\ c.issuers # <<>> => First(c.issuers, issuer) \in ToSet(c.issuers)
  BY Heads DEF First, Described
<1> HIDE DEF standard, b
<1>4. QED
  BY <1>1, <1>2, <1>3 DEF InOrderClaims, b

(* ... and so are those of the corpus, as long as no claim that a check    *)
(* looks at is also a required one (generators.go:35).                     *)
LEMMA CorpusInOrder ==
    ASSUME NEW c, NEW issuer, Described(c) PROVE InOrderClaims(c, CorpusClaims(c, issuer))
<1> DEFINE standard == Standard(c, issuer)
           b == CorpusClaims(c, issuer)
<1>1. /\ DOMAIN standard = {"iss", "aud", "sub", "iat", "nbf", "exp"}
      /\ standard["exp"] = "future" /\ standard["nbf"] = "past"
      /\ standard["iss"] = First(c.issuers, issuer) /\ standard["aud"] = {First(c.audiences, NoName)}
  BY DEF Standard
<1>2. /\ DOMAIN b = DOMAIN standard \cup ToSet(c.claims)
      /\ \A n \in DOMAIN standard \ ToSet(c.claims) : b[n] = standard[n]
      /\ "nbf" \in ToSet(c.claims) => b["nbf"] = "read"
  BY <1>1 DEF CorpusClaims, Given
<1>3. /\ First(c.audiences, NoName) = Head(c.audiences)
      /\ c.issuers # <<>> => First(c.issuers, issuer) \in ToSet(c.issuers)
  BY Heads DEF First, Described
<1> HIDE DEF standard, b
<1>4. QED
  BY <1>1, <1>2, <1>3 DEF InOrderClaims, b, Described

(* A check is failed by the claims with its defect, and by no others. *)
LEMMA ClaimsAre ==
    ASSUME NEW c, NEW b, NEW checks, Described(c), InOrderClaims(c, b)
    PROVE  /\ ValidClaims(checks, c, b)
           /\ ValidClaims(checks, c, With(b, "exp", "past")) <=> "expiry" \notin checks
           /\ ValidClaims(checks, c, With(b, "nbf", "future")) <=> "notBefore" \notin checks
           /\ \A i : i \notin ToSet(c.issuers) =>
                 (ValidClaims(checks, c, With(b, "iss", i)) <=> "issuer" \notin checks \/ c.issuers = <<>>)
           /\ \A A : A \cap ToSet(c.audiences) = {} =>
                 (ValidClaims(checks, c, With(b, "aud", A)) <=> "audience" \notin checks)
           /\ \A r \in ToSet(c.claims) : ValidClaims(checks, c, Without(b, r)) <=> "claims" \notin checks
           /\ ValidClaims(checks, c, Without(b, "exp")) <=> "expiry" \notin checks
           /\ ValidClaims(checks, c, Without(b, "aud")) <=> "audience" \notin checks
<1>1. /\ {"exp", "iss", "aud"} \subseteq DOMAIN b /\ \A r \in ToSet(c.claims) : r \in DOMAIN b
      /\ b["exp"] = "future" /\ ("nbf" \in DOMAIN b => b["nbf"] # "future")
      /\ c.issuers # <<>> => b["iss"] \in ToSet(c.issuers)
      /\ b["aud"] \cap ToSet(c.audiences) # {}
  BY Heads DEF InOrderClaims, Described
<1>2. /\ c.audiences # <<>>
      /\ "exp" \notin ToSet(c.claims) /\ "iss" \notin ToSet(c.claims) /\ "aud" \notin ToSet(c.claims)
  BY DEF Described
<1>5. \A m : ValidClaims(checks, c, m) <=>
         /\ "expiry" \in checks => "exp" \in DOMAIN m /\ m["exp"] = "future"
         /\ "notBefore" \in checks /\ "nbf" \in DOMAIN m => m["nbf"] # "future"
         /\ "issuer" \in checks /\ c.issuers # <<>> => "iss" \in DOMAIN m /\ m["iss"] \in ToSet(c.issuers)
         /\ "audience" \in checks => "aud" \in DOMAIN m /\ m["aud"] \cap ToSet(c.audiences) # {}
         /\ "claims" \in checks => \A r \in ToSet(c.claims) : r \in DOMAIN m
  BY <1>2, Within DEF ValidClaims
<1>6. ValidClaims(checks, c, b)
  BY <1>1, <1>5
<1>7. ValidClaims(checks, c, With(b, "exp", "past")) <=> "expiry" \notin checks
  <2> DEFINE m == With(b, "exp", "past")
  <2>1. DOMAIN m = DOMAIN b \cup {"exp"} /\ m["exp"] = "past" /\ \A n \in DOMAIN b : n # "exp" => m[n] = b[n]
    BY DEF With
  <2> HIDE DEF m
  <2>2. ValidClaims(checks, c, m) <=> "expiry" \notin checks
    BY <1>1, <1>5, <2>1
  <2>3. QED
    BY <2>2 DEF m
<1>8. ValidClaims(checks, c, With(b, "nbf", "future")) <=> "notBefore" \notin checks
  <2> DEFINE m == With(b, "nbf", "future")
  <2>1. DOMAIN m = DOMAIN b \cup {"nbf"} /\ m["nbf"] = "future" /\ \A n \in DOMAIN b : n # "nbf" => m[n] = b[n]
    BY DEF With
  <2> HIDE DEF m
  <2>2. ValidClaims(checks, c, m) <=> "notBefore" \notin checks
    BY <1>1, <1>5, <2>1
  <2>3. QED
    BY <2>2 DEF m
<1>9. ASSUME NEW i, i \notin ToSet(c.issuers)
      PROVE  ValidClaims(checks, c, With(b, "iss", i)) <=> "issuer" \notin checks \/ c.issuers = <<>>
  <2> DEFINE m == With(b, "iss", i)
  <2>1. DOMAIN m = DOMAIN b \cup {"iss"} /\ m["iss"] = i /\ \A n \in DOMAIN b : n # "iss" => m[n] = b[n]
    BY DEF With
  <2> HIDE DEF m
  <2>2. ValidClaims(checks, c, m) <=> "issuer" \notin checks \/ c.issuers = <<>>
    BY <1>1, <1>5, <1>9, <2>1
  <2>3. QED
    BY <2>2 DEF m
<1>10. ASSUME NEW A, A \cap ToSet(c.audiences) = {}
       PROVE  ValidClaims(checks, c, With(b, "aud", A)) <=> "audience" \notin checks
  <2> DEFINE m == With(b, "aud", A)
  <2>1. DOMAIN m = DOMAIN b \cup {"aud"} /\ m["aud"] = A /\ \A n \in DOMAIN b : n # "aud" => m[n] = b[n]
    BY DEF With
  <2> HIDE DEF m
  <2>2. ValidClaims(checks, c, m) <=> "audience" \notin checks
    BY <1>1, <1>5, <1>10, <2>1
  <2>3. QED
    BY <2>2 DEF m
<1>11. ASSUME NEW r \in ToSet(c.claims) \cup {"exp", "aud"}
       PROVE  /\ r \in ToSet(c.claims) => (ValidClaims(checks, c, Without(b, r)) <=> "claims" \notin checks)
              /\ r = "exp" => (ValidClaims(checks, c, Without(b, r)) <=> "expiry" \notin checks)
              /\ r = "aud" => (ValidClaims(checks, c, Without(b, r)) <=> "audience" \notin checks)
  <2> DEFINE m == Without(b, r)
  <2>1. DOMAIN m = DOMAIN b \ {r} /\ \A n \in DOMAIN b : n # r => m[n] = b[n]
    BY DEF Without
  <2> HIDE DEF m
  <2>2. ASSUME r \in ToSet(c.claims) PROVE ValidClaims(checks, c, m) <=> "claims" \notin checks
    <3>1. r # "exp" /\ r # "iss" /\ r # "aud" /\ "exp" \in DOMAIN m /\ "iss" \in DOMAIN m /\ "aud" \in DOMAIN m
      BY <1>1, <1>2, <2>1, <2>2
    <3>2. m["exp"] = b["exp"] /\ m["iss"] = b["iss"] /\ m["aud"] = b["aud"] /\ ("nbf" \in DOMAIN m => m["nbf"] = b["nbf"])
      BY <1>1, <2>1, <3>1
    <3>3. r \notin DOMAIN m /\ ("nbf" \in DOMAIN m => "nbf" \in DOMAIN b)
      BY <2>1
    <3>4. QED
      BY <1>1, <1>5, <2>2, <3>1, <3>2, <3>3
  <2>3. ASSUME r = "exp" PROVE ValidClaims(checks, c, m) <=> "expiry" \notin checks
    BY <1>1, <1>2, <1>5, <2>1, <2>3
  <2>4. ASSUME r = "aud" PROVE ValidClaims(checks, c, m) <=> "audience" \notin checks
    BY <1>1, <1>2, <1>5, <2>1, <2>4
  <2>5. QED
    BY <2>2, <2>3, <2>4 DEF m
<1>12. QED
  BY <1>6, <1>7, <1>8, <1>9, <1>10, <1>11

(* The audience of another is none of its own. *)
LEMMA SiblingIsForeign ==
    ASSUME NEW c, NEW all, \E S : all \in Seq(S), \A i \in DOMAIN all : all[i].audiences \in Seq(STRING),
           SiblingAudience(c, all) # NoName
    PROVE  SiblingAudience(c, all) \notin ToSet(c.audiences)
<1> DEFINE taken == ToSet(c.audiences) \cup {NoName}
           free(i) == {j \in DOMAIN all[i].audiences : all[i].audiences[j] \notin taken}
           others  == {i \in DOMAIN all : all[i].id # c.id /\ free(i) # {}}
           first   == Min(others)
<1>1. SiblingAudience(c, all) = IF others = {} THEN NoName ELSE all[first].audiences[Min(free(first))]
  BY DEF SiblingAudience, FirstAudience
<1>2. others # {}
  BY <1>1
<1>3. DOMAIN all \subseteq Nat /\ \A i \in DOMAIN all : DOMAIN all[i].audiences \subseteq Nat
  BY LenProperties
<1>4. first \in others
  BY <1>2, <1>3, Minimum
<1>5. Min(free(first)) \in free(first)
  BY <1>3, <1>4, Minimum
<1>6. QED
  BY <1>1, <1>2, <1>5

(* A token of another shape than the usual three segments.                 *)
Reshape(token, shape) == [token EXCEPT !.shape = shape]

(* Who takes a token of which only the header, the signature or the shape  *)
(* is wrong.                                                               *)
LEMMA ForgeriesAre ==
    ASSUME NEW checks, NEW trusts, NEW c, NEW m, trusts \cap Markers = {}, ValidClaims(checks, c, m)
    PROVE  /\ Verify(checks, trusts, c, Forged("none", "kid", "empty", m)) <=>
                 "algorithm" \notin checks /\ "none" \notin checks /\ "spellings" \notin checks
           /\ \A alg \in ToSet(Spellings) :
                 Verify(checks, trusts, c, Forged(alg, "kid", "empty", m)) <=>
                     "algorithm" \notin checks /\ "spellings" \notin checks
           /\ Verify(checks, trusts, c, Forged("ES256", "kid", "zeros", m)) <=>
                 "algorithm" \notin checks /\ ("zeros" \notin checks \/ "signature" \notin checks)
           /\ Verify(checks, trusts, c, Forged("HS256", "kid", "publicPEM", m)) <=>
                 "algorithm" \notin checks /\ ("keyType" \notin checks \/ "signature" \notin checks)
           /\ Verify(checks, trusts, c, Forged("HS256", "path", "emptySecret", m)) <=>
                 "algorithm" \notin checks /\ ("keyPath" \notin checks \/ "signature" \notin checks)
           /\ \A kid : Verify(checks, trusts, c, TamperSignature(Signed(kid, m))) <=> "signature" \notin checks
           /\ Verify(checks, trusts, c, Forged("RS256", "kid", "empty", m)) <=> "signature" \notin checks
           /\ Verify(checks, trusts, c, Forged("RS256", "jwk", "attacker", m)) <=>
                 "embeddedKey" \notin checks \/ "signature" \notin checks
           /\ \A key \in {"jku", "x5u"} :
                 Verify(checks, trusts, c, Forged("RS256", key, "attacker", m)) <=> "signature" \notin checks
           /\ \A kid : Verify(checks, trusts, c, Signed(kid, m)) <=> kid \in trusts \/ "signature" \notin checks
           /\ \A kid \in trusts :
                 Verify(checks, trusts, c, Reshape(Signed(kid, m), "fourSegments")) <=> "segments" \notin checks
           /\ \A kid \in trusts :
                 Verify(checks, trusts, c, Reshape(Signed(kid, m), "padded")) <=>
                     "padding" \notin checks /\ ("rawInput" \notin checks \/ "signature" \notin checks)
<1>1. ToSet(Spellings) = {"None", "NONE", "nOnE", "noneBlank"}
  BY DEF ToSet, Spellings
<1>2. \A shape, alg, key, signature : \A tok :
         tok = [shape |-> shape, alg |-> alg, key |-> key, signature |-> signature, claims |-> m] =>
             (Verify(checks, trusts, c, tok) <=>
                 /\ "segments" \in checks => shape # "fourSegments"
                 /\ "padding" \in checks => shape # "padded"
                 /\ "algorithm" \in checks => alg = "RS256"
                 /\ "none" \in checks => alg # "none"
                 /\ "spellings" \in checks => alg \notin {"none", "None", "NONE", "nOnE", "noneBlank"}
                 /\ "signature" \in checks =>
                        /\ "rawInput" \in checks => shape # "padded"
                        /\ \/ alg = "RS256" /\ signature \in trusts
                           \/ alg = "RS256" /\ signature = "attacker" /\ "embeddedKey" \notin checks /\ key = "jwk"
                           \/ alg = "HS256" /\ signature = "publicPEM" /\ "keyType" \notin checks
                           \/ alg = "HS256" /\ signature = "emptySecret" /\ key = "path" /\ "keyPath" \notin checks
                           \/ alg = "ES256" /\ signature = "zeros" /\ "zeros" \notin checks
                           \/ alg \notin {"RS256", "HS256", "ES256"})
  <2>1. ASSUME NEW shape, NEW alg, NEW key, NEW signature, NEW tok,
               tok = [shape |-> shape, alg |-> alg, key |-> key, signature |-> signature, claims |-> m]
        PROVE  /\ tok # NoToken
               /\ signature \in KeysFor(checks, trusts, tok) <=>
                     \/ signature \in trusts
                     \/ signature = "attacker" /\ "embeddedKey" \notin checks /\ key = "jwk"
    BY <2>1 DEF NoToken, KeysFor, Hosted
  <2>2. QED
    BY <1>1, <2>1 DEF Verify, AllowedAlgorithm, ValidSignature
<1>3. /\ \A kid : Signed(kid, m) = [shape |-> "jws", alg |-> "RS256", key |-> "kid", signature |-> kid, claims |-> m]
      /\ \A kid : TamperSignature(Signed(kid, m)) =
                    [shape |-> "jws", alg |-> "RS256", key |-> "kid", signature |-> "tampered", claims |-> m]
      /\ \A kid, shape : Reshape(Signed(kid, m), shape) =
                    [shape |-> shape, alg |-> "RS256", key |-> "kid", signature |-> kid, claims |-> m]
      /\ \A alg, key, signature : Forged(alg, key, signature, m) =
                    [shape |-> "jws", alg |-> alg, key |-> key, signature |-> signature, claims |-> m]
  BY DEF Signed, Forged, TamperSignature, Reshape
<1>4. "tampered" \notin trusts /\ "empty" \notin trusts /\ "attacker" \notin trusts
  BY DEF Markers
<1> DEFINE takes(shape, alg, key, signature) ==
               Verify(checks, trusts, c,
                      [shape |-> shape, alg |-> alg, key |-> key, signature |-> signature, claims |-> m])
<1>5. /\ takes("jws", "none", "kid", "empty") <=>
             "algorithm" \notin checks /\ "none" \notin checks /\ "spellings" \notin checks
      /\ \A alg \in ToSet(Spellings) :
             takes("jws", alg, "kid", "empty") <=> "algorithm" \notin checks /\ "spellings" \notin checks
  BY <1>1, <1>2
<1>6. /\ takes("jws", "ES256", "kid", "zeros") <=>
             "algorithm" \notin checks /\ ("zeros" \notin checks \/ "signature" \notin checks)
      /\ takes("jws", "HS256", "kid", "publicPEM") <=>
             "algorithm" \notin checks /\ ("keyType" \notin checks \/ "signature" \notin checks)
      /\ takes("jws", "HS256", "path", "emptySecret") <=>
             "algorithm" \notin checks /\ ("keyPath" \notin checks \/ "signature" \notin checks)
  BY <1>2
<1>7. /\ takes("jws", "RS256", "kid", "tampered") <=> "signature" \notin checks
      /\ takes("jws", "RS256", "kid", "empty") <=> "signature" \notin checks
      /\ takes("jws", "RS256", "jwk", "attacker") <=> "embeddedKey" \notin checks \/ "signature" \notin checks
      /\ \A key \in {"jku", "x5u"} : takes("jws", "RS256", key, "attacker") <=> "signature" \notin checks
  BY <1>2, <1>4
<1>8. \A kid : takes("jws", "RS256", "kid", kid) <=> kid \in trusts \/ "signature" \notin checks
  BY <1>2
<1>9. /\ \A kid \in trusts : takes("fourSegments", "RS256", "kid", kid) <=> "segments" \notin checks
      /\ \A kid \in trusts : takes("padded", "RS256", "kid", kid) <=>
             "padding" \notin checks /\ ("rawInput" \notin checks \/ "signature" \notin checks)
  BY <1>2
<1> HIDE DEF takes
<1>10. /\ \A alg, key, signature : Verify(checks, trusts, c, Forged(alg, key, signature, m)) <=> takes("jws", alg, key, signature)
       /\ \A kid : Verify(checks, trusts, c, Signed(kid, m)) <=> takes("jws", "RS256", "kid", kid)
       /\ \A kid : Verify(checks, trusts, c, TamperSignature(Signed(kid, m))) <=> takes("jws", "RS256", "kid", "tampered")
       /\ \A kid, shape : Verify(checks, trusts, c, Reshape(Signed(kid, m), shape)) <=> takes(shape, "RS256", "kid", kid)
  <2>1. \A t, u : t = u => (Verify(checks, trusts, c, t) <=> Verify(checks, trusts, c, u))
    OBVIOUS
  <2>2. QED
    BY <1>3, <2>1 DEF takes
<1>11. QED
  BY <1>5, <1>6, <1>7, <1>8, <1>9, <1>10

(* A token a trusted key signed is judged by its claims alone.             *)
LEMMA SignedAre ==
    ASSUME NEW checks, NEW trusts, NEW c, NEW m, NEW kid, kid \in trusts, trusts \cap Markers = {}
    PROVE  Verify(checks, trusts, c, Signed(kid, m)) <=> ValidClaims(checks, c, m)
BY DEF Verify, ValidSignature, AllowedAlgorithm, KeysFor, Hosted, Spellings, ToSet, Signed, NoToken, Markers

(* A request without a token is let in by those that do not ask for one.   *)
LEMMA UnsignedAre ==
    ASSUME NEW checks, NEW trusts, NEW c
    PROVE  Verify(checks, trusts, c, NoToken) <=> "bearer" \notin checks
BY DEF Verify

(***************************************************************************)
(* What is sent, and that it is exact.                                     *)
(***************************************************************************)

(* A token is refused when, and only when, the check it is about is there. *)
Exact(id, a) ==
    /\ a.expect \in {"accept", "reject"}
    /\ Verify(Performs[id], Trusts[id], Of(id), a.token) <=> (a.expect = "accept" <=> ~Lacks(id, a.check))

(* The checks that a request reveals the lack of by themselves.            *)
Plain == {"segments", "signature", "expiry", "notBefore", "issuer", "audience", "claims", "bearer"}

(* What it is to lack a check, check by check.                             *)
LEMMA LacksAre ==
    ASSUME NEW id
    PROVE  /\ \A check \in Plain : Lacks(id, check) <=> check \notin Performs[id]
           /\ Lacks(id, "none") <=> /\ "algorithm" \notin Performs[id] /\ "none" \notin Performs[id]
                                   /\ "spellings" \notin Performs[id]
           /\ Lacks(id, "spellings") <=> "algorithm" \notin Performs[id] /\ "spellings" \notin Performs[id]
           /\ \A check \in {"keyType", "zeros", "keyPath"} :
                 Lacks(id, check) <=> "algorithm" \notin Performs[id] /\
                                          (check \notin Performs[id] \/ "signature" \notin Performs[id])
           /\ Lacks(id, "embeddedKey") <=> "embeddedKey" \notin Performs[id] \/ "signature" \notin Performs[id]
           /\ Lacks(id, "keyURL") <=> "signature" \notin Performs[id]
           /\ Lacks(id, "padding") <=> "padding" \notin Performs[id] /\
                                          ("rawInput" \notin Performs[id] \/ "signature" \notin Performs[id])
           /\ Lacks(id, "retired") <=> ResolveKey(Keys, "retired") \in Trusts[id] \/ "signature" \notin Performs[id]
           /\ Lacks(id, "pickup") <=> ResolveKey(Keys, "announced") \notin Trusts[id] /\ "signature" \in Performs[id]
           /\ ~Lacks(id, "nothing")
<1> DEFINE P == Performs[id]
<1>1. \A check : check \notin {"retired", "pickup", "nothing"} =>
          (Lacks(id, check) <=> \E missing \in Openings(check) : missing \cap P = {})
  BY DEF Lacks
<1>2. /\ \A check \in Plain : Openings(check) = {{check}}
      /\ Openings("none") = {{"algorithm", "none", "spellings"}}
      /\ Openings("spellings") = {{"algorithm", "spellings"}}
      /\ \A check \in {"keyType", "zeros", "keyPath"} : Openings(check) = {{"algorithm", check}, {"algorithm", "signature"}}
      /\ Openings("embeddedKey") = {{"embeddedKey"}, {"signature"}}
      /\ Openings("keyURL") = {{"signature"}}
      /\ Openings("padding") = {{"padding", "rawInput"}, {"padding", "signature"}}
  BY DEF Openings, Plain
<1>3. /\ Lacks(id, "retired") <=> ResolveKey(Keys, "retired") \in Trusts[id] \/ "signature" \notin P
      /\ Lacks(id, "pickup") <=> ResolveKey(Keys, "announced") \notin Trusts[id] /\ "signature" \in P
      /\ ~Lacks(id, "nothing")
  BY DEF Lacks
<1> HIDE DEF P
<1>4. /\ \A x : {x} \cap P = {} <=> x \notin P
      /\ \A x, y : {x, y} \cap P = {} <=> x \notin P /\ y \notin P
      /\ \A x, y, z : {x, y, z} \cap P = {} <=> x \notin P /\ y \notin P /\ z \notin P
  OBVIOUS
<1>5. \A check, S, T : check \notin {"retired", "pickup", "nothing"} /\ Openings(check) = {S, T} =>
                          (Lacks(id, check) <=> S \cap P = {} \/ T \cap P = {})
  <2>1. ASSUME NEW check, NEW S, NEW T, check \notin {"retired", "pickup", "nothing"}, Openings(check) = {S, T}
        PROVE  Lacks(id, check) <=> S \cap P = {} \/ T \cap P = {}
    <3>1. Lacks(id, check) <=> \E missing \in {S, T} : missing \cap P = {}
      BY <1>1, <2>1
    <3>2. QED
      BY <3>1, Zenon
  <2>2. QED
    BY <2>1
<1>6. \A check \in Plain : Lacks(id, check) <=> check \notin P
  <2>1. ASSUME NEW check \in Plain PROVE Lacks(id, check) <=> check \notin P
    <3>1. Openings(check) = {{check}, {check}} /\ check \notin {"retired", "pickup", "nothing"}
      BY <1>2 DEF Plain
    <3>2. Lacks(id, check) <=> {check} \cap P = {} \/ {check} \cap P = {}
      BY <1>5, <3>1, Zenon
    <3>3. QED
      BY <1>4, <3>2, Zenon
  <2>2. QED
    BY <2>1
<1>7. Lacks(id, "none") <=> "algorithm" \notin P /\ "none" \notin P /\ "spellings" \notin P
  <2> DEFINE S == {"algorithm", "none", "spellings"}
  <2>1. Openings("none") = {S, S} /\ "none" \notin {"retired", "pickup", "nothing"}
    BY <1>2
  <2> HIDE DEF S
  <2>2. Lacks(id, "none") <=> S \cap P = {} \/ S \cap P = {}
    BY <1>5, <2>1, Zenon
  <2>3. S \cap P = {} <=> "algorithm" \notin P /\ "none" \notin P /\ "spellings" \notin P
    BY <1>4 DEF S
  <2>4. QED
    BY <2>2, <2>3, Zenon
<1>8. Lacks(id, "spellings") <=> "algorithm" \notin P /\ "spellings" \notin P
  <2> DEFINE S == {"algorithm", "spellings"}
  <2>1. Openings("spellings") = {S, S} /\ "spellings" \notin {"retired", "pickup", "nothing"}
    BY <1>2
  <2>2. Lacks(id, "spellings") <=> S \cap P = {} \/ S \cap P = {}
    BY <1>5, <2>1, Zenon
  <2>3. QED
    BY <1>4, <2>2, Zenon
<1>9. \A check \in {"keyType", "zeros", "keyPath"} :
         Lacks(id, check) <=> "algorithm" \notin P /\ (check \notin P \/ "signature" \notin P)
  <2>1. ASSUME NEW check \in {"keyType", "zeros", "keyPath"}
        PROVE  Lacks(id, check) <=> "algorithm" \notin P /\ (check \notin P \/ "signature" \notin P)
    <3> DEFINE S == {"algorithm", check}
               T == {"algorithm", "signature"}
    <3>1. Openings(check) = {S, T} /\ check \notin {"retired", "pickup", "nothing"}
      BY <1>2
    <3> HIDE DEF S, T
    <3>2. Lacks(id, check) <=> S \cap P = {} \/ T \cap P = {}
      BY <1>5, <3>1, Zenon
    <3>3. /\ S \cap P = {} <=> "algorithm" \notin P /\ check \notin P
          /\ T \cap P = {} <=> "algorithm" \notin P /\ "signature" \notin P
      BY <1>4 DEF S, T
    <3>4. QED
      BY <3>2, <3>3, Zenon
  <2>2. QED
    BY <2>1
<1>10. Lacks(id, "embeddedKey") <=> "embeddedKey" \notin P \/ "signature" \notin P
  <2>1. Openings("embeddedKey") = {{"embeddedKey"}, {"signature"}} /\ "embeddedKey" \notin {"retired", "pickup", "nothing"}
    BY <1>2
  <2>2. Lacks(id, "embeddedKey") <=> {"embeddedKey"} \cap P = {} \/ {"signature"} \cap P = {}
    BY <1>5, <2>1, Zenon
  <2>3. QED
    BY <1>4, <2>2, Zenon
<1>11. Lacks(id, "keyURL") <=> "signature" \notin P
  <2>1. Openings("keyURL") = {{"signature"}, {"signature"}} /\ "keyURL" \notin {"retired", "pickup", "nothing"}
    BY <1>2
  <2>2. Lacks(id, "keyURL") <=> {"signature"} \cap P = {} \/ {"signature"} \cap P = {}
    BY <1>5, <2>1, Zenon
  <2>3. QED
    BY <1>4, <2>2, Zenon
<1>12. Lacks(id, "padding") <=> "padding" \notin P /\ ("rawInput" \notin P \/ "signature" \notin P)
  <2> DEFINE S == {"padding", "rawInput"}
             T == {"padding", "signature"}
  <2>1. Openings("padding") = {S, T} /\ "padding" \notin {"retired", "pickup", "nothing"}
    BY <1>2
  <2>2. Lacks(id, "padding") <=> S \cap P = {} \/ T \cap P = {}
    BY <1>5, <2>1, Zenon
  <2>3. /\ S \cap P = {} <=> "padding" \notin P /\ "rawInput" \notin P
        /\ T \cap P = {} <=> "padding" \notin P /\ "signature" \notin P
    BY <1>4, Zenon
  <2>4. QED
    BY <2>2, <2>3, Zenon
<1>13. QED
  BY <1>3, <1>6, <1>7, <1>8, <1>9, <1>10, <1>11, <1>12 DEF P

(* What the probes send, in no order: what every consumer is sent, ...      *)
Always(b, active) ==
    LET mint(m) == Signed(active, m) IN
    {Send("valid_token", "nothing", mint(b), "accept"),
     Send("expired", "expiry", mint(With(b, "exp", "past")), "reject"),
     Send("not_yet_valid", "notBefore", mint(With(b, "nbf", "future")), "reject"),
     Send("wrong_issuer", "issuer", mint(With(b, "iss", "invalid")), "reject"),
     Send("wrong_audience", "audience", mint(With(b, "aud", {"invalid"})), "reject"),
     Send("alg_none", "none", Forged("none", "kid", "empty", b), "reject"),
     Send("alg_confusion", "keyType", Forged("HS256", "kid", "publicPEM", b), "reject"),
     Send("tampered_signature", "signature", TamperSignature(mint(b)), "reject"),
     Send("header_bypass", "bearer", NoToken, "reject")}

(* ... and what is there to send: claims, another audience, other keys.     *)
Sometimes(b, active, claims, sibling, retired, announced) ==
    LET mint(m) == Signed(active, m) IN
    {Send("missing_required_claim", "claims", mint(Without(b, r)), "reject") : r \in claims}
    \cup {Send("sibling_client_token", "audience", mint(With(b, "aud", {s})), "reject") : s \in {sibling} \ {NoName}}
    \cup {Send("retired_key", "retired", Signed(k, b), "reject") : k \in {retired} \ {NoKey}}
    \cup {Send("canary_key", "pickup", Signed(k, b), "accept") : k \in {announced} \ {NoKey}}

(* The corpus: the control and what is wrong with signatures and headers,   *)
Forgeries(b, active) ==
    LET trusted(m) == Signed(active, m)
        reject(id, check, token) == Send(id, check, token, "reject")
    IN  {reject("ALG-03", "spellings", Forged(alg, "kid", "empty", b)) : alg \in ToSet(Spellings)} \cup
        {Send("CONTROL", "nothing", trusted(b), "accept"),
         reject("SIG-01", "none", Forged("none", "kid", "empty", b)),
         reject("SIG-03", "signature", Forged("RS256", "kid", "empty", b)),
         reject("SIG-02", "signature", TamperSignature(trusted(b))),
         reject("ALG-01", "keyType", Forged("HS256", "kid", "publicPEM", b)),
         reject("ALG-04", "zeros", Forged("ES256", "kid", "zeros", b)),
         reject("HDR-03", "embeddedKey", Forged("RS256", "jwk", "attacker", b)),
         reject("HDR-01", "keyURL", Forged("RS256", "jku", "attacker", b)),
         reject("HDR-02", "keyURL", Forged("RS256", "x5u", "attacker", b)),
         reject("HDR-05", "keyPath", Forged("HS256", "path", "emptySecret", b))}

(* ... and with the claims and the shape of tokens rightly signed.          *)
Misused(b, active) ==
    LET trusted(m) == Signed(active, m)
        reject(id, check, token) == Send(id, check, token, "reject")
    IN  {reject("CLM-01", "expiry", trusted(With(b, "exp", "past"))),
         reject("CLM-02", "notBefore", trusted(With(b, "nbf", "future"))),
         reject("CLM-03", "issuer", trusted(With(b, "iss", "evil"))),
         reject("CLM-04", "audience", trusted(With(b, "aud", {"other"}))),
         reject("CLM-06", "audience", trusted(With(b, "aud", {"other", "another"}))),
         reject("CLM-08", "expiry", trusted(Without(b, "exp"))),
         reject("ENC-01", "segments", Reshape(trusted(b), "fourSegments")),
         reject("ENC-02", "padding", Reshape(trusted(b), "padded")),
         reject("MCP-01", "audience", trusted(With(b, "aud", {"passthrough"}))),
         reject("MCP-02", "audience", trusted(Without(b, "aud"))),
         reject("DEL-02", "audience", trusted(With(b, "aud", {"sibling"})))}

(* A consumer is found by its id.                                          *)
LEMMA IdsAre ==
    ASSUME NEW id \in Ids
    PROVE  Of(id) \in ToSet(Consumers) /\ Of(id).id = id /\ Of(id).claims \in Seq(STRING)
           /\ \E i \in DOMAIN Consumers : Of(id) = Consumers[i]
<1>1. \E c \in ToSet(Consumers) : c.id = id
  BY DEF Ids, ToSet
<1>2. Of(id) \in ToSet(Consumers) /\ Of(id).id = id
  BY <1>1 DEF Of
<1>3. QED
  BY <1>2, ProbeAssumption DEF ToSet

(* Every consumer of the version is one that is found by its id.           *)
LEMMA AllDescribed ==
    ASSUME WellDescribed
    PROVE  \A i \in DOMAIN Consumers : Consumers[i].audiences \in Seq(STRING)
<1>1. ASSUME NEW i \in DOMAIN Consumers PROVE Consumers[i].audiences \in Seq(STRING)
  <2>1. Consumers[i].id \in Ids
    BY DEF Ids
  <2>2. PICK j \in DOMAIN Consumers : Of(Consumers[i].id) = Consumers[j] /\ Consumers[j].id = Consumers[i].id
    BY <2>1, IdsAre
  <2>3. i = j
    BY <2>2, ProbeAssumption
  <2>4. QED
    BY <2>1, <2>2, <2>3 DEF WellDescribed, Described
<1>2. QED
  BY <1>1

(* One token at a time, of the probes and of the corpus.                   *)
LEMMA TokensAreExact ==
    ASSUME WellDescribed, NEW id \in Ids \ Down, Probeable(Of(id)), NEW b, InOrderClaims(Of(id), b), NEW a,
           a \in Always(b, ResolveKey(Keys, "active"))
                  \cup Sometimes(b, ResolveKey(Keys, "active"), ToSet(Of(id).claims), SiblingAudience(Of(id), Consumers),
                                 ResolveKey(Keys, "retired"), ResolveKey(Keys, "announced"))
                  \cup Forgeries(b, ResolveKey(Keys, "active")) \cup Misused(b, ResolveKey(Keys, "active"))
    PROVE  Exact(id, a)
<1> DEFINE c         == Of(id)
           active    == ResolveKey(Keys, "active")
           mint(m)   == Signed(active, m)
           retired   == ResolveKey(Keys, "retired")
           announced == ResolveKey(Keys, "announced")
           sibling   == SiblingAudience(c, Consumers)
           checks    == Performs[id]
           trusts    == Trusts[id]
           passes(t) == Verify(checks, trusts, c, t)
<1>1. Described(c) /\ InOrderClaims(c, b)
  BY DEF WellDescribed
<1>2. /\ active \in trusts /\ trusts \cap Markers = {}
      /\ "issuer" \in checks => c.issuers # <<>>
      /\ \A i \in {"invalid", "evil"} : i \notin ToSet(c.issuers)
      /\ \A n \in {"invalid", "other", "another", "passthrough", "sibling"} : n \notin ToSet(c.audiences)
  BY DEF WellDescribed
<1>3. sibling # NoName => {sibling} \cap ToSet(c.audiences) = {}
  <2>1. \E S : Consumers \in Seq(S)
    BY ProbeAssumption
  <2>2. QED
    BY <2>1, AllDescribed, SiblingIsForeign
<1> HIDE DEF c, active, retired, announced, sibling, checks, trusts, mint
<1>6. \A m : passes(mint(m)) <=> ValidClaims(checks, c, m)
  <2>1. ASSUME NEW m PROVE passes(mint(m)) <=> ValidClaims(checks, c, m)
    BY <1>2, SignedAre DEF mint
  <2>2. QED
    BY <2>1
<1>7. \A name, check, t : (passes(t) <=> Lacks(id, check)) => Exact(id, Send(name, check, t, "reject"))
  BY DEF Exact, Send, checks, trusts, c
<1>5. \A name, t : \A check \in Plain : (passes(t) <=> check \notin checks) => Exact(id, Send(name, check, t, "reject"))
  BY <1>7, LacksAre DEF checks
<1>8. \A name : Exact(id, Send(name, "nothing", mint(b), "accept"))
  <2>1. passes(mint(b))
    BY <1>1, <1>6, ClaimsAre
  <2>2. QED
    BY <2>1, LacksAre DEF Exact, Send, checks, trusts, c
<1>9. \A name : Exact(id, Send(name, "expiry", mint(With(b, "exp", "past")), "reject"))
  BY <1>1, <1>6, <1>5, ClaimsAre DEF Plain
<1>10. \A name : Exact(id, Send(name, "notBefore", mint(With(b, "nbf", "future")), "reject"))
  BY <1>1, <1>6, <1>5, ClaimsAre DEF Plain
<1>11. \A name : \A i \in {"invalid", "evil"} :
                      Exact(id, Send(name, "issuer", mint(With(b, "iss", i)), "reject"))
  <2>1. \A i \in {"invalid", "evil"} :
           ValidClaims(checks, c, With(b, "iss", i)) <=> "issuer" \notin checks \/ c.issuers = <<>>
    BY <1>1, <1>2, ClaimsAre
  <2>2. QED
    BY <1>2, <1>6, <1>5, <2>1 DEF Plain
<1>12. \A name, A : A \cap ToSet(c.audiences) = {} =>
                       Exact(id, Send(name, "audience", mint(With(b, "aud", A)), "reject"))
  <2>1. \A A : A \cap ToSet(c.audiences) = {} =>
                 (ValidClaims(checks, c, With(b, "aud", A)) <=> "audience" \notin checks)
    BY <1>1, ClaimsAre
  <2>2. QED
    BY <1>6, <1>5, <2>1 DEF Plain
<1>13. \A name : \A r \in ToSet(c.claims) : Exact(id, Send(name, "claims", mint(Without(b, r)), "reject"))
  <2>1. \A r \in ToSet(c.claims) : ValidClaims(checks, c, Without(b, r)) <=> "claims" \notin checks
    BY <1>1, ClaimsAre
  <2>2. QED
    BY <1>6, <1>5, <2>1 DEF Plain
<1>14. ValidClaims(checks, c, b)
  BY <1>1, ClaimsAre
<1>15. /\ \A name : Exact(id, Send(name, "signature", TamperSignature(mint(b)), "reject"))
       /\ \A name : Exact(id, Send(name, "signature", Forged("RS256", "kid", "empty", b), "reject"))
  <2>1. passes(TamperSignature(mint(b))) <=> "signature" \notin checks
    BY <1>2, <1>14, ForgeriesAre DEF mint
  <2>2. passes(Forged("RS256", "kid", "empty", b)) <=> "signature" \notin checks
    BY <1>2, <1>14, ForgeriesAre
  <2>3. QED
    BY <1>5, <2>1, <2>2 DEF Plain
<1>16. \A name : Exact(id, Send(name, "bearer", NoToken, "reject"))
  BY <1>5, UnsignedAre DEF Plain
<1>17. \A kid : passes(Signed(kid, b)) <=> kid \in trusts \/ "signature" \notin checks
  BY <1>2, <1>14, ForgeriesAre
<1>18. \A name, k : k = retired => Exact(id, Send(name, "retired", Signed(k, b), "reject"))
  <2>1. Lacks(id, "retired") <=> retired \in trusts \/ "signature" \notin checks
    BY LacksAre DEF trusts, retired, checks
  <2>2. QED
    BY <1>7, <1>17, <2>1
<1>19. \A name, k : k = announced => Exact(id, Send(name, "pickup", Signed(k, b), "accept"))
  <2>1. Lacks(id, "pickup") <=> announced \notin trusts /\ "signature" \in checks
    BY LacksAre DEF trusts, announced, checks
  <2>2. QED
    BY <1>17, <2>1 DEF Exact, Send, checks, trusts, c
<1>20. /\ \A name : Exact(id, Send(name, "none", Forged("none", "kid", "empty", b), "reject"))
       /\ \A name : \A alg \in ToSet(Spellings) :
             Exact(id, Send(name, "spellings", Forged(alg, "kid", "empty", b), "reject"))
  <2>1. passes(Forged("none", "kid", "empty", b)) <=> Lacks(id, "none")
    BY <1>2, <1>14, ForgeriesAre, LacksAre DEF checks
  <2>2. \A alg \in ToSet(Spellings) : passes(Forged(alg, "kid", "empty", b)) <=> Lacks(id, "spellings")
    BY <1>2, <1>14, ForgeriesAre, LacksAre DEF checks
  <2>3. QED
    BY <1>7, <2>1, <2>2
<1>21. /\ \A name : Exact(id, Send(name, "keyType", Forged("HS256", "kid", "publicPEM", b), "reject"))
       /\ \A name : Exact(id, Send(name, "zeros", Forged("ES256", "kid", "zeros", b), "reject"))
       /\ \A name : Exact(id, Send(name, "keyPath", Forged("HS256", "path", "emptySecret", b), "reject"))
  <2>1. passes(Forged("HS256", "kid", "publicPEM", b)) <=> Lacks(id, "keyType")
    BY <1>2, <1>14, ForgeriesAre, LacksAre DEF checks
  <2>2. passes(Forged("ES256", "kid", "zeros", b)) <=> Lacks(id, "zeros")
    BY <1>2, <1>14, ForgeriesAre, LacksAre DEF checks
  <2>3. passes(Forged("HS256", "path", "emptySecret", b)) <=> Lacks(id, "keyPath")
    BY <1>2, <1>14, ForgeriesAre, LacksAre DEF checks
  <2>4. QED
    BY <1>7, <2>1, <2>2, <2>3
<1>4. /\ \A name : Exact(id, Send(name, "embeddedKey", Forged("RS256", "jwk", "attacker", b), "reject"))
      /\ \A name : \A key \in {"jku", "x5u"} :
            Exact(id, Send(name, "keyURL", Forged("RS256", key, "attacker", b), "reject"))
  <2>1. passes(Forged("RS256", "jwk", "attacker", b)) <=> Lacks(id, "embeddedKey")
    BY <1>2, <1>14, ForgeriesAre, LacksAre DEF checks
  <2>2. \A key \in {"jku", "x5u"} : passes(Forged("RS256", key, "attacker", b)) <=> Lacks(id, "keyURL")
    BY <1>2, <1>14, ForgeriesAre, LacksAre DEF checks
  <2>3. QED
    BY <1>7, <2>1, <2>2
<1>22. /\ \A name : Exact(id, Send(name, "expiry", mint(Without(b, "exp")), "reject"))
       /\ \A name : Exact(id, Send(name, "audience", mint(Without(b, "aud")), "reject"))
  <2>1. ValidClaims(checks, c, Without(b, "exp")) <=> "expiry" \notin checks
    BY <1>1, ClaimsAre
  <2>2. ValidClaims(checks, c, Without(b, "aud")) <=> "audience" \notin checks
    BY <1>1, ClaimsAre
  <2>3. QED
    BY <1>6, <1>5, <2>1, <2>2 DEF Plain
<1>23. /\ \A name : Exact(id, Send(name, "segments", Reshape(mint(b), "fourSegments"), "reject"))
       /\ \A name : Exact(id, Send(name, "padding", Reshape(mint(b), "padded"), "reject"))
  <2>1. passes(Reshape(mint(b), "fourSegments")) <=> Lacks(id, "segments")
    BY <1>2, <1>14, ForgeriesAre, LacksAre DEF mint, checks, Plain
  <2>2. passes(Reshape(mint(b), "padded")) <=> Lacks(id, "padding")
    BY <1>2, <1>14, ForgeriesAre, LacksAre DEF mint, checks
  <2>3. QED
    BY <1>7, <2>1, <2>2
<1>24. \A A \in {{"invalid"}, {"other"}, {"other", "another"}, {"passthrough"}, {"sibling"}} : A \cap ToSet(c.audiences) = {}
  BY <1>2
<1>25. CASE a \in Always(b, active)
  BY <1>8, <1>9, <1>10, <1>11, <1>12, <1>15, <1>16, <1>20, <1>21, <1>24, <1>25 DEF Always, mint
<1>26. CASE a \in Sometimes(b, active, ToSet(c.claims), sibling, retired, announced)
  <2>1. \/ \E r \in ToSet(c.claims) : a = Send("missing_required_claim", "claims", mint(Without(b, r)), "reject")
        \/ \E s \in {sibling} \ {NoName} :
              a = Send("sibling_client_token", "audience", mint(With(b, "aud", {s})), "reject")
        \/ \E k \in {retired} \ {NoKey} : a = Send("retired_key", "retired", Signed(k, b), "reject")
        \/ \E k \in {announced} \ {NoKey} : a = Send("canary_key", "pickup", Signed(k, b), "accept")
    BY <1>26, Zenon DEF Sometimes, mint
  <2>2. QED
    BY <1>3, <1>12, <1>13, <1>18, <1>19, <2>1
<1>27. CASE a \in Forgeries(b, active)
  <2>1. \A name : /\ Exact(id, Send(name, "keyURL", Forged("RS256", "jku", "attacker", b), "reject"))
                  /\ Exact(id, Send(name, "keyURL", Forged("RS256", "x5u", "attacker", b), "reject"))
    BY <1>4
  <2>2. QED
    BY <1>4, <1>8, <1>15, <1>20, <1>21, <1>27, <2>1 DEF Forgeries, mint
<1>28. CASE a \in Misused(b, active)
  <2>1. \A name : \A A \in {{"other"}, {"other", "another"}, {"passthrough"}, {"sibling"}} :
                        Exact(id, Send(name, "audience", mint(With(b, "aud", A)), "reject"))
    BY <1>12, <1>24
  <2>2. \A name : /\ Exact(id, Send(name, "audience", mint(With(b, "aud", {"other"})), "reject"))
                  /\ Exact(id, Send(name, "audience", mint(With(b, "aud", {"other", "another"})), "reject"))
                  /\ Exact(id, Send(name, "audience", mint(With(b, "aud", {"passthrough"})), "reject"))
                  /\ Exact(id, Send(name, "audience", mint(With(b, "aud", {"sibling"})), "reject"))
    BY <2>1
  <2>3. \A name : Exact(id, Send(name, "issuer", mint(With(b, "iss", "evil")), "reject"))
    BY <1>11
  <2>4. QED
    BY <1>9, <1>10, <1>22, <1>23, <1>28, <2>2, <2>3 DEF Misused, mint
<1>29. QED
  BY <1>25, <1>26, <1>27, <1>28 DEF c, active, retired, announced, sibling

(* Every consumer is sent something, and nothing but the probes.           *)
LEMMA PlansAreLong ==
    ASSUME NEW c, NEW all, NEW keys, NEW issuer, NEW maxClaims, c.claims \in Seq(STRING), maxClaims \in Nat
    PROVE  LET b      == BaselineClaims(c, issuer)
               active == ResolveKey(keys, "active")
               plan   == ProbePlan(c, all, keys, issuer, maxClaims)
           IN  /\ Sequence(plan) /\ Len(plan) > 0
               /\ ToSet(plan) \subseteq
                     Always(b, active) \cup
                     Sometimes(b, active, ToSet(c.claims), SiblingAudience(c, all),
                               ResolveKey(keys, "retired"), ResolveKey(keys, "announced"))
<1> DEFINE b         == BaselineClaims(c, issuer)
           active    == ResolveKey(keys, "active")
           announced == ResolveKey(keys, "announced")
           retired   == ResolveKey(keys, "retired")
           sibling   == SiblingAudience(c, all)
           mint(m)   == Signed(active, m)
           omitted   == SubSeq(c.claims, 1, IF Len(c.claims) > maxClaims THEN maxClaims ELSE Len(c.claims))
           when(condition, probe) == IF condition THEN <<probe>> ELSE <<>>
           s1 == <<Send("valid_token", "nothing", mint(b), "accept"),
                   Send("expired", "expiry", mint(With(b, "exp", "past")), "reject"),
                   Send("not_yet_valid", "notBefore", mint(With(b, "nbf", "future")), "reject"),
                   Send("wrong_issuer", "issuer", mint(With(b, "iss", "invalid")), "reject"),
                   Send("wrong_audience", "audience", mint(With(b, "aud", {"invalid"})), "reject"),
                   Send("alg_none", "none", Forged("none", "kid", "empty", b), "reject")>>
           s2 == when(active # NoKey, Send("alg_confusion", "keyType", Forged("HS256", "kid", "publicPEM", b), "reject"))
           s3 == <<Send("tampered_signature", "signature", TamperSignature(mint(b)), "reject")>>
           s4 == [i \in DOMAIN omitted |->
                    Send("missing_required_claim", "claims", mint(Without(b, omitted[i])), "reject")]
           s5 == when(retired # NoKey, Send("retired_key", "retired", Signed(retired, b), "reject"))
           s6 == when(sibling # NoName, Send("sibling_client_token", "audience", mint(With(b, "aud", {sibling})), "reject"))
           s7 == <<Send("header_bypass", "bearer", NoToken, "reject")>>
           s8 == when(announced # NoKey, Send("canary_key", "pickup", Signed(announced, b), "accept"))
           sometimes == Sometimes(b, active, ToSet(c.claims), sibling, retired, announced)
           S == Always(b, active) \cup sometimes
<1>1. ProbePlan(c, all, keys, issuer, maxClaims)
         = s1 \o s2 \o s3 \o s4 \o s5 \o s6 \o s7 \o s8
  BY DEF ProbePlan
<1>2. \A condition, probe : Sequence(when(condition, probe))
  BY Tuples
<1>3. Sequence(s1) /\ Len(s1) > 0 /\ Sequence(s3) /\ Sequence(s7)
  BY Tuples
<1>4. Sequence(s4) /\ \A i \in DOMAIN omitted : omitted[i] \in ToSet(c.claims)
  <2> DEFINE e(i) == Send("missing_required_claim", "claims", mint(Without(b, omitted[i])), "reject")
             E == {e(i) : i \in DOMAIN omitted}
  <2>1. PICK n \in Int : n = (IF Len(c.claims) > maxClaims THEN maxClaims ELSE Len(c.claims))
    BY LenProperties
  <2>2. n <= Len(c.claims) /\ Len(c.claims) \in Nat
    BY <2>1, LenProperties
  <2>3. \A i \in 1..n : c.claims[i] \in STRING /\ c.claims[i] \in ToSet(c.claims)
    BY <2>2, ElementOfSeq, LenProperties DEF ToSet
  <2>4. SubSeq(c.claims, 1, n) \in Seq(STRING) /\ Len(SubSeq(c.claims, 1, n)) = (IF 1 <= n THEN n ELSE 0)
        /\ \A i \in 1..n : SubSeq(c.claims, 1, n)[i] = c.claims[i]
    BY <2>3, SubSeqProperties
  <2>5. DOMAIN omitted = 1..Len(omitted) /\ Len(omitted) \in Nat
    BY <2>1, <2>4, LenProperties
  <2>6. \A i \in DOMAIN omitted : omitted[i] \in ToSet(c.claims)
    <3>1. omitted = SubSeq(c.claims, 1, n)
      BY <2>1
    <3> HIDE DEF omitted
    <3>2. \A i \in DOMAIN omitted : i \in 1..n
      BY <2>1, <2>4, <2>5, <3>1
    <3>3. QED
      BY <2>3, <2>4, <3>1, <3>2
  <2> HIDE DEF omitted
  <2>7. s4 \in Seq(E)
    <3> HIDE DEF mint, b
    <3>1. QED
      BY <2>5
  <2>8. QED
    BY <2>6, <2>7 DEF Sequence
<1> HIDE DEF omitted, when, sometimes
<1>5. ToSet(s1) \subseteq S /\ ToSet(s3) \subseteq S /\ ToSet(s7) \subseteq S
  <2>1. /\ {s1[1], s1[2], s1[3], s1[4], s1[5], s1[6]} \subseteq S
        /\ Send("tampered_signature", "signature", TamperSignature(mint(b)), "reject") \in S
        /\ Send("header_bypass", "bearer", NoToken, "reject") \in S
    BY DEF Always
  <2>2. ToSet(s1) \subseteq S
    <3>1. DOMAIN s1 = 1..6
      OBVIOUS
    <3> HIDE DEF s1, S
    <3>2. QED
      BY <2>1, <3>1 DEF ToSet
  <2> HIDE DEF S
  <2>3. QED
    BY <2>1, <2>2, OfTuples
<1>6. ToSet(s2) \subseteq S
  BY OfTuples DEF Always, when
<1>7. ToSet(s4) \subseteq S
  <2>1. \A i \in DOMAIN omitted : Send("missing_required_claim", "claims", mint(Without(b, omitted[i])), "reject") \in sometimes
    BY <1>4 DEF sometimes, Sometimes
  <2>2. QED
    BY <2>1 DEF ToSet
<1>8. ToSet(s5) \subseteq S /\ ToSet(s6) \subseteq S /\ ToSet(s8) \subseteq S
  <2>1. retired # NoKey => Send("retired_key", "retired", Signed(retired, b), "reject") \in S
    BY DEF sometimes, Sometimes
  <2>2. announced # NoKey => Send("canary_key", "pickup", Signed(announced, b), "accept") \in S
    BY DEF sometimes, Sometimes
  <2>3. sibling # NoName => Send("sibling_client_token", "audience", mint(With(b, "aud", {sibling})), "reject") \in S
    BY DEF sometimes, Sometimes
  <2> HIDE DEF S, mint, b, retired, announced, sibling
  <2>4. \A condition, probe : (condition => probe \in S) => ToSet(when(condition, probe)) \subseteq S
    BY OfTuples DEF when
  <2>5. QED
    BY <2>1, <2>2, <2>3, <2>4
<1>9. Sequence(s2) /\ Sequence(s5) /\ Sequence(s6) /\ Sequence(s8)
  BY <1>2
<1> HIDE DEF s1, s2, s3, s4, s5, s6, s7, s8, S
<1>10. LET plan == s1 \o s2 \o s3 \o s4 \o s5 \o s6 \o s7 \o s8
       IN  Sequence(plan) /\ Len(plan) > 0 /\ ToSet(plan) \subseteq S
  BY <1>3, <1>4, <1>5, <1>6, <1>7, <1>8, <1>9, Longer
<1>11. QED
  BY <1>1, <1>10 DEF S, sometimes

(* The same of the corpus.                                                 *)
LEMMA CorporaAreLong ==
    ASSUME NEW c, NEW keys, NEW issuer
    PROVE  LET b      == CorpusClaims(c, issuer)
               active == ResolveKey(keys, "active")
               corpus == Corpus(c, keys, issuer)
           IN  /\ Sequence(corpus) /\ Len(corpus) > 0
               /\ ToSet(corpus) \subseteq Forgeries(b, active) \cup Misused(b, active)
<1> DEFINE b          == CorpusClaims(c, issuer)
           active     == ResolveKey(keys, "active")
           trusted(m) == Signed(active, m)
           reject(id, check, token) == Send(id, check, token, "reject")
           S  == Forgeries(b, active) \cup Misused(b, active)
           s1 == <<Send("CONTROL", "nothing", trusted(b), "accept"),
                   reject("SIG-01", "none", Forged("none", "kid", "empty", b)),
                   reject("SIG-03", "signature", Forged("RS256", "kid", "empty", b)),
                   reject("SIG-02", "signature", TamperSignature(trusted(b)))>>
           s2 == IF active = NoKey THEN <<>>
                 ELSE <<reject("ALG-01", "keyType", Forged("HS256", "kid", "publicPEM", b))>>
<1>1. Sequence(s1) /\ Len(s1) > 0 /\ Sequence(s2)
  BY Tuples
<1>2. ToSet(s1) \subseteq S
  <2>1. DOMAIN s1 = 1..4 /\ {s1[1], s1[2], s1[3], s1[4]} \subseteq S
    BY DEF Forgeries
  <2> HIDE DEF s1, S
  <2>2. QED
    BY <2>1 DEF ToSet
<1>3. ToSet(s2) \subseteq S
  <2>1. reject("ALG-01", "keyType", Forged("HS256", "kid", "publicPEM", b)) \in S
    BY DEF Forgeries
  <2> HIDE DEF S, reject
  <2>2. QED
    BY <2>1, OfTuples
<1>4. PICK s3 : Sequence(s3) /\ ToSet(s3) \subseteq S
                 /\ s3 = [i \in DOMAIN Spellings |-> reject("ALG-03", "spellings", Forged(Spellings[i], "kid", "empty", b))]
  <2> DEFINE e(i) == reject("ALG-03", "spellings", Forged(Spellings[i], "kid", "empty", b))
             s4   == [i \in DOMAIN Spellings |-> e(i)]
  <2>1. \A i \in DOMAIN Spellings : e(i) \in S
    BY DEF Forgeries, ToSet
  <2>2. DOMAIN Spellings = 1..4
    BY DEF Spellings
  <2> HIDE DEF e, S
  <2>3. s4 \in Seq({e(i) : i \in 1..4})
    BY <2>2
  <2>4. Sequence(s4)
    BY <2>3 DEF Sequence
  <2>5. ToSet(s4) \subseteq S
    BY <2>1 DEF ToSet
  <2>6. QED
    BY <2>4, <2>5 DEF e
<1>5. PICK s4 : Sequence(s4) /\ ToSet(s4) \subseteq S /\ Corpus(c, keys, issuer) = s1 \o s2 \o s3 \o s4
  <2> DEFINE s5 == <<reject("ALG-04", "zeros", Forged("ES256", "kid", "zeros", b)),
             reject("HDR-03", "embeddedKey", Forged("RS256", "jwk", "attacker", b)),
             reject("HDR-01", "keyURL", Forged("RS256", "jku", "attacker", b)),
             reject("HDR-02", "keyURL", Forged("RS256", "x5u", "attacker", b)),
             reject("HDR-05", "keyPath", Forged("HS256", "path", "emptySecret", b)),
             reject("CLM-01", "expiry", trusted(With(b, "exp", "past"))),
             reject("CLM-02", "notBefore", trusted(With(b, "nbf", "future"))),
             reject("CLM-03", "issuer", trusted(With(b, "iss", "evil"))),
             reject("CLM-04", "audience", trusted(With(b, "aud", {"other"}))),
             reject("CLM-06", "audience", trusted(With(b, "aud", {"other", "another"}))),
             reject("CLM-08", "expiry", trusted(Without(b, "exp"))),
             reject("ENC-01", "segments", Reshape(trusted(b), "fourSegments")),
             reject("ENC-02", "padding", Reshape(trusted(b), "padded")),
             reject("MCP-01", "audience", trusted(With(b, "aud", {"passthrough"}))),
             reject("MCP-02", "audience", trusted(Without(b, "aud"))),
             reject("DEL-02", "audience", trusted(With(b, "aud", {"sibling"})))>>
  <2>1. Corpus(c, keys, issuer) = s1 \o s2 \o s3 \o s5
    BY <1>4 DEF Corpus, Reshape
  <2>2. DOMAIN s5 = 1..16 /\ s5 = [i \in 1..16 |-> s5[i]]
    <3> HIDE DEF b, active, trusted, reject
    <3>1. QED
      OBVIOUS
  <2>3. {s5[1], s5[2], s5[3], s5[4], s5[5]} \subseteq S
    <3> HIDE DEF b, active
    <3>1. QED
      BY DEF Forgeries
  <2>4. {s5[6], s5[7], s5[8], s5[9], s5[10], s5[11]} \subseteq S
    <3> HIDE DEF b, active
    <3>1. QED
      BY DEF Misused
  <2>5. {s5[12], s5[13], s5[14], s5[15], s5[16]} \subseteq S
    <3> HIDE DEF b, active
    <3>1. QED
      BY DEF Misused
  <2> HIDE DEF s1, s2, s5, S
  <2>6. \A i \in 1..16 : s5[i] \in S
    BY <2>3, <2>4, <2>5
  <2>7. s5 \in Seq({s5[i] : i \in 1..16})
    BY <2>2
  <2>8. Sequence(s5) /\ ToSet(s5) \subseteq S
    BY <2>2, <2>6, <2>7 DEF Sequence, ToSet
  <2>9. QED
    BY <2>1, <2>8
<1> HIDE DEF s1, s2, S
<1>6. LET corpus == s1 \o s2 \o s3 \o s4 IN Sequence(corpus) /\ Len(corpus) > 0 /\ ToSet(corpus) \subseteq S
  BY <1>1, <1>2, <1>3, <1>4, <1>5, Longer
<1>7. QED
  BY <1>5, <1>6 DEF S

(* All that is sent to a service that can answer is exact.                 *)
LEMMA PlansAreExact ==
    ASSUME WellDescribed, NEW id \in Ids \ Down, Probeable(Of(id)),
           NEW a \in ToSet(ProbePlans[id]) \cup ToSet(Corpora[id])
    PROVE  Exact(id, a)
<1> DEFINE c == Of(id)
           active == ResolveKey(Keys, "active")
<1>1. Described(c) /\ c.claims \in Seq(STRING) /\ MaxRequiredClaimProbes \in Nat
  BY IdsAre, ProbeAssumption DEF WellDescribed
<1>2. CASE a \in ToSet(ProbePlans[id])
  <2> DEFINE b == BaselineClaims(c, IssuerURL)
  <2>1. ProbePlans[id] = ProbePlan(c, Consumers, Keys, IssuerURL, MaxRequiredClaimProbes)
    BY DEF ProbePlans
  <2>2. a \in Always(b, active) \cup
                Sometimes(b, active, ToSet(c.claims), SiblingAudience(c, Consumers),
                          ResolveKey(Keys, "retired"), ResolveKey(Keys, "announced"))
    BY <1>1, <1>2, <2>1, PlansAreLong
  <2>3. InOrderClaims(c, b)
    BY <1>1, BaselineInOrder
  <2> HIDE DEF b
  <2>4. QED
    BY <2>2, <2>3, TokensAreExact
<1>3. CASE a \in ToSet(Corpora[id])
  <2> DEFINE b == CorpusClaims(c, IssuerURL)
  <2>1. Corpora[id] = Corpus(c, Keys, IssuerURL)
    BY DEF Corpora
  <2>2. a \in Forgeries(b, active) \cup Misused(b, active)
    BY <1>3, <2>1, CorporaAreLong
  <2>3. InOrderClaims(c, b)
    BY <1>1, CorpusInOrder
  <2> HIDE DEF b
  <2>4. QED
    BY <2>2, <2>3, TokensAreExact
<1>4. QED
  BY <1>2, <1>3

(* Every consumer is sent something, whatever is asked for. *)
LEMMA EverythingIsPlanned ==
    ASSUME NEW id \in Ids, mode \in {"probes", "harness"}
    PROVE  /\ Sequence(Plan(id)) /\ Len(Plan(id)) > 0
           /\ Plan(id) = IF mode = "harness" THEN Corpora[id] ELSE ProbePlans[id]
<1>1. Sequence(Corpora[id]) /\ Len(Corpora[id]) > 0
  BY CorporaAreLong DEF Corpora
<1>2. Sequence(ProbePlans[id]) /\ Len(ProbePlans[id]) > 0
  <2>1. Of(id).claims \in Seq(STRING) /\ MaxRequiredClaimProbes \in Nat
    BY IdsAre, ProbeAssumption
  <2>2. QED
    BY <2>1, PlansAreLong DEF ProbePlans
<1>3. QED
  BY <1>1, <1>2 DEF Plan

(***************************************************************************)
(* The inspection of tokens.                                               *)
(***************************************************************************)

(* A token bound to an audience.                                           *)
Bound(m, name) == "aud" \in DOMAIN m /\ name \in m["aud"]

(* The inspection finds an audience missing or mismatched just when the    *)
(* token is not bound to the one that is asked for (analyze.go:82-99).     *)
LEMMA InspectedAre ==
    ASSUME NEW m, NEW name, name # NoName
    PROVE  LET policy == [DemoPolicy EXCEPT !.audience = name]
               found  == Threats(HandleAgentInspect(Inspected(m), policy).findings)
           IN  found \cap {"MCP-01", "MCP-02"} # {} <=> ~Bound(m, name)
<1> DEFINE policy == [DemoPolicy EXCEPT !.audience = name]
           p      == [policy EXCEPT !.maxDepth = Unbound]
           t      == Inspected(m)
           others == DelegationFindings(t, p) \cup ScopeFindings(t, p) \cup ExpiryFindings(t, p)
           found  == AudienceFindings(t, p) \cup others
<1>1. HandleAgentInspect(t, policy).findings = found
  <2>1. t.decodes
    BY DEF Inspected
  <2> HIDE DEF t
  <2>2. QED
    BY <2>1 DEF HandleAgentInspect, Analyze
<1>2. p.audience = name
  BY DEF DemoPolicy
<1>3. \A f \in others : f.threat \notin {"MCP-01", "MCP-02"}
  <2> HIDE DEF t, p
  <2>1. \A f \in DelegationFindings(t, p) : f.threat \in {"DEL-01", "DEL-02"}
    BY DEF DelegationFindings, Found, Finding
  <2>2. \A f \in ScopeFindings(t, p) : f.threat = "SCOPE-01"
    BY DEF ScopeFindings, Found, Finding
  <2>3. \A f \in ExpiryFindings(t, p) : f.threat = "SCOPE-02"
    BY DEF ExpiryFindings, Found, Finding
  <2>4. QED
    BY <2>1, <2>2, <2>3
<1>4. Bound(m, name) => AudienceFindings(t, p) = {}
  <2>1. Bound(m, name) => t.aud.kind = "list" /\ name \in t.aud.names
    BY DEF Inspected, Bound
  <2> HIDE DEF t, p
  <2>2. QED
    BY <1>2, <2>1 DEF AudienceFindings, IsEmptyAud, AudienceContains, Found
<1>5. ~Bound(m, name) => \E f \in AudienceFindings(t, p) : f.threat \in {"MCP-01", "MCP-02"}
  <2>1. ~Bound(m, name) => \/ t.aud.kind = "missing"
                           \/ t.aud.kind = "list" /\ name \notin t.aud.names
    BY DEF Inspected, Bound
  <2> HIDE DEF t, p
  <2>2. QED
    BY <1>2, <2>1 DEF AudienceFindings, IsEmptyAud, AudienceContains, Found, Finding
<1> HIDE DEF t, p, others
<1>6. Threats(found) \cap {"MCP-01", "MCP-02"} # {} <=> ~Bound(m, name)
  BY <1>3, <1>4, <1>5 DEF Threats
<1>7. QED
  BY <1>1, <1>6 DEF t

(* Of the corpus, the tokens about the audience are those not bound to it. *)
LEMMA CorpusIsBound ==
    ASSUME NEW c, NEW b, Described(c), InOrderClaims(c, b), NEW active,
           ToSet(c.audiences) \cap {"invalid", "other", "another", "passthrough", "sibling"} = {},
           NEW a \in Forgeries(b, active) \cup Misused(b, active)
    PROVE  ~Bound(a.token.claims, Head(c.audiences)) <=> a.check = "audience"
<1> DEFINE name == Head(c.audiences)
<1>1. /\ "aud" \in DOMAIN b /\ b["aud"] = {name}
      /\ name # "other" /\ name # "another" /\ name # "passthrough" /\ name # "sibling"
  BY Heads DEF InOrderClaims, Described
<1> HIDE DEF name
<1>2. Bound(b, name)
  BY <1>1 DEF Bound
<1>3. \A n, v : n # "aud" => Bound(With(b, n, v), name)
  <2>1. ASSUME NEW n, NEW v, n # "aud" PROVE Bound(With(b, n, v), name)
    <3>1. DOMAIN With(b, n, v) = DOMAIN b \cup {n} /\ With(b, n, v)["aud"] = b["aud"]
      BY <1>1, <2>1 DEF With
    <3>2. QED
      BY <1>1, <3>1 DEF Bound
  <2>2. QED
    BY <2>1
<1>4. \A V : name \notin V => ~Bound(With(b, "aud", V), name)
  <2>1. ASSUME NEW V, name \notin V PROVE ~Bound(With(b, "aud", V), name)
    <3>1. With(b, "aud", V)["aud"] = V
      BY DEF With
    <3>2. QED
      BY <2>1, <3>1 DEF Bound
  <2>2. QED
    BY <2>1
<1>5. Bound(Without(b, "exp"), name) /\ ~Bound(Without(b, "aud"), name)
  BY <1>1 DEF Bound, Without
<1>6. /\ \A k, m : Signed(k, m).claims = m
      /\ \A k, m : TamperSignature(Signed(k, m)).claims = m
      /\ \A k, m, shape : Reshape(Signed(k, m), shape).claims = m
  BY DEF Signed, TamperSignature, Reshape
<1>7. \A alg, key, s, m : Forged(alg, key, s, m).claims = m
  BY DEF Forged
<1>8. /\ \A n, check, t, e : Send(n, check, t, e).check = check
      /\ \A n, check, t, e : Send(n, check, t, e).token = t
  BY DEF Send
<1>9. CASE a \in Forgeries(b, active)
  <2>1. a.token.claims = b /\ a.check # "audience"
    BY <1>6, <1>7, <1>8, <1>9 DEF Forgeries
  <2>2. QED
    BY <1>2, <2>1 DEF name
<1>10. CASE a \in Misused(b, active)
  <2> DEFINE agrees(x) == ~Bound(x.token.claims, name) <=> x.check = "audience"
  <2>1. \A n, check, m : (~Bound(m, name) <=> check = "audience") => agrees(Send(n, check, Signed(active, m), "reject"))
    BY <1>6, <1>8
  <2>2. \A n, shape : \A check \in {"segments", "padding"} :
           agrees(Send(n, check, Reshape(Signed(active, b), shape), "reject"))
    BY <1>2, <1>6, <1>8
  <2> HIDE DEF agrees
  <2>3. /\ \A n : agrees(Send(n, "expiry", Signed(active, With(b, "exp", "past")), "reject"))
        /\ \A n : agrees(Send(n, "expiry", Signed(active, Without(b, "exp")), "reject"))
        /\ \A n : agrees(Send(n, "notBefore", Signed(active, With(b, "nbf", "future")), "reject"))
        /\ \A n : agrees(Send(n, "issuer", Signed(active, With(b, "iss", "evil")), "reject"))
        /\ \A n : agrees(Send(n, "audience", Signed(active, Without(b, "aud")), "reject"))
    BY <1>3, <1>5, <2>1
  <2>4. \A n, V : name \notin V => agrees(Send(n, "audience", Signed(active, With(b, "aud", V)), "reject"))
    BY <1>4, <2>1
  <2>5. /\ \A n : agrees(Send(n, "audience", Signed(active, With(b, "aud", {"other"})), "reject"))
        /\ \A n : agrees(Send(n, "audience", Signed(active, With(b, "aud", {"other", "another"})), "reject"))
        /\ \A n : agrees(Send(n, "audience", Signed(active, With(b, "aud", {"passthrough"})), "reject"))
        /\ \A n : agrees(Send(n, "audience", Signed(active, With(b, "aud", {"sibling"})), "reject"))
    BY <1>1, <2>4
  <2>6. agrees(a)
    BY <1>10, <2>2, <2>3, <2>5 DEF Misused
  <2>7. QED
    BY <2>6 DEF agrees, name
<1>11. QED
  BY <1>9, <1>10

(* The inspection and the corpus agree on the audience.                    *)
LEMMA InspectionsAgree ==
    ASSUME WellDescribed
    PROVE  InspectionAgrees
<1> SUFFICES ASSUME NEW id \in Ids, NEW attack \in ToSet(Corpora[id])
             PROVE  LET policy == [DemoPolicy EXCEPT !.audience = First(Of(id).audiences, NoName)]
                        found  == Threats(HandleAgentInspect(Inspected(attack.token.claims), policy).findings)
                    IN  found \cap {"MCP-01", "MCP-02"} # {} <=> attack.check = "audience"
  BY DEF InspectionAgrees
<1> DEFINE c    == Of(id)
           b    == CorpusClaims(c, IssuerURL)
           active == ResolveKey(Keys, "active")
           name == Head(c.audiences)
<1>1. /\ Described(c) /\ name # NoName
      /\ ToSet(c.audiences) \cap {"invalid", "other", "another", "passthrough", "sibling"} = {}
  BY DEF WellDescribed, Described
<1>2. First(c.audiences, NoName) = name
  BY <1>1 DEF First, Described
<1>3. attack \in Forgeries(b, active) \cup Misused(b, active)
  <2>1. Corpora[id] = Corpus(c, Keys, IssuerURL)
    BY DEF Corpora
  <2>2. QED
    BY <2>1, CorporaAreLong
<1>4. InOrderClaims(c, b)
  BY <1>1, CorpusInOrder
<1> HIDE DEF c, b, active
<1>5. ~Bound(attack.token.claims, name) <=> attack.check = "audience"
  BY <1>1, <1>3, <1>4, CorpusIsBound
<1> HIDE DEF name
<1>6. LET policy == [DemoPolicy EXCEPT !.audience = name]
          found  == Threats(HandleAgentInspect(Inspected(attack.token.claims), policy).findings)
      IN  found \cap {"MCP-01", "MCP-02"} # {} <=> ~Bound(attack.token.claims, name)
  BY <1>1, InspectedAre
<1>7. QED
  BY <1>2, <1>5, <1>6 DEF c

(* A stricter policy finds all that a weaker one does.                     *)
LEMMA Strictness ==
    ASSUME WellFormedInputs, NEW m \in AgentTokens, NEW p \in AgentPolicies, NEW q \in AgentPolicies, Weaker(p, q)
    PROVE  /\ Analyze(m, p).findings \subseteq Analyze(m, q).findings
           /\ Analyze(m, p).err = Analyze(m, q).err
<1>1. /\ Len(m.act) \in Nat /\ m.exp \in Int /\ m.iat \in Int
      /\ p.maxLifetime \in Nat /\ q.maxLifetime \in Nat /\ p.maxDepth \in Nat /\ q.maxDepth \in Nat
      /\ Now \in Nat /\ DurationLimit \in Nat \ {0}
  <2>1. m.act \in Seq(STRING) /\ m.exp \in Int /\ m.iat \in Int
    BY DEF WellFormedInputs
  <2>2. /\ p.maxLifetime \in 0..(DurationLimit - 2) /\ q.maxLifetime \in 0..(DurationLimit - 2)
        /\ p.maxDepth \in Nat /\ q.maxDepth \in Nat
    BY DEF WellFormedInputs
  <2>3. QED
    BY <2>1, <2>2, LenProperties, AgentAssumption
<1>2. AudienceFindings(m, p) \subseteq AudienceFindings(m, q)
  BY DEF AudienceFindings, Weaker, Found
<1>3. DelegationFindings(m, p) \subseteq DelegationFindings(m, q)
  BY <1>1 DEF DelegationFindings, Weaker, Found, InspectActChain, Unbound
<1>4. ScopeFindings(m, p) \subseteq ScopeFindings(m, q)
  BY DEF ScopeFindings, Weaker, Found
<1>5. ExpiryFindings(m, p) \subseteq ExpiryFindings(m, q)
  <2>1. Lifetime(m) \in Int
    BY <1>1 DEF Lifetime, Wrapped, CutOff
  <2>2. QED
    BY <1>1, <2>1 DEF ExpiryFindings, Weaker, Found, Unbound
<1>6. QED
  BY <1>2, <1>3, <1>4, <1>5 DEF Analyze

(* A token that lives longer than allowed is found.                        *)
LEMMA LongLivedAreFound ==
    ASSUME WellFormedInputs, NEW m \in AgentTokens, NEW p \in AgentPolicies,
           m.decodes, p.maxLifetime # Unbound,
           m.exp > (IF m.iat = NoTime THEN Now ELSE m.iat) + p.maxLifetime,
           m.iat = NoTime \/ m.exp - m.iat < DurationLimit
    PROVE  Finding("SCOPE-02", "medium") \in Analyze(m, p).findings \/ Finding("SCOPE-02", "high") \in Analyze(m, p).findings
<1>1. /\ m.exp \in Int /\ m.iat \in Int /\ p.maxLifetime \in 1..(DurationLimit - 2)
      /\ Now \in Nat /\ DurationLimit \in Nat \ {0}
  <2>1. m.exp \in Int /\ m.iat \in Int /\ p.maxLifetime \in 0..(DurationLimit - 2)
    BY DEF WellFormedInputs
  <2>2. QED
    BY <2>1, AgentAssumption DEF Unbound
<1>2. Lifetime(m) > p.maxLifetime
  <2>1. CASE m.iat = NoTime
    BY <1>1, <2>1 DEF Lifetime, CutOff
  <2>2. CASE m.iat # NoTime
    <3>1. PICK n \in 1..(DurationLimit - 1) : n = m.exp - m.iat /\ n > p.maxLifetime
      BY <1>1, <2>2
    <3>2. Wrapped(n) = n
      BY <1>1, <3>1 DEF Wrapped
    <3>3. QED
      BY <2>2, <3>1, <3>2 DEF Lifetime
  <2>3. QED
    BY <2>1, <2>2
<1>3. QED
  BY <1>2 DEF Analyze, ExpiryFindings, Found

(* What the CLI finds and the server does not is the depth of a chain.     *)
LEMMA DepthIsTheDifference ==
    ASSUME WellFormedInputs, NEW m \in AgentTokens, NEW p \in AgentPolicies
    PROVE  Analyze(m, p).findings \ HandleAgentInspect(m, p).findings \subseteq {Finding("DEL-02", "high")}
<1> DEFINE P == [audience : STRING, requireDelegation : BOOLEAN, maxLifetime : 0..(DurationLimit - 2),
                 allowedScopes : SUBSET STRING, maxDepth : Nat]
<1>1. p \in P
  BY DEF WellFormedInputs
<1>2. PICK q : q = [p EXCEPT !.maxDepth = Unbound]
  OBVIOUS
<1>3. /\ q.audience = p.audience /\ q.requireDelegation = p.requireDelegation
      /\ q.maxLifetime = p.maxLifetime /\ q.allowedScopes = p.allowedScopes
  BY <1>1, <1>2
<1>4. HandleAgentInspect(m, p) = Analyze(m, q)
  BY <1>2 DEF HandleAgentInspect
<1>5. /\ AudienceFindings(m, q) = AudienceFindings(m, p) /\ ScopeFindings(m, q) = ScopeFindings(m, p)
      /\ ExpiryFindings(m, q) = ExpiryFindings(m, p)
  BY <1>3 DEF AudienceFindings, ScopeFindings, ExpiryFindings
<1>6. DelegationFindings(m, p) \subseteq DelegationFindings(m, q) \cup {Finding("DEL-02", "high")}
  BY <1>3 DEF DelegationFindings, Found
<1>7. QED
  BY <1>4, <1>5, <1>6 DEF Analyze

(* What fails the build fails it with more findings, too.                  *)
LEMMA GatesAreMonotone ==
    ASSUME NEW F, NEW G, F \subseteq G, NEW failOn, GateFindings(F, failOn)
    PROVE  GateFindings(G, failOn)
BY DEF GateFindings

(* The demonstration shows the defects it was made with.                   *)
LEMMA DemonstrationShows ==
    ASSUME WellFormedInputs
    PROVE  /\ Threats(Analyze(DemoToken, DemoPolicy).findings) = {"MCP-02", "DEL-02", "SCOPE-01", "SCOPE-02"}
           /\ GateFindings(Analyze(DemoToken, DemoPolicy).findings, "high")
<1> DEFINE m == DemoToken
           p == DemoPolicy
<1>1. AudienceFindings(m, p) = {Finding("MCP-02", "high")}
  <2>1. p.audience = "mcp" /\ "mcp" # NoName
    BY DEF DemoPolicy, NoName
  <2>2. m.aud.kind = "missing"
    BY DEF DemoToken
  <2> HIDE DEF m, p
  <2>3. QED
    BY <2>1, <2>2 DEF AudienceFindings, IsEmptyAud
<1>2. DelegationFindings(m, p) = {Finding("DEL-02", "high")}
  <2>1. m.act = <<"nameless", "actor">> /\ m.act # <<>> /\ m.act[1] = "nameless" /\ 1 \in DOMAIN m.act
    BY DEF DemoToken
  <2>2. p.requireDelegation /\ p.maxDepth = Unbound
    BY DEF DemoPolicy
  <2> HIDE DEF m, p
  <2>3. InspectActChain(m.act).malformed
    BY <2>1 DEF InspectActChain
  <2>4. QED
    BY <2>1, <2>2, <2>3 DEF DelegationFindings, Found
<1>3. ScopeFindings(m, p) = {Finding("SCOPE-01", "high")}
  <2>1. m.scope = <<"admin:*">> /\ m.scp = <<>> /\ p.allowedScopes = {}
    BY DEF DemoToken, DemoPolicy
  <2> HIDE DEF m, p
  <2>2. m.scope \o m.scp = <<"admin:*">>
    BY <2>1
  <2>3. ToSet(ParseScopes(m)) \cap OmnibusScopes = {"admin:*"}
    BY <2>2 DEF ParseScopes, ToSet, WellFormedInputs
  <2>4. QED
    BY <2>1, <2>3 DEF ScopeFindings, Found
<1>4. ExpiryFindings(m, p) = {Finding("SCOPE-02", "high")}
  BY DEF ExpiryFindings, DemoToken
<1>5. Analyze(m, p).findings = {Finding("MCP-02", "high"), Finding("DEL-02", "high"),
                                Finding("SCOPE-01", "high"), Finding("SCOPE-02", "high")}
  <2>1. m.decodes
    BY DEF DemoToken
  <2> HIDE DEF m, p
  <2>2. QED
    BY <1>1, <1>2, <1>3, <1>4, <2>1 DEF Analyze
<1> HIDE DEF m, p
<1>6. Threats(Analyze(m, p).findings) = {"MCP-02", "DEL-02", "SCOPE-01", "SCOPE-02"}
  BY <1>5 DEF Threats, Finding
<1>7. GateFindings(Analyze(m, p).findings, "high")
  BY <1>5 DEF GateFindings, SeverityRank, Finding
<1>8. QED
  BY <1>6, <1>7 DEF m, p

(* The inspection can gate a pipeline.                                     *)
LEMMA InspectionsGate ==
    ASSUME WellFormedInputs
    PROVE  InspectionGates
<1>1. ASSUME NEW m \in AgentTokens, NEW p \in AgentPolicies, NEW q \in AgentPolicies, Weaker(p, q)
      PROVE  /\ Threats(Analyze(m, p).findings) \subseteq Threats(Analyze(m, q).findings)
             /\ \A failOn \in DOMAIN SeverityRank :
                   AgentInspect(m, p, failOn).fails => AgentInspect(m, q, failOn).fails
  <2>1. /\ Analyze(m, p).findings \subseteq Analyze(m, q).findings
        /\ Analyze(m, p).err = Analyze(m, q).err
    BY <1>1, Strictness
  <2>2. Threats(Analyze(m, p).findings) \subseteq Threats(Analyze(m, q).findings)
    BY <2>1 DEF Threats
  <2>3. \A failOn : GateFindings(Analyze(m, p).findings, failOn) => GateFindings(Analyze(m, q).findings, failOn)
    BY <2>1, GatesAreMonotone
  <2>4. QED
    BY <2>1, <2>2, <2>3 DEF AgentInspect
<1>2. ASSUME NEW m \in AgentTokens, NEW p \in AgentPolicies, m.decodes, p.maxLifetime # Unbound,
             m.exp > (IF m.iat = NoTime THEN Now ELSE m.iat) + p.maxLifetime,
             m.iat = NoTime \/ m.exp - m.iat < DurationLimit
      PROVE  "SCOPE-02" \in Threats(Analyze(m, p).findings)
  BY <1>2, LongLivedAreFound DEF Threats, Finding
<1>3. QED
  BY <1>1, <1>2, DepthIsTheDifference, DemonstrationShows DEF InspectionGates

(***************************************************************************)
(* The invariant.                                                          *)
(***************************************************************************)

EngineTypes ==
    /\ TypeOK
    /\ results \in [Ids -> Seq(Int)] /\ saved \in [Ids -> Seq(Int)]
    /\ streak \in [Ids -> Nat]
    /\ late \in Nat

(* The loop goes through the consumers in order. *)
InOrder ==
    /\ \A i \in DOMAIN Consumers : phase[Consumers[i].id] = "waiting" <=> i >= next
    /\ loop = "acquire" => next <= Len(Consumers)

(* A baseline without an answer is not counted by the engine. *)
Uncounted(id) == IF results[id] # <<>> /\ results[id][1] = 0 THEN 1 ELSE 0

(* What holds of a consumer while it is served, and after. *)
Served(id) ==
    /\ phase[id] \in {"waiting", "skipped"} => results[id] = <<>>
    /\ results[id] = <<>> => streak[id] = 0
    /\ phase[id] # "done" => failures[id] < AbortOnConsecutive5xx
    /\ mode = "probes" =>
          \/ streak[id] <= failures[id] + Uncounted(id)
          \/ phase[id] = "done" /\ results[id] = <<500>> /\ streak[id] = 1
    /\ phase[id] = "done" /\ ~cancelled =>
          \/ Exhausted(id)
          \/ results[id][1] = 500
          \/ failures[id] = AbortOnConsecutive5xx

AllServed == \A id \in Ids : Served(id)

(* The consumers served at once; those started after the switch. *)
Bounded ==
    /\ Cardinality(Running) <= Slots
    /\ ~killed \/ loop = "acquire" => late = 0
    /\ late <= 1

(* Nothing is saved before the end, nor then if the context is over. *)
Stored ==
    /\ loop # "returned" => \A id \in Ids : saved[id] = <<>>
    /\ loop = "returned" => /\ Running = {}
                            /\ (\A id \in Ids : saved[id] = <<>>) \/ (~cancelled /\ saved = results)

PInv ==
    /\ EngineTypes
    /\ InOrder
    /\ AllServed
    /\ Bounded
    /\ Stored

(***************************************************************************)
(* The consumers.                                                          *)
(***************************************************************************)

LEMMA ConsumersAre ==
    /\ Len(Consumers) \in Nat /\ DOMAIN Consumers = 1..Len(Consumers)
    /\ \A i \in DOMAIN Consumers : Consumers[i].id \in Ids
    /\ \A i, j \in DOMAIN Consumers : Consumers[i].id = Consumers[j].id => i = j
    /\ \A id \in Ids : \E i \in DOMAIN Consumers : Consumers[i].id = id
    /\ IsFiniteSet(Ids)
<1>1. Len(Consumers) \in Nat /\ DOMAIN Consumers = 1..Len(Consumers)
  BY ProbeAssumption, LenProperties
<1>2. IsFiniteSet(Ids)
  <2> DEFINE f == [i \in DOMAIN Consumers |-> Consumers[i].id]
  <2>1. IsFiniteSet(DOMAIN Consumers)
    BY <1>1, FS_Interval
  <2>2. f \in [DOMAIN Consumers -> Ids]
    BY DEF Ids
  <2>3. Ids = {f[i] : i \in DOMAIN Consumers}
    BY DEF Ids
  <2> HIDE DEF f
  <2>4. IsFiniteSet({f[i] : i \in DOMAIN Consumers})
    BY <2>1, <2>2, FiniteImage
  <2>5. QED
    BY <2>3, <2>4, Zenon
<1>3. QED
  BY <1>1, <1>2, ProbeAssumption DEF Ids

(* Fewer are served at once than before, or as many. *)
LEMMA RunningShrinks ==
    ASSUME PInv, Running' \subseteq Running, mode' = mode
    PROVE  (Cardinality(Running) <= Slots)'
<1>1. Running \subseteq Ids /\ IsFiniteSet(Ids)
  BY ConsumersAre DEF Running
<1>2. IsFiniteSet(Running)
  BY <1>1, FS_Subset
<1>3. IsFiniteSet(Running') /\ Cardinality(Running') <= Cardinality(Running)
  BY <1>2, FS_Subset
<1>4. Cardinality(Running) \in Nat /\ Cardinality(Running') \in Nat
  BY <1>2, <1>3, FS_CardinalityType
<1>5. Slots' = Slots /\ Slots \in Nat
  BY ProbeAssumption DEF Slots
<1>6. QED
  BY <1>3, <1>4, <1>5 DEF PInv, Bounded

(* Some that were served are at their end, or begun. *)
LEMMA PhaseStep ==
    ASSUME PInv, UNCHANGED <<mode, results, failures, streak>>,
           cancelled' = FALSE => cancelled = FALSE, {cancelled'} \subseteq BOOLEAN,
           NEW id \in Ids, NEW next_phase,
           phase' = [phase EXCEPT ![id] = next_phase],
           \/ phase[id] = "waiting" /\ next_phase \in {"ready", "skipped"}
           \/ phase[id] = "ready" /\ next_phase = "sent"
           \/ phase[id] = "ready" /\ next_phase = "done" /\ cancelled'
    PROVE  /\ AllServed'
           /\ phase' \in [Ids -> {"waiting", "ready", "sent", "done", "skipped"}]
           /\ \A i \in Ids : phase'[i] \in {"ready", "sent"} => ~Exhausted(i)'
<1>1. phase \in [Ids -> {"waiting", "ready", "sent", "done", "skipped"}]
  BY DEF PInv, EngineTypes, TypeOK
<1>2. phase' \in [Ids -> {"waiting", "ready", "sent", "done", "skipped"}]
  BY <1>1
<1>3. \A i \in Ids : Plan(i)' = Plan(i) /\ (Exhausted(i)' <=> Exhausted(i))
  BY DEF Plan, Exhausted
<1>4. \A i \in Ids : Served(i)
  BY DEF PInv, AllServed
<1>5. ASSUME NEW i \in Ids PROVE Served(i)'
  <2>1. CASE i # id
    <3>1. phase'[i] = phase[i]
      BY <1>1, <2>1
    <3>2. QED
      BY <1>3, <1>4, <3>1 DEF Served, Uncounted
  <2>2. CASE i = id
    <3>1. phase'[i] = next_phase
      BY <1>1, <2>2
    <3>2. QED
      BY <1>3, <1>4, <2>2, <3>1 DEF Served, Uncounted
  <2>3. QED
    BY <2>1, <2>2
<1>6. ASSUME NEW i \in Ids, phase'[i] \in {"ready", "sent"} PROVE ~Exhausted(i)'
  <2>1. CASE phase[i] \in {"ready", "sent"}
    BY <1>3, <2>1 DEF PInv, EngineTypes, TypeOK
  <2>2. CASE phase[i] \notin {"ready", "sent"}
    <3>1. i = id /\ phase[i] = "waiting"
      BY <1>1, <1>6, <2>2
    <3>2. results[i] = <<>>
      BY <1>4, <3>1 DEF Served
    <3>3. Len(Plan(i)) > 0
      BY EverythingIsPlanned DEF PInv, EngineTypes, TypeOK
    <3>4. ~Exhausted(i)
      BY <3>2, <3>3 DEF Exhausted
    <3>5. QED
      BY <1>3, <3>4
  <2>3. QED
    BY <2>1, <2>2
<1>7. QED
  BY <1>2, <1>5, <1>6 DEF AllServed

LEMMA InitHolds == Init => PInv
<1> SUFFICES ASSUME Init PROVE PInv
  OBVIOUS
<1>1. Running = {} /\ Cardinality(Running) = 0
  <2>1. Running = {}
    BY DEF Init, Running
  <2>2. QED
    BY <2>1, FS_EmptySet
<1>2. EngineTypes
  <2>1. AbortOnConsecutive5xx \in Nat \ {0} /\ MaxFaults \in Nat
    BY ProbeAssumption
  <2>2. 1 \in 1..(Len(Consumers) + 1)
    BY ConsumersAre
  <2>3. TypeOK
    <3>1. {dryRun, killed, cancelled} \subseteq BOOLEAN
      BY DEF Init
    <3>2. failures \in [Ids -> 0..AbortOnConsecutive5xx] /\ faults \in 0..MaxFaults
      BY <2>1 DEF Init
    <3>3. \A id \in Ids : phase[id] \notin {"ready", "sent"}
      BY DEF Init
    <3>4. /\ mode \in {"probes", "harness"} /\ loop \in {"poll", "acquire", "wait", "returned"}
          /\ phase \in [Ids -> {"waiting", "ready", "sent", "done", "skipped"}] /\ next = 1
      BY DEF Init
    <3>5. QED
      BY <2>2, <3>1, <3>2, <3>3, <3>4 DEF TypeOK
  <2>4. <<>> \in Seq(Int)
    OBVIOUS
  <2>5. QED
    BY <2>3, <2>4 DEF Init, EngineTypes
<1>3. InOrder
  BY ConsumersAre DEF Init, InOrder
<1>4. AllServed
  BY ProbeAssumption DEF Init, AllServed, Served, Uncounted
<1>5. Bounded
  BY <1>1, ProbeAssumption DEF Init, Bounded, Slots
<1>6. Stored
  BY DEF Init, Stored
<1>7. QED
  BY <1>2, <1>3, <1>4, <1>5, <1>6 DEF PInv

(***************************************************************************)
(* The loop, and those who interfere with it.                              *)
(***************************************************************************)

LEMMA SamePhases ==
    ASSUME PInv, UNCHANGED <<mode, phase, results, failures, streak>>,
           cancelled' = FALSE => cancelled = FALSE, {cancelled'} \subseteq BOOLEAN
    PROVE  /\ AllServed'
           /\ Running' = Running /\ Slots' = Slots
           /\ \A i \in Ids : phase'[i] \in {"ready", "sent"} => ~Exhausted(i)'
<1>1. \A i \in Ids : Plan(i)' = Plan(i) /\ (Exhausted(i)' <=> Exhausted(i))
  BY DEF Plan, Exhausted
<1>2. \A i \in Ids : Served(i) => Served(i)'
  BY <1>1 DEF Served, Uncounted
<1>3. QED
  BY <1>1, <1>2 DEF PInv, AllServed, EngineTypes, TypeOK, Running, Slots

LEMMA EngageStep ==
    ASSUME PInv, Engage
    PROVE  PInv'
<1>1. /\ killed = FALSE /\ killed' = TRUE /\ loop # "returned"
      /\ UNCHANGED <<mode, dryRun, cancelled, next, loop, phase, failures, results, saved,
                     faults, streak, late>>
  BY DEF Engage, PInv, EngineTypes, TypeOK, callVars, engineVars
<1>2. {cancelled'} \subseteq BOOLEAN /\ {dryRun', killed', cancelled'} \subseteq BOOLEAN
  BY <1>1 DEF PInv, EngineTypes, TypeOK
<1>3. /\ AllServed' /\ Running' = Running /\ Slots' = Slots
      /\ \A i \in Ids : phase'[i] \in {"ready", "sent"} => ~Exhausted(i)'
  BY <1>1, <1>2, SamePhases
<1>4. EngineTypes'
  BY <1>1, <1>2, <1>3 DEF PInv, EngineTypes, TypeOK
<1>5. InOrder' /\ Stored'
  BY <1>1 DEF PInv, InOrder, Stored
<1>6. Bounded'
  BY <1>1, <1>3 DEF PInv, Bounded
<1>7. QED
  BY <1>3, <1>4, <1>5, <1>6 DEF PInv

LEMMA CancelStep ==
    ASSUME PInv, Cancel
    PROVE  PInv'
<1>1. /\ cancelled = FALSE /\ cancelled' = TRUE /\ loop # "returned"
      /\ UNCHANGED <<mode, dryRun, killed, next, loop, phase, failures, results, saved,
                     faults, streak, late>>
  BY DEF Cancel, PInv, EngineTypes, TypeOK, callVars, engineVars
<1>2. {cancelled'} \subseteq BOOLEAN /\ {dryRun', killed', cancelled'} \subseteq BOOLEAN
  BY <1>1 DEF PInv, EngineTypes, TypeOK
<1>3. /\ AllServed' /\ Running' = Running /\ Slots' = Slots
      /\ \A i \in Ids : phase'[i] \in {"ready", "sent"} => ~Exhausted(i)'
  BY <1>1, <1>2, SamePhases
<1>4. EngineTypes'
  BY <1>1, <1>2, <1>3 DEF PInv, EngineTypes, TypeOK
<1>5. InOrder' /\ Stored'
  BY <1>1 DEF PInv, InOrder, Stored
<1>6. Bounded'
  BY <1>1, <1>3 DEF PInv, Bounded
<1>7. QED
  BY <1>3, <1>4, <1>5, <1>6 DEF PInv

(* The loop admits a consumer, ends, or returns. *)
LEMMA LoopStep ==
    ASSUME PInv, Admit \/ LoopEnds \/ Return
    PROVE  PInv'
<1>1. UNCHANGED <<mode, dryRun, killed, cancelled, next, phase, failures, results, faults, streak, late>>
  BY DEF Admit, LoopEnds, Return, callVars
<1>2. {cancelled'} \subseteq BOOLEAN /\ {dryRun', killed', cancelled'} \subseteq BOOLEAN
  BY <1>1 DEF PInv, EngineTypes, TypeOK
<1>3. /\ AllServed' /\ Running' = Running /\ Slots' = Slots
      /\ \A i \in Ids : phase'[i] \in {"ready", "sent"} => ~Exhausted(i)'
  BY <1>1, <1>2, SamePhases
<1>4. loop' \in {"acquire", "wait", "returned"} /\ saved' \in {saved, results}
  BY DEF Admit, LoopEnds, Return
<1>5. EngineTypes'
  BY <1>1, <1>2, <1>3, <1>4 DEF PInv, EngineTypes, TypeOK
<1>6. InOrder' /\ Stored' /\ (killed => loop' # "acquire")
  <2>1. CASE Admit
    BY <1>1, <2>1 DEF Admit, AtConsumer, PInv, InOrder, Stored
  <2>2. CASE LoopEnds
    BY <1>1, <2>2 DEF LoopEnds, PInv, InOrder, Stored
  <2>3. CASE Return
    <3>1. loop = "wait" /\ loop' = "returned" /\ Running = {}
      BY <2>3 DEF Return
    <3>2. (\A id \in Ids : saved'[id] = <<>>) \/ (~cancelled /\ saved' = results)
      BY <2>3 DEF Return, PInv, Stored
    <3>3. QED
      BY <1>1, <1>3, <3>1, <3>2 DEF PInv, InOrder, Stored
  <2>4. QED
    BY <2>1, <2>2, <2>3
<1>7. Bounded'
  BY <1>1, <1>3, <1>6 DEF PInv, Bounded
<1>8. QED
  BY <1>3, <1>5, <1>6, <1>7 DEF PInv

(* The consumer the loop is at has not begun, and is no other's. *)
LEMMA NextOne ==
    ASSUME PInv, next <= Len(Consumers), NEW next_phase, next_phase # "waiting",
           phase' = [phase EXCEPT ![Consumers[next].id] = next_phase], next' = next + 1
    PROVE  /\ Consumers[next].id \in Ids /\ phase[Consumers[next].id] = "waiting"
           /\ \A i \in DOMAIN Consumers : phase'[Consumers[i].id] = "waiting" <=> i >= next'
           /\ next' \in 1..(Len(Consumers) + 1)
<1>1. next \in DOMAIN Consumers /\ next \in Nat /\ next' \in 1..(Len(Consumers) + 1)
  BY ConsumersAre DEF PInv, EngineTypes, TypeOK
<1>2. Consumers[next].id \in Ids /\ phase[Consumers[next].id] = "waiting"
  BY <1>1, ConsumersAre DEF PInv, InOrder
<1>3. ASSUME NEW i \in DOMAIN Consumers
      PROVE  phase'[Consumers[i].id] = "waiting" <=> i >= next'
  <2>1. phase \in [Ids -> {"waiting", "ready", "sent", "done", "skipped"}]
    BY DEF PInv, EngineTypes, TypeOK
  <2>2. Consumers[i].id \in Ids /\ i \in Nat
    BY ConsumersAre
  <2>3. CASE i = next
    <3>1. phase'[Consumers[i].id] = next_phase
      BY <1>2, <2>1, <2>3
    <3>2. QED
      BY <1>1, <2>3, <3>1
  <2>4. CASE i # next
    <3>1. Consumers[i].id # Consumers[next].id
      BY <1>1, <2>4, ConsumersAre
    <3>2. phase'[Consumers[i].id] = phase[Consumers[i].id]
      BY <2>1, <2>2, <3>1
    <3>3. phase[Consumers[i].id] = "waiting" <=> i >= next
      BY DEF PInv, InOrder
    <3>4. QED
      BY <1>1, <2>2, <2>4, <3>2, <3>3
  <2>5. QED
    BY <2>3, <2>4
<1>4. QED
  BY <1>1, <1>2, <1>3

LEMMA KillSwitchStep ==
    ASSUME PInv, KillSwitch
    PROVE  PInv'
<1>1. /\ phase' = [phase EXCEPT ![Consumers[next].id] = "skipped"] /\ next' = next + 1
      /\ loop = "poll" /\ next <= Len(Consumers)
      /\ UNCHANGED <<mode, dryRun, killed, cancelled, loop, failures, results, saved, faults, streak, late>>
  BY DEF KillSwitch, AtConsumer, callVars
<1>2. {cancelled'} \subseteq BOOLEAN /\ {dryRun', killed', cancelled'} \subseteq BOOLEAN
  BY <1>1 DEF PInv, EngineTypes, TypeOK
<1>3. /\ Consumers[next].id \in Ids /\ phase[Consumers[next].id] = "waiting"
      /\ \A i \in DOMAIN Consumers : phase'[Consumers[i].id] = "waiting" <=> i >= next'
      /\ next' \in 1..(Len(Consumers) + 1)
  BY <1>1, NextOne
<1>4. /\ AllServed' /\ phase' \in [Ids -> {"waiting", "ready", "sent", "done", "skipped"}]
      /\ \A i \in Ids : phase'[i] \in {"ready", "sent"} => ~Exhausted(i)'
  BY <1>1, <1>2, <1>3, PhaseStep
<1>5. EngineTypes'
  BY <1>1, <1>2, <1>3, <1>4 DEF PInv, EngineTypes, TypeOK
<1>6. Running' \subseteq Running
  BY <1>1 DEF Running, PInv, EngineTypes, TypeOK
<1>7. Bounded'
  BY <1>1, <1>6, RunningShrinks DEF PInv, Bounded
<1>8. InOrder' /\ Stored'
  BY <1>1, <1>3 DEF PInv, InOrder, Stored
<1>9. QED
  BY <1>4, <1>5, <1>7, <1>8 DEF PInv

LEMMA StartStep ==
    ASSUME PInv, Start
    PROVE  PInv'
<1> DEFINE id == Consumers[next].id
<1>1. PICK next_phase \in {"ready", "skipped"} : phase' = [phase EXCEPT ![id] = next_phase]
  BY DEF Start
<1>2. /\ next' = next + 1 /\ loop' = "poll" /\ loop = "acquire" /\ next <= Len(Consumers)
      /\ late' \in {late, late + 1} /\ (~killed => late' = late)
      /\ Cardinality(Running) < Slots
      /\ UNCHANGED <<mode, dryRun, killed, cancelled, failures, results, saved, faults, streak>>
  BY DEF Start, Occupied, callVars, PInv, InOrder
<1>3. {cancelled'} \subseteq BOOLEAN /\ {dryRun', killed', cancelled'} \subseteq BOOLEAN
  BY <1>2 DEF PInv, EngineTypes, TypeOK
<1>4. /\ id \in Ids /\ phase[id] = "waiting"
      /\ \A i \in DOMAIN Consumers : phase'[Consumers[i].id] = "waiting" <=> i >= next'
      /\ next' \in 1..(Len(Consumers) + 1)
  BY <1>1, <1>2, NextOne
<1> HIDE DEF id
<1>5. /\ AllServed' /\ phase' \in [Ids -> {"waiting", "ready", "sent", "done", "skipped"}]
      /\ \A i \in Ids : phase'[i] \in {"ready", "sent"} => ~Exhausted(i)'
  BY <1>1, <1>2, <1>3, <1>4, PhaseStep
<1>6. EngineTypes'
  <2>1. late \in Nat /\ late' \in Nat
    BY <1>2 DEF PInv, EngineTypes
  <2>2. TypeOK'
    BY <1>2, <1>3, <1>4, <1>5 DEF PInv, EngineTypes, TypeOK
  <2>3. QED
    BY <1>2, <2>1, <2>2 DEF PInv, EngineTypes
<1>7. Cardinality(Running)' <= Slots'
  <2>1. IsFiniteSet(Running)
    <3>1. Running \subseteq Ids /\ IsFiniteSet(Ids)
      BY ConsumersAre DEF Running
    <3>2. QED
      BY <3>1, FS_Subset
  <2>2. id \notin Running
    BY <1>4 DEF Running
  <2>3. Running' \subseteq Running \cup {id}
    BY <1>1 DEF Running, PInv, EngineTypes, TypeOK
  <2>4. IsFiniteSet(Running \cup {id}) /\ Cardinality(Running \cup {id}) = Cardinality(Running) + 1
    BY <2>1, <2>2, FS_AddElement
  <2>5. IsFiniteSet(Running') /\ Cardinality(Running') <= Cardinality(Running) + 1
    BY <2>3, <2>4, FS_Subset
  <2>6. Cardinality(Running) \in Nat /\ Cardinality(Running') \in Nat
    BY <2>1, <2>5, FS_CardinalityType
  <2>7. Slots' = Slots /\ Slots \in Nat
    BY <1>2, ProbeAssumption DEF Slots
  <2>8. QED
    BY <1>2, <2>5, <2>6, <2>7
<1>8. Bounded'
  <2>1. late = 0
    BY <1>2 DEF PInv, Bounded
  <2>2. QED
    BY <1>2, <1>7, <2>1 DEF Bounded
<1>9. InOrder' /\ Stored'
  BY <1>2, <1>4 DEF PInv, InOrder, Stored
<1>10. QED
  BY <1>5, <1>6, <1>8, <1>9 DEF PInv

(***************************************************************************)
(* The requests to a consumer.                                             *)
(***************************************************************************)

LEMMA RequestStep ==
    ASSUME PInv, NEW id \in Ids, Request(id) \/ Stop(id)
    PROVE  PInv'
<1>1. PICK next_phase \in {"sent", "done"} :
        /\ phase' = [phase EXCEPT ![id] = next_phase] /\ phase[id] = "ready"
        /\ next_phase = "done" => cancelled
  BY DEF Request, Stop
<1>2. UNCHANGED <<mode, dryRun, killed, cancelled, next, loop, failures, results, saved, faults, streak, late>>
  BY DEF Request, Stop, callVars
<1>3. {cancelled'} \subseteq BOOLEAN /\ {dryRun', killed', cancelled'} \subseteq BOOLEAN
  BY <1>2 DEF PInv, EngineTypes, TypeOK
<1>4. /\ AllServed' /\ phase' \in [Ids -> {"waiting", "ready", "sent", "done", "skipped"}]
      /\ \A i \in Ids : phase'[i] \in {"ready", "sent"} => ~Exhausted(i)'
  <2>1. next_phase = "done" => cancelled'
    BY <1>1, <1>2
  <2>2. QED
    BY <1>1, <1>2, <1>3, <2>1, PhaseStep
<1>5. EngineTypes'
  BY <1>2, <1>3, <1>4 DEF PInv, EngineTypes, TypeOK
<1>6. Running' \subseteq Running /\ id \in Running
  BY <1>1 DEF Running, PInv, EngineTypes, TypeOK
<1>7. Bounded'
  BY <1>2, <1>6, RunningShrinks DEF PInv, Bounded
<1>8. InOrder'
  BY <1>1, <1>2, ConsumersAre DEF PInv, InOrder, EngineTypes, TypeOK
<1>9. Stored'
  BY <1>2, <1>6 DEF PInv, Stored
<1>10. QED
  BY <1>4, <1>5, <1>7, <1>8, <1>9 DEF PInv

(* A service that may fail is not down: a fault counts while more may come. *)
LEMMA StatusesAre ==
    ASSUME NEW id, NEW status \in Statuses(id)
    PROVE  /\ status \in Int
           /\ id \in Flaky /\ status \in {0, 500} /\ ~cancelled => faults < MaxFaults
<1>1. CASE dryRun
  BY <1>1 DEF Statuses
<1>2. CASE ~dryRun /\ (cancelled \/ id \in Down)
  BY <1>2, ProbeAssumption DEF Statuses
<1>3. CASE ~dryRun /\ ~(cancelled \/ id \in Down)
  <2>1. \/ status \in {200, 400, 401, 403}
        \/ status \in {0, 500} /\ FaultPossible(id)
    BY <1>3 DEF Statuses, Refusal
  <2>2. QED
    BY <2>1 DEF FaultPossible
<1>4. QED
  BY <1>1, <1>2, <1>3

(* The count of failures in a row of a consumer that is answered once more. *)
LEMMA AnswerStep ==
    ASSUME PInv, NEW id \in Ids, Answer(id)
    PROVE  PInv'
<1>1. PICK status \in Statuses(id) :
        /\ results' = [results EXCEPT ![id] = Append(results[id], status)]
        /\ failures' = [failures EXCEPT ![id] =
                           IF mode = "harness" \/ Baseline(id) THEN 0 ELSE Track(status, failures[id])]
        /\ phase' = [phase EXCEPT ![id] = IF Aborts(id, status) \/ LastRequest(id) THEN "done" ELSE "ready"]
        /\ faults' = IF id \in Flaky /\ status \in {0, 500} /\ ~cancelled THEN faults + 1 ELSE faults
        /\ streak' = [streak EXCEPT ![id] = IF status \in {0, 500} THEN streak[id] + 1 ELSE 0]
  BY DEF Answer
<1>2. /\ phase[id] = "sent"
      /\ UNCHANGED <<mode, dryRun, killed, cancelled, next, loop, saved, late>>
  BY DEF Answer, callVars
<1>3. /\ {dryRun', killed', cancelled'} \subseteq BOOLEAN
      /\ AbortOnConsecutive5xx \in Nat \ {0} /\ MaxFaults \in Nat
  BY <1>2, ProbeAssumption DEF PInv, EngineTypes, TypeOK
<1>4. PICK r \in Seq(Int), f \in 0..AbortOnConsecutive5xx, k \in Nat :
        r = results[id] /\ f = failures[id] /\ k = streak[id]
  BY DEF PInv, EngineTypes, TypeOK
<1>5. status \in Int /\ (id \in Flaky /\ status \in {0, 500} /\ ~cancelled => faults < MaxFaults)
  BY StatusesAre
<1>6. /\ f < AbortOnConsecutive5xx
      /\ r = <<>> => k = 0
      /\ mode = "probes" => k <= f + Uncounted(id)
  BY <1>2, <1>4 DEF PInv, AllServed, Served
<1>7. PICK s \in Seq(Int) : s = Append(r, status) /\ Len(s) = Len(r) + 1 /\ Len(r) \in Nat
  BY <1>4, <1>5, AppendProperties, LenProperties
<1>8. s # <<>> /\ (r = <<>> => s = <<status>>) /\ (r # <<>> => s[1] = r[1])
  <2>1. s # <<>>
    BY <1>7, EmptySeq
  <2>2. ASSUME r = <<>> PROVE s = <<status>>
    BY <1>7, <2>2
  <2>3. ASSUME r # <<>> PROVE s[1] = r[1]
    <3>1. 1 \in 1..Len(r)
      BY <1>7, <2>3, EmptySeq
    <3>2. QED
      BY <1>5, <1>7, <3>1, AppendProperties
  <2>4. QED
    BY <2>1, <2>2, <2>3
<1>9. /\ Len(r) # Len(Plan(id)) /\ Len(Plan(id)) = Len(Plan(id))'
      /\ LastRequest(id) <=> Len(s) = Len(Plan(id))
      /\ Baseline(id) <=> mode = "probes" /\ r = <<>>
  <2>1. Len(r) # Len(Plan(id))
    BY <1>2, <1>4 DEF PInv, EngineTypes, TypeOK, Exhausted
  <2>2. QED
    BY <1>2, <1>4, <1>7, <2>1 DEF LastRequest, Baseline, Plan
<1>10. PICK g \in 0..AbortOnConsecutive5xx, n \in Nat, q \in {"done", "ready"} :
        /\ g = failures'[id] /\ n = streak'[id] /\ q = phase'[id] /\ results'[id] = s
        /\ g = IF mode = "harness" \/ Baseline(id) THEN 0 ELSE Track(status, f)
        /\ n = IF status \in {0, 500} THEN k + 1 ELSE 0
        /\ q = IF Aborts(id, status) \/ LastRequest(id) THEN "done" ELSE "ready"
  <2>1. Track(status, f) \in 0..AbortOnConsecutive5xx
    BY <1>3, <1>4, <1>5, <1>6 DEF Track
  <2>2. /\ failures'[id] = IF mode = "harness" \/ Baseline(id) THEN 0 ELSE Track(status, f)
        /\ streak'[id] = IF status \in {0, 500} THEN k + 1 ELSE 0
        /\ phase'[id] = IF Aborts(id, status) \/ LastRequest(id) THEN "done" ELSE "ready"
        /\ results'[id] = s
    BY <1>1, <1>4, <1>7 DEF PInv, EngineTypes, TypeOK
  <2>3. QED
    BY <1>3, <1>4, <2>1, <2>2
<1>11. \A i \in Ids : i # id => /\ phase'[i] = phase[i] /\ failures'[i] = failures[i]
                                /\ streak'[i] = streak[i] /\ results'[i] = results[i]
  BY <1>1 DEF PInv, EngineTypes, TypeOK
<1>12. AllServed'
  <2>1. ASSUME NEW i \in Ids, i # id PROVE Served(i)'
    <3>1. Served(i) /\ Plan(i)' = Plan(i)
      BY <1>2 DEF PInv, AllServed, Plan
    <3>2. QED
      BY <1>2, <1>11, <2>1, <3>1 DEF Served, Exhausted, Uncounted
  <2>2. q # "done" => g < AbortOnConsecutive5xx
    <3>1. CASE mode = "harness" \/ Baseline(id)
      BY <1>3, <1>10, <3>1
    <3>2. CASE ~(mode = "harness" \/ Baseline(id))
      <4>1. g = Track(status, f) /\ (q # "done" => ~(Track(status, f) >= AbortOnConsecutive5xx))
        BY <1>4, <1>10, <3>2 DEF Aborts
      <4>2. QED
        BY <1>3, <1>10, <4>1
    <3>3. QED
      BY <3>1, <3>2
  <2>3. mode = "probes" => \/ n <= g + Uncounted(id)'
                           \/ q = "done" /\ s = <<500>> /\ n = 1
    <3>1. ASSUME mode = "probes", r = <<>>
          PROVE  n <= g + Uncounted(id)' \/ (q = "done" /\ s = <<500>> /\ n = 1)
      <4>1. s = <<status>> /\ k = 0 /\ g = 0 /\ s[1] = status
        BY <1>6, <1>8, <1>9, <1>10, <3>1
      <4>2. Uncounted(id)' = IF status = 0 THEN 1 ELSE 0
        BY <1>8, <1>10, <4>1 DEF Uncounted
      <4>3. status = 500 => q = "done" /\ n = 1
        BY <1>9, <1>10, <3>1, <4>1 DEF Aborts
      <4>4. QED
        BY <1>10, <4>1, <4>2, <4>3
    <3>2. ASSUME mode = "probes", r # <<>> PROVE n <= g + Uncounted(id)'
      <4>1. Uncounted(id)' = Uncounted(id) /\ Uncounted(id) \in {0, 1}
        BY <1>4, <1>8, <1>10, <3>2 DEF Uncounted
      <4>2. g = Track(status, f) /\ k <= f + Uncounted(id)
        BY <1>6, <1>9, <1>10, <3>2
      <4>3. QED
        BY <1>4, <1>5, <1>10, <4>1, <4>2 DEF Track
    <3>3. QED
      BY <3>1, <3>2
  <2>4. q = "done" => Len(s) = Len(Plan(id)) \/ s[1] = 500 \/ g = AbortOnConsecutive5xx \/ cancelled
    <3>1. ASSUME Aborts(id, status), Baseline(id), ~cancelled PROVE s[1] = 500
      <4>1. status >= 500
        BY <3>1 DEF Aborts
      <4>2. status = 500
        BY <3>1, <4>1 DEF Statuses, Refusal
      <4>3. QED
        BY <1>8, <1>9, <3>1, <4>2
    <3>2. ASSUME Aborts(id, status), ~Baseline(id) PROVE g = AbortOnConsecutive5xx
      <4>1. g = Track(status, f) /\ Track(status, f) >= AbortOnConsecutive5xx
        BY <1>4, <1>10, <3>2 DEF Aborts
      <4>2. QED
        BY <1>3, <1>10, <4>1
    <3>3. QED
      BY <1>9, <1>10, <3>1, <3>2
  <2>5. Served(id)'
    <3>1. phase'[id] \notin {"waiting", "skipped"} /\ results'[id] # <<>>
      BY <1>8, <1>10
    <3>2. QED
      BY <1>2, <1>9, <1>10, <2>2, <2>3, <2>4, <3>1 DEF Served, Exhausted
  <2>6. QED
    BY <2>1, <2>5 DEF AllServed
<1>13. EngineTypes'
  <2>1. /\ phase' \in [Ids -> {"waiting", "ready", "sent", "done", "skipped"}]
        /\ failures' \in [Ids -> 0..AbortOnConsecutive5xx]
        /\ results' \in [Ids -> Seq(Int)] /\ streak' \in [Ids -> Nat]
    BY <1>1, <1>10, <1>11 DEF PInv, EngineTypes, TypeOK
  <2>2. \A i \in Ids : phase'[i] \in {"ready", "sent"} => ~Exhausted(i)'
    <3>1. ASSUME NEW i \in Ids, i # id, phase'[i] \in {"ready", "sent"} PROVE ~Exhausted(i)'
      <4>1. ~Exhausted(i) /\ Plan(i)' = Plan(i)
        BY <1>2, <1>11, <3>1 DEF PInv, EngineTypes, TypeOK, Plan
      <4>2. QED
        BY <1>11, <3>1, <4>1 DEF Exhausted
    <3>2. phase'[id] \in {"ready", "sent"} => ~Exhausted(id)'
      BY <1>9, <1>10 DEF Exhausted
    <3>3. QED
      BY <3>1, <3>2
  <2>3. faults' \in 0..MaxFaults
    BY <1>1, <1>3, <1>5 DEF PInv, EngineTypes, TypeOK
  <2>4. TypeOK'
    BY <1>2, <1>3, <2>1, <2>2, <2>3 DEF PInv, EngineTypes, TypeOK
  <2>5. QED
    BY <1>2, <2>1, <2>4 DEF PInv, EngineTypes
<1>14. Running' \subseteq Running /\ id \in Running
  BY <1>2, <1>11 DEF Running
<1>15. Bounded'
  BY <1>2, <1>14, RunningShrinks DEF PInv, Bounded
<1>16. InOrder'
  <2>1. \A i \in Ids : phase'[i] = "waiting" <=> phase[i] = "waiting"
    BY <1>2, <1>10, <1>11
  <2>2. QED
    BY <1>2, <2>1, ConsumersAre DEF PInv, InOrder
<1>17. Stored'
  BY <1>2, <1>14 DEF PInv, Stored
<1>18. QED
  BY <1>12, <1>13, <1>15, <1>16, <1>17 DEF PInv

(***************************************************************************)
(* The theorems.                                                           *)
(***************************************************************************)

LEMMA NextHolds == PInv /\ [Next]_vars => PInv'
<1> SUFFICES ASSUME PInv, [Next]_vars PROVE PInv'
  OBVIOUS
<1>1. CASE EngineStep
  BY <1>1, KillSwitchStep, LoopStep, StartStep DEF EngineStep
<1>2. CASE \E id \in Ids : ConsumerStep(id)
  BY <1>2, RequestStep, AnswerStep DEF ConsumerStep
<1>3. CASE Engage \/ Cancel
  BY <1>3, EngageStep, CancelStep
<1>4. CASE UNCHANGED vars
  <2>1. UNCHANGED <<mode, dryRun, killed, cancelled, next, loop, phase, failures, results, saved,
                    faults, streak, late>>
    BY <1>4 DEF vars, callVars, engineVars
  <2>2. {cancelled'} \subseteq BOOLEAN /\ {dryRun', killed', cancelled'} \subseteq BOOLEAN
    BY <2>1 DEF PInv, EngineTypes, TypeOK
  <2>3. /\ AllServed' /\ Running' = Running /\ Slots' = Slots
        /\ \A i \in Ids : phase'[i] \in {"ready", "sent"} => ~Exhausted(i)'
    BY <2>1, <2>2, SamePhases
  <2>4. EngineTypes'
    BY <2>1, <2>2, <2>3 DEF PInv, EngineTypes, TypeOK
  <2>5. InOrder' /\ Stored' /\ Bounded'
    BY <2>1, <2>3 DEF PInv, InOrder, Stored, Bounded
  <2>6. QED
    BY <2>3, <2>4, <2>5 DEF PInv
<1>5. QED
  BY <1>1, <1>2, <1>3, <1>4 DEF Next

(* What the engine keeps of a run stays in order, whatever the services    *)
(* answer, the operator does and the caller does (Run and RunHarness).     *)
THEOREM ProbeInductive == Spec => []PInv
<1>1. QED
  BY InitHolds, NextHolds, PTL DEF Spec

(* No consumer is sent more than its plan, and the count of its failures   *)
(* stays within its limit (engine.go).                                     *)
THEOREM ProbeTypeCorrect == Spec => []TypeOK
<1>1. PInv => TypeOK
  BY DEF PInv, EngineTypes
<1>2. QED
  BY <1>1, ProbeInductive, PTL

(* After the switch is thrown one more consumer is started at most, and    *)
(* the semaphore's limit holds, for any number of consumers (Run).         *)
THEOREM SwitchContains == Spec => []Contained
<1>1. PInv => Contained
  BY DEF PInv, Bounded, Contained
<1>2. QED
  BY <1>1, ProbeInductive, PTL

(* A consumer that answers nothing but failures is let alone at the limit, *)
(* for any limit and any mix of failures (trackAndMaybeAbort).             *)
THEOREM FailingAreLetAlone == Spec => []LetAlone
<1>1. PInv => LetAlone
  <2> SUFFICES ASSUME PInv, mode = "probes", NEW id \in Ids
               PROVE  streak[id] <= AbortOnConsecutive5xx + Uncounted(id)
    BY DEF LetAlone, Uncounted
  <2>1. /\ AbortOnConsecutive5xx \in Nat \ {0} /\ failures[id] \in 0..AbortOnConsecutive5xx
        /\ streak[id] \in Nat /\ Uncounted(id) \in {0, 1}
    BY ProbeAssumption DEF PInv, EngineTypes, TypeOK, Uncounted
  <2>2. streak[id] <= failures[id] + Uncounted(id) \/ streak[id] = 1
    BY DEF PInv, AllServed, Served
  <2>3. QED
    BY <2>1, <2>2
<1>2. QED
  BY <1>1, ProbeInductive, PTL

(* What is stored of a consumer is all there was to send to it, or it was  *)
(* given up for failing; never what the caller cut off, for any number of  *)
(* consumers, at any moment (ProbeRun, HarnessRun).                        *)
THEOREM NothingCutOffIsSaved == Spec => []NoCutOffResults
<1>1. PInv => NoCutOffResults
  <2> SUFFICES ASSUME PInv, loop = "returned", NEW id \in Ids, saved[id] # <<>>
               PROVE  \/ Exhausted(id)
                      \/ saved[id][1] = 500
                      \/ failures[id] = AbortOnConsecutive5xx
    BY DEF NoCutOffResults
  <2>1. ~cancelled /\ saved = results /\ Running = {}
    BY DEF PInv, Stored
  <2>2. Served(id) /\ results[id] # <<>>
    BY <2>1 DEF PInv, AllServed
  <2>3. phase[id] = "done"
    <3>1. phase[id] \in {"waiting", "ready", "sent", "done", "skipped"} /\ id \notin Running
      BY <2>1 DEF PInv, EngineTypes, TypeOK
    <3>2. QED
      BY <2>2, <3>1 DEF Served, Running
  <2>4. QED
    BY <2>1, <2>2, <2>3 DEF Served
<1>2. QED
  BY <1>1, ProbeInductive, PTL

(***************************************************************************)
(* The results.                                                            *)
(***************************************************************************)

(* What a service that answers makes of a token. *)
Judged(id, a) ==
    IF Verify(Performs[id], Trusts[id], Of(id), a.token) THEN 200 ELSE Refusal(id, a.check)

(* Only a consumer that may be probed has results, no more than its plan,  *)
(* and where it answered they are what its service made of the requests.   *)
Answered(id) ==
    /\ phase[id] \in {"ready", "sent"} \/ results[id] # <<>> => Probeable(Of(id))
    /\ Len(results[id]) <= Len(Plan(id))
    /\ \A i \in DOMAIN results[id] : results[id][i] \in Answers =>
          ~dryRun /\ id \notin Down /\ results[id][i] = Judged(id, Plan(id)[i])

AllAnswered == \A id \in Ids : Answered(id)

LEMMA InitAnswered == Init => AllAnswered
<1> SUFFICES ASSUME Init, NEW id \in Ids PROVE Answered(id)
  BY DEF AllAnswered
<1>1. results[id] = <<>> /\ phase[id] = "waiting" /\ mode \in {"probes", "harness"}
  BY DEF Init
<1>2. Len(results[id]) = 0 /\ DOMAIN results[id] = {}
  BY <1>1
<1>3. Len(Plan(id)) > 0 /\ Len(Plan(id)) \in Nat
  BY <1>1, EverythingIsPlanned, LenProperties DEF Sequence
<1>4. QED
  BY <1>1, <1>2, <1>3 DEF Answered

(* Its results and what is sent to it the same, a consumer is no more      *)
(* served than before.                                                     *)
LEMMA AnsweredStays ==
    ASSUME NEW id \in Ids, Answered(id), UNCHANGED <<mode, dryRun>>, results'[id] = results[id],
           phase'[id] \in {"ready", "sent"} => phase[id] \in {"ready", "sent"} \/ Probeable(Of(id))
    PROVE  Answered(id)'
<1>1. Plan(id)' = Plan(id)
  BY DEF Plan
<1>2. QED
  BY <1>1 DEF Answered

LEMMA StartAnswered ==
    ASSUME PInv, AllAnswered, Start
    PROVE  AllAnswered'
<1> DEFINE c == Consumers[next]
<1>1. /\ next \in DOMAIN Consumers /\ c.id \in Ids
      /\ phase \in [Ids -> {"waiting", "ready", "sent", "done", "skipped"}]
  <2>1. loop = "acquire" /\ next \in 1..(Len(Consumers) + 1)
    BY DEF Start, PInv, EngineTypes, TypeOK
  <2>2. QED
    BY <2>1, ConsumersAre DEF PInv, InOrder, EngineTypes, TypeOK
<1>2. Of(c.id) = c
  <2>1. PICK i \in DOMAIN Consumers : Of(c.id) = Consumers[i] /\ Consumers[i].id = c.id
    BY <1>1, IdsAre
  <2>2. QED
    BY <1>1, <2>1, ProbeAssumption
<1>3. /\ phase' = [phase EXCEPT ![c.id] = IF Probeable(c) THEN "ready" ELSE "skipped"]
      /\ UNCHANGED <<mode, dryRun, results>>
  BY DEF Start, callVars
<1> HIDE DEF c
<1>4. ASSUME NEW id \in Ids PROVE Answered(id)'
  <2>1. CASE id = c.id
    <3>1. phase'[id] = IF Probeable(c) THEN "ready" ELSE "skipped"
      BY <1>1, <1>3, <2>1
    <3>2. phase'[id] \in {"ready", "sent"} => Probeable(Of(id))
      BY <1>2, <2>1, <3>1
    <3>3. QED
      BY <1>3, <3>2, AnsweredStays DEF AllAnswered
  <2>2. CASE id # c.id
    <3>1. phase'[id] = phase[id]
      BY <1>1, <1>3, <2>2
    <3>2. QED
      BY <1>3, <3>1, AnsweredStays DEF AllAnswered
  <2>3. QED
    BY <2>1, <2>2
<1>5. QED
  BY <1>4 DEF AllAnswered

(* An answer is what the service makes of the request it is the answer to. *)
LEMMA AnswerAnswered ==
    ASSUME PInv, AllAnswered, NEW id \in Ids, Answer(id)
    PROVE  AllAnswered'
<1>1. PICK status \in Statuses(id) : results' = [results EXCEPT ![id] = Append(results[id], status)]
  BY DEF Answer
<1>2. /\ phase[id] = "sent" /\ UNCHANGED <<mode, dryRun>>
      /\ \A i \in Ids : i # id => phase'[i] = phase[i]
  BY DEF Answer, callVars, PInv, EngineTypes, TypeOK
<1>3. PICK r \in Seq(Int) : r = results[id]
  BY DEF PInv, EngineTypes
<1>4. status \in Int
  BY StatusesAre
<1>5. PICK s \in Seq(Int) : /\ s = Append(r, status) /\ results'[id] = s
                            /\ Len(s) = Len(r) + 1 /\ Len(r) \in Nat
                            /\ \A i \in 1..Len(r) : s[i] = r[i]
                            /\ s[Len(r) + 1] = status
  <2>1. results'[id] = Append(r, status)
    BY <1>1, <1>3 DEF PInv, EngineTypes
  <2>2. PICK s \in Seq(Int) : s = Append(r, status)
    BY <1>4, AppendProperties
  <2>3. Len(s) = Len(r) + 1 /\ s[Len(r) + 1] = status /\ \A i \in 1..Len(r) : s[i] = r[i]
    BY <1>4, <2>2, AppendProperties
  <2>4. QED
    BY <2>1, <2>2, <2>3, LenProperties
<1>6. Plan(id)' = Plan(id) /\ Len(Plan(id)) \in Nat
  <2>1. mode \in {"probes", "harness"}
    BY DEF PInv, EngineTypes, TypeOK
  <2>2. QED
    BY <1>2, <2>1, EverythingIsPlanned, LenProperties DEF Plan, Sequence
<1>7. Answered(id) /\ Len(r) # Len(Plan(id))
  BY <1>2, <1>3 DEF AllAnswered, PInv, EngineTypes, TypeOK, Exhausted
<1>8. status \in Answers => ~dryRun /\ id \notin Down /\ status = Judged(id, Attempt(id))
  <2>1. CASE dryRun
    BY <2>1 DEF Statuses, Answers
  <2>2. CASE ~dryRun /\ (cancelled \/ id \in Down)
    BY <2>2 DEF Statuses, Answers
  <2>3. CASE ~dryRun /\ ~(cancelled \/ id \in Down)
    <3>1. status = Judged(id, Attempt(id)) \/ status \in {0, 500}
      BY <2>3 DEF Statuses, Judged
    <3>2. QED
      BY <2>3, <3>1 DEF Answers
  <2>4. QED
    BY <2>1, <2>2, <2>3
<1>9. Attempt(id) = Plan(id)[Len(r) + 1]
  BY <1>3 DEF Attempt
<1>10. Answered(id)'
  <2>1. Probeable(Of(id))
    BY <1>2, <1>7 DEF Answered
  <2>2. Len(s) <= Len(Plan(id))
    BY <1>3, <1>5, <1>6, <1>7 DEF Answered
  <2>3. ASSUME NEW i \in DOMAIN s, s[i] \in Answers
        PROVE  ~dryRun /\ id \notin Down /\ s[i] = Judged(id, Plan(id)[i])
    <3>1. DOMAIN s = 1..(Len(r) + 1) /\ DOMAIN r = 1..Len(r)
      BY <1>5, LenProperties
    <3>2. CASE i = Len(r) + 1
      BY <1>5, <1>8, <1>9, <2>3, <3>2
    <3>3. CASE i # Len(r) + 1
      <4>1. i \in DOMAIN r /\ s[i] = r[i]
        BY <1>5, <3>1, <3>3
      <4>2. QED
        BY <1>3, <1>7, <2>3, <4>1 DEF Answered
    <3>4. QED
      BY <3>2, <3>3
  <2>4. QED
    BY <1>2, <1>5, <1>6, <2>1, <2>2, <2>3 DEF Answered, Judged
<1>11. ASSUME NEW i \in Ids, i # id PROVE Answered(i)'
  <2>1. results'[i] = results[i] /\ phase'[i] = phase[i]
    BY <1>1, <1>2, <1>11 DEF PInv, EngineTypes
  <2>2. QED
    BY <1>2, <2>1, AnsweredStays DEF AllAnswered
<1>12. QED
  BY <1>10, <1>11 DEF AllAnswered

LEMMA NextAnswered == PInv /\ AllAnswered /\ [Next]_vars => AllAnswered'
<1> SUFFICES ASSUME PInv, AllAnswered, [Next]_vars PROVE AllAnswered'
  OBVIOUS
<1>1. phase \in [Ids -> {"waiting", "ready", "sent", "done", "skipped"}]
  BY DEF PInv, EngineTypes, TypeOK
<1>2. CASE KillSwitch
  <2>1. phase' = [phase EXCEPT ![Consumers[next].id] = "skipped"] /\ UNCHANGED <<mode, dryRun, results>>
    BY <1>2 DEF KillSwitch, callVars
  <2>2. \A id \in Ids : phase'[id] \in {"ready", "sent"} => phase[id] \in {"ready", "sent"}
    BY <1>1, <2>1
  <2>3. QED
    BY <2>1, <2>2, AnsweredStays DEF AllAnswered
<1>3. CASE Start
  BY <1>3, StartAnswered
<1>4. ASSUME NEW id \in Ids, Request(id) \/ Stop(id) PROVE AllAnswered'
  <2>1. PICK next_phase \in {"sent", "done"} :
           phase' = [phase EXCEPT ![id] = next_phase] /\ phase[id] = "ready" /\ UNCHANGED <<mode, dryRun, results>>
    BY <1>4 DEF Request, Stop, callVars
  <2>2. \A i \in Ids : phase'[i] \in {"ready", "sent"} => phase[i] \in {"ready", "sent"}
    BY <1>1, <2>1
  <2>3. QED
    BY <2>1, <2>2, AnsweredStays DEF AllAnswered
<1>5. ASSUME NEW id \in Ids, Answer(id) PROVE AllAnswered'
  BY <1>5, AnswerAnswered
<1>6. CASE Engage \/ Cancel \/ Admit \/ LoopEnds \/ Return \/ UNCHANGED vars
  <2>1. UNCHANGED <<mode, dryRun, phase, results>>
    BY <1>6 DEF Engage, Cancel, Admit, LoopEnds, Return, vars, callVars, engineVars
  <2>2. QED
    BY <2>1, AnsweredStays DEF AllAnswered
<1>7. QED
  BY <1>2, <1>3, <1>4, <1>5, <1>6 DEF Next, EngineStep, ConsumerStep

(* Whatever is recorded of a request that was answered is what the service *)
(* made of it, the right consumer's and the right request's (engine.go).   *)
THEOREM AnswersAreRecorded == Spec => [](PInv /\ AllAnswered)
<1>1. Init => PInv /\ AllAnswered
  BY InitHolds, InitAnswered
<1>2. PInv /\ AllAnswered /\ [Next]_vars => PInv' /\ AllAnswered'
  BY NextHolds, NextAnswered
<1>3. QED
  BY <1>1, <1>2, PTL DEF Spec

(* A request that was answered is recorded as failed when, and only when,  *)
(* the consumer makes the mistake it was sent to reveal, or a probe takes  *)
(* the status of its refusal for none; for any consumers, keys, services   *)
(* and limits within WellDescribed.  And the inspection of tokens finds    *)
(* what it should, for any tokens and policies within WellFormedInputs     *)
(* (probes.go, generators.go, harness.go, analyze.go).                     *)
THEOREM FindingsAreExact ==
    ASSUME WellDescribed, WellFormedInputs
    PROVE  Spec => []ExactFindings
<1>1. PInv /\ AllAnswered => ExactFindings
  <2> SUFFICES ASSUME PInv, AllAnswered, NEW id \in Ids, NEW i \in DOMAIN results[id],
                      results[id][i] \in Answers
               PROVE  ~Passed(Plan(id)[i], results[id][i]) <=> Lacks(id, Plan(id)[i].check) \/ Misread(id, Plan(id)[i])
    BY InspectionsGate, InspectionsAgree DEF ExactFindings
  <2> DEFINE a == Plan(id)[i]
             status == results[id][i]
  <2>1. /\ ~dryRun /\ id \notin Down /\ status = Judged(id, a)
        /\ Probeable(Of(id)) /\ Len(results[id]) <= Len(Plan(id))
    <3>1. Answered(id) /\ results[id] # <<>>
      BY DEF AllAnswered
    <3>2. QED
      BY <3>1 DEF Answered
  <2>2. a \in ToSet(Plan(id))
    <3>1. results[id] \in Seq(Int) /\ mode \in {"probes", "harness"}
      BY DEF PInv, EngineTypes, TypeOK
    <3>2. PICK S : Plan(id) \in Seq(S)
      BY <3>1, EverythingIsPlanned DEF Sequence
    <3>3. i \in DOMAIN Plan(id)
      BY <2>1, <3>1, <3>2, LenProperties
    <3>4. QED
      BY <3>3 DEF ToSet
  <2>3. Exact(id, a)
    <3>1. a \in ToSet(ProbePlans[id]) \cup ToSet(Corpora[id])
      BY <2>2 DEF Plan
    <3> HIDE DEF a
    <3>2. QED
      BY <2>1, <3>1, PlansAreExact
  <2> HIDE DEF a, status
  <2>4. status = 200 <=> (a.expect = "accept" <=> ~Lacks(id, a.check))
    BY <2>1, <2>3 DEF Exact, Judged, Refusal
  <2>5. /\ status = 200 \/ status = Refusal(id, a.check)
        /\ Refusal(id, a.check) \in {400, 401, 403}
        /\ mode \in {"probes", "harness"}
    BY <2>1 DEF Judged, Refusal, PInv, EngineTypes, TypeOK
  <2>6. ~Passed(a, status) <=> Lacks(id, a.check) \/ Misread(id, a)
    <3>1. a.expect \in {"accept", "reject"}
      BY <2>3 DEF Exact
    <3>2. CASE a.expect = "accept"
      BY <2>1, <2>4, <3>2 DEF Passed, Expected, Misread
    <3>3. CASE a.expect = "reject" /\ mode = "harness"
      BY <2>1, <2>4, <3>3 DEF Passed, Misread
    <3>4. CASE a.expect = "reject" /\ mode = "probes"
      <4>1. 200 \notin Expected(a) /\ (Misread(id, a) <=> Refusal(id, a.check) \notin Expected(a))
        BY <3>4 DEF Expected, Misread
      <4>2. Passed(a, status) <=> status \in Expected(a)
        BY <2>1, <3>4 DEF Passed
      <4>3. status = 200 <=> Lacks(id, a.check)
        BY <2>4, <3>4
      <4>4. QED
        BY <2>5, <4>1, <4>2, <4>3
    <3>5. QED
      BY <2>5, <3>1, <3>2, <3>3, <3>4
  <2>7. QED
    BY <2>6 DEF a, status
<1>2. QED
  BY <1>1, AnswersAreRecorded, PTL
=============================================================================
