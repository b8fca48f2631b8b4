-------------------------------- MODULE Agent --------------------------------
(***************************************************************************)
(* The static analysis of an agent's token against a policy                *)
(* (internal/agentauth): no endpoint, no signature, only the claims.       *)
(*                                                                         *)
(* The claims it looks at are a record.  "aud" has a kind, for it may be   *)
(* missing, null, a string, a list or anything else; "act" is the chain of *)
(* actors from the outermost in; "scope" and "scp" are the scopes of the   *)
(* two encodings; a time that is missing, or no number, is NoTime.         *)
(***************************************************************************)
EXTENDS Tokens, Integers

CONSTANTS
    AgentTokens,    \* tokens to inspect
    AgentPolicies,  \* policies to inspect them with
    OmnibusScopes,  \* the scopes that are too broad whatever the allowlist says
    Now,
    DurationLimit   \* the width of a duration, 2^63 nanoseconds

NoTime   == -1
Unbound  == 0       \* a lifetime or a depth that is not bounded

ASSUME AgentAssumption == Now \in Nat /\ DurationLimit \in Nat \ {0}

-----------------------------------------------------------------------------
(* Claim helpers. *)

IsEmptyAud(aud) ==
    \/ aud.kind \in {"missing", "null"}
    \/ aud.kind = "string" /\ aud.names = {NoName}
    \/ aud.kind = "list" /\ aud.names = {}

AudienceContains(aud, want) == aud.kind \in {"string", "list"} /\ want \in aud.names

(* A link of the chain that names no actor, or is no object at all.        *)
InspectActChain(chain) ==
    [depth |-> Len(chain), malformed |-> \E i \in DOMAIN chain : chain[i] # "actor"]

ParseScopes(m) == m.scope \o m.scp

(* A duration wraps around, ... *)
Wrapped(n) == ((n + DurationLimit) % (2 * DurationLimit)) - DurationLimit
(* ... but the difference of two times is cut off at the limit.            *)
CutOff(n) == IF n >= DurationLimit THEN DurationLimit - 1 ELSE n

(* From iat when present; otherwise what remains.                          *)
Lifetime(m) == IF m.iat # NoTime THEN Wrapped(m.exp - m.iat) ELSE CutOff(m.exp - Now)

-----------------------------------------------------------------------------
Finding(threat, severity) == [threat |-> threat, severity |-> severity]
Found(condition, threat, severity) == IF condition THEN {Finding(threat, severity)} ELSE {}

AudienceFindings(m, p) ==
    IF p.audience = NoName THEN {}
    ELSE IF IsEmptyAud(m.aud) THEN {Finding("MCP-02", "high")}
    ELSE Found(~AudienceContains(m.aud, p.audience), "MCP-01", "critical")

DelegationFindings(m, p) ==
    LET chain == InspectActChain(m.act)
        deep  == p.maxDepth # Unbound /\ chain.depth > p.maxDepth
    IN  Found(p.requireDelegation /\ m.act = <<>>, "DEL-01", "high")
        \cup Found(chain.malformed \/ deep, "DEL-02", "high")

(* An empty allowlist allows everything.                                   *)
ScopeFindings(m, p) ==
    LET scopes  == ToSet(ParseScopes(m))
        omnibus == scopes \cap OmnibusScopes
        beyond  == IF p.allowedScopes = {} THEN {} ELSE scopes \ (omnibus \cup p.allowedScopes)
    IN  Found(omnibus # {}, "SCOPE-01", "high") \cup Found(beyond # {}, "SCOPE-01", "medium")

ExpiryFindings(m, p) ==
    IF m.exp = NoTime THEN {Finding("SCOPE-02", "high")}
    ELSE Found(p.maxLifetime # Unbound /\ Lifetime(m) > p.maxLifetime, "SCOPE-02", "medium")

Analyze(m, p) ==
    IF ~m.decodes THEN [err |-> TRUE, findings |-> {}]
    ELSE [err |-> FALSE,
          findings |-> AudienceFindings(m, p) \cup DelegationFindings(m, p)
                       \cup ScopeFindings(m, p) \cup ExpiryFindings(m, p)]

-----------------------------------------------------------------------------
(* Who inspects: the two servers, whose requests have no depth, ... *)

HandleAgentInspect(m, p) == Analyze(m, [p EXCEPT !.maxDepth = Unbound])

(* ... and the CLI, which also gates.                                      *)
SeverityRank == [info |-> 0, low |-> 1, medium |-> 2, high |-> 3, critical |-> 4]

GateFindings(findings, failOn) ==
    /\ failOn # "none"
    /\ \/ failOn \notin DOMAIN SeverityRank
       \/ \E f \in findings : SeverityRank[f.severity] >= SeverityRank[failOn]

DemoToken ==
    [decodes |-> TRUE, aud |-> [kind |-> "missing", names |-> {}], act |-> <<"nameless", "actor">>,
     scope |-> <<"admin:*">>, scp |-> <<>>, exp |-> NoTime, iat |-> NoTime]
DemoPolicy ==
    [audience |-> "mcp", requireDelegation |-> TRUE, maxLifetime |-> Unbound,
     allowedScopes |-> {}, maxDepth |-> Unbound]

AgentInspect(m, p, failOn) ==
    LET analysis == Analyze(m, p)
    IN  [findings |-> analysis.findings,
         fails |-> analysis.err \/ GateFindings(analysis.findings, failOn)]

-----------------------------------------------------------------------------
(* Properties. *)

Threats(findings) == {f.threat : f \in findings}

(* What the inspection presumes: the tokens and policies are of their      *)
(* types, and no policy allows the longest lifetime a duration can hold,   *)
(* at which a longer one that is cut off can no longer be told from it.    *)
WellFormedInputs ==
    /\ AgentTokens \subseteq
          [decodes : BOOLEAN, aud : [kind : STRING, names : SUBSET STRING], act : Seq(STRING),
           scope : Seq(STRING), scp : Seq(STRING), exp : Int, iat : Int]
    /\ AgentPolicies \subseteq
          [audience : STRING, requireDelegation : BOOLEAN, maxLifetime : 0..(DurationLimit - 2),
           allowedScopes : SUBSET STRING, maxDepth : Nat]
    /\ "admin:*" \in OmnibusScopes

(* p asks no more than q does of a token.                                  *)
Weaker(p, q) ==
    /\ p.audience \in {NoName, q.audience}
    /\ p.requireDelegation => q.requireDelegation
    /\ p.maxLifetime = Unbound \/ (q.maxLifetime # Unbound /\ q.maxLifetime <= p.maxLifetime)
    /\ p.maxDepth = Unbound \/ (q.maxDepth # Unbound /\ q.maxDepth <= p.maxDepth)
    /\ p.allowedScopes = {} \/ (q.allowedScopes # {} /\ q.allowedScopes \subseteq p.allowedScopes)

(* The inspection can gate a pipeline: a stricter policy never finds less, *)
(* nor lets pass what a weaker one stops; the server finds all that the    *)
(* CLI finds but the depth of a chain; a token that lives longer than      *)
(* allowed is found unless its lifetime exceeds what a duration can hold;  *)
(* and the demonstration shows the four defects it was made with           *)
(* (agentauth/analyze.go:66-153, cli/agent.go:120-149).                    *)
InspectionGates ==
    /\ \A m \in AgentTokens, p, q \in AgentPolicies : Weaker(p, q) =>
          /\ Threats(Analyze(m, p).findings) \subseteq Threats(Analyze(m, q).findings)
          /\ \A failOn \in DOMAIN SeverityRank :
                AgentInspect(m, p, failOn).fails => AgentInspect(m, q, failOn).fails
    /\ \A m \in AgentTokens, p \in AgentPolicies :
          /\ Analyze(m, p).findings \ HandleAgentInspect(m, p).findings \subseteq {Finding("DEL-02", "high")}
          /\ (/\ m.decodes /\ p.maxLifetime # Unbound
              /\ m.exp > (IF m.iat = NoTime THEN Now ELSE m.iat) + p.maxLifetime
              /\ m.iat = NoTime \/ m.exp - m.iat < DurationLimit)
             => "SCOPE-02" \in Threats(Analyze(m, p).findings)
    /\ Threats(Analyze(DemoToken, DemoPolicy).findings) = {"MCP-02", "DEL-02", "SCOPE-01", "SCOPE-02"}
    /\ GateFindings(Analyze(DemoToken, DemoPolicy).findings, "high")
=============================================================================
