SPECIFICATION Spec
CONSTANTS
    Consumers <- MCConsumers
    Keys <- MCKeys
    IssuerURL = "idp"
    Performs <- MCPerforms
    Trusts <- MCTrusts
    BadRequest <- MCBadRequest
    Forbidden <- MCForbidden
    Flaky = {"legacy"}
    Down = {"billing"}
    Allowed = {"staging"}
    AgentTokens <- MCAgentTokens
    AgentPolicies <- MCAgentPolicies
    OmnibusScopes = {"Admin", "admin:*"}
    Now = 10
    DurationLimit = 100
    MaxConcurrentGlobal = 2
    AbortOnConsecutive5xx = 2
    MaxRequiredClaimProbes = 2
    MaxFaults = 3
    FaultHorizon = 3
CHECK_DEADLOCK FALSE
INVARIANTS
    TypeOK
    ExactFindings
    LetAlone
    Contained
    NoCutOffResults
PROPERTY Returns
