----------------------------- MODULE MCRotation -----------------------------
EXTENDS Rotation, TLC

Both == {"orders", "billing"}

TheVersion ==
    [orders  |-> [issuers |-> {"https://idp"}, algorithms |-> {"RS256"}, claims |-> {"sub"},
                  refresh |-> "unknown", ttl |-> 3, interval |-> NoTime,
                  library |-> [name |-> <<"github.com", "jose">>, version |-> "1"]],
     billing |-> [issuers |-> {"https://idp", "https://new"}, algorithms |-> {"RS256", "ES256"},
                  claims |-> {}, refresh |-> "unknown", ttl |-> NoTime, interval |-> NoTime,
                  library |-> [name |-> <<"github.com", "MicahParks", "keyfunc">>, version |-> "2"]]]

TheLibraries ==
    <<"jose">> :> <<[catchAll |-> TRUE, admits |-> {}, refresh |-> "unknown", ttl |-> 2, interval |-> 2]>>
    @@ <<"MicahParks", "keyfunc">> :>
           <<[catchAll |-> TRUE, admits |-> {}, refresh |-> "no", ttl |-> 1, interval |-> 1],
             [catchAll |-> FALSE, admits |-> {"1"}, refresh |-> "no", ttl |-> NoTime, interval |-> 1],
             [catchAll |-> FALSE, admits |-> {"2"}, refresh |-> "unknown", ttl |-> NoTime, interval |-> 1]>>

ThePeriods == [orders |-> 3, billing |-> 2]
TheRuns    == [orders |-> 5, billing |-> 1]
TwoRuns    == [orders |-> 2, billing |-> 2]
TheClaims  == [orders |-> {"sub"}, billing |-> {"tenant"}]

TheProposals ==
    {[kind |-> "remove_claim", issuer |-> "https://idp", claim |-> "sub"],
     [kind |-> "remove_claim", issuer |-> "https://new", claim |-> "tenant"],
     [kind |-> "change_issuer", issuer |-> "https://idp", new |-> "https://new"],
     [kind |-> "drop_algorithm", issuer |-> "https://idp", algorithm |-> "RS256"]}
=============================================================================
