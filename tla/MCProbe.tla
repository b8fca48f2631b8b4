------------------------------- MODULE MCProbe -------------------------------
(* An instance of Probe for TLC: two consumers that make different         *)
(* mistakes, the second with a bad connection, an old key and without the  *)
(* announced one; a consumer outside the allowlist, and one that is down.  *)
EXTENDS Probe

MCKeys == <<[kid |-> "k0", status |-> "retired"], [kid |-> "k1", status |-> "active"],
            [kid |-> "k2", status |-> "announced"]>>

MCConsumers ==
    <<[id |-> "orders", issuers |-> <<"idp">>, audiences |-> <<"orders", "vault">>,
       claims |-> <<"scope", "dept", "tier">>, probeable |-> TRUE, host |-> "staging"],
      [id |-> "vault", issuers |-> <<>>, audiences |-> <<"vault">>,
       claims |-> <<>>, probeable |-> TRUE, host |-> "prod"],
      [id |-> "legacy", issuers |-> <<"idp">>, audiences |-> <<"shop">>,
       claims |-> <<"sub">>, probeable |-> TRUE, host |-> "staging"],
      [id |-> "billing", issuers |-> <<>>, audiences |-> <<"billing">>,
       claims |-> <<>>, probeable |-> TRUE, host |-> "staging"]>>

MCPerforms ==
    [id \in {"orders", "vault", "legacy", "billing"} |->
        CASE id = "legacy" -> Checks \ {"audience", "expiry", "algorithm", "spellings", "keyType", "zeros", "keyPath", "claims",
                                        "padding", "rawInput", "embeddedKey", "keyURL"}
          [] id = "orders" -> Checks \ {"issuer", "notBefore", "algorithm", "none", "spellings", "signature",
                                        "embeddedKey", "segments", "bearer"}
          [] OTHER         -> Checks]

(* Expired and padded tokens are bad requests to one; a wrong issuer and   *)
(* missing claims are forbidden to all.                                    *)
MCBadRequest ==
    [id \in {"orders", "vault", "legacy", "billing"} |->
        IF id = "orders" THEN {"expiry", "padding"} ELSE {}]

MCForbidden == [id \in {"orders", "vault", "legacy", "billing"} |-> {"issuer", "claims"}]

MCTrusts ==
    [id \in {"orders", "vault", "legacy", "billing"} |->
        CASE id = "legacy" -> {"k0", "k1"} [] OTHER -> {"k1", "k2"}]

(* Tokens of agents, each with two of its claims out of the ordinary.      *)
Plain ==
    [decodes |-> TRUE, aud |-> [kind |-> "string", names |-> {"mcp"}], act |-> <<"actor">>,
     scope |-> <<"read">>, scp |-> <<>>, exp |-> 12, iat |-> 9]

Auds == {[kind |-> "missing", names |-> {}], [kind |-> "string", names |-> {NoName}],
         [kind |-> "list", names |-> {}], [kind |-> "list", names |-> {"mcp", "other"}],
         [kind |-> "number", names |-> {}]}
Chains == {<<>>, <<"actor", "actor">>, <<"actor", "nameless">>, <<"text">>}
Times  == {<<-1, 9>>, <<-1, -1>>, <<13, -1>>, <<18, 9>>, <<100, 9>>, <<200, 9>>, <<200, -1>>, <<5, 9>>}

MCAgentTokens ==
    {Plain, [Plain EXCEPT !.decodes = FALSE]}
    \cup {[Plain EXCEPT !.aud = aud, !.act = chain] : aud \in Auds, chain \in Chains}
    \cup {[Plain EXCEPT !.exp = t[1], !.iat = t[2], !.scp = scp] :
              t \in Times, scp \in {<<>>, <<"write">>, <<"Admin", "write">>}}

MCAgentPolicies ==
    {p \in [audience : {"", "mcp"}, requireDelegation : BOOLEAN, maxLifetime : {0, 3, 8},
            allowedScopes : {{}, {"read"}, {"read", "write"}}, maxDepth : {0, 1}] :
        p.requireDelegation <=> p.audience = "mcp"}

(* The hypotheses of the theorem about ExactFindings hold of this instance. *)
ASSUME MCProbeAssumption == WellDescribed /\ WellFormedInputs
=============================================================================
