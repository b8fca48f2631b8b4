------------------------------- MODULE MCCloud -------------------------------
(* A repository of one small shop, the places around it, and their tenants. *)
EXTENDS Cloud

File(path, docs) == [path |-> path, docs |-> docs]

App(name) == "app" :> name

RA(name, ns, app, issuer, audiences) ==
    [kind |-> "RequestAuthentication", name |-> name, ns |-> ns, selector |-> App(app),
     labels |-> "team" :> "payments",
     rules |-> <<[issuer |-> issuer, audiences |-> audiences, jwksURI |-> "keys"]>>]

Requires(name, ns, selector, claim) ==
    [kind |-> "AuthorizationPolicy", name |-> name, ns |-> ns, selector |-> selector,
     rules |-> <<<<<<"request.auth.claims", claim>>, <<"source.ip">>>>>>]

Deployment(name, ns, account, projected, env) ==
    [kind |-> "Deployment", name |-> name, ns |-> ns, labels |-> NoLabels, podLabels |-> App(name),
     account |-> account, projected |-> projected, env |-> env]

Service(name, ns) ==
    [kind |-> "Service", name |-> name, ns |-> ns, selector |-> App(name), ports |-> {80}]

Gateway(issuer, audiences, ttl) ==
    [kind |-> "Envoy", providers |-> <<[name |-> "edge", issuer |-> issuer, audiences |-> audiences,
                                        cacheTTL |-> ttl, jwksURI |-> "keys"]>>]

Hint(role, value) == [role |-> role, value |-> value]

(* The shop: a mesh policy, with the workload behind it or without. *)
Policies(audiences) == <<RA("jwt", "shop", "cart", "idp", audiences), Requires("roles", "shop", NoLabels, "role")>>
Cart   == <<Deployment("cart", "shop", "cart-sa", "cart", <<>>), Service("cart", "shop")>>
Mesh(docs) == File(<<"mesh", "/", "ra.yaml">>, docs)
Shadow == File(<<"mesh", "__", "ra.yaml">>, <<RA("jwt", "shop", "cart", "idp", <<"shadow">>)>>)
Broken == File(<<"vendor", "/", "x.yaml">>, <<[kind |-> "Unparsable"]>>)
Edge   == File(<<"edge.yaml">>, <<Gateway("idp", <<"edge">>, 600)>>)

FirstWorld  == {Mesh(Policies(<<"cart">>) \o Cart), Broken}
SecondWorld == {Mesh(Policies(<<"cart", "web">>)), Shadow}

MCWorlds  == {FirstWorld, SecondWorld}
MCOrigins == {FirstWorld}

(* Elsewhere: a workload that runs as the same service account, its policy, *)
(* one known from its environment only, and a gateway with the same name.   *)
MCElsewhere ==
    {Edge,
     File(<<"pay.yaml">>, <<Deployment("pay", "shop", "cart-sa", "pay", <<>>), Service("pay", "shop")>>),
     File(<<"payra.yaml">>, <<RA("jwt2", "shop", "pay", "idp", <<"pay">>),
                              Requires("scopes", "shop", App("pay"), "scope")>>),
     File(<<"hint.yaml">>, <<Deployment("hint", "", "", "", <<Hint("AUDIENCE", "hint"), Hint("ISSUER", "idp")>>),
                             RA("jwt3", "", "hint", "idp", <<"">>)>>),
     File(<<"edge2.yaml">>, <<Gateway("idp2", <<"edge">>, NoTTL)>>)}

Client(id, public, enabled, protocol, mapped) ==
    [id |-> id, public |-> public, enabled |-> enabled, protocol |-> protocol, mapped |-> mapped]

Clients == <<Client("cart", FALSE, TRUE, "", <<>>), Client("spa", TRUE, TRUE, "openid-connect", <<"web">>),
             Client("edge", FALSE, TRUE, "", <<"pay">>), Client("broker", FALSE, TRUE, "", <<>>),
             Client("old", FALSE, FALSE, "", <<>>), Client("sso", FALSE, TRUE, "saml", <<>>)>>

Down == [up |-> FALSE]
Realm(issuer, clients) == [up |-> TRUE, realm |-> "main", issuer |-> issuer, clients |-> clients]

(* The same realm of another Keycloak, with clients of the same names. *)
Staging == <<Client("cart", FALSE, TRUE, "", <<"staging">>), Client("edge", FALSE, TRUE, "", <<>>)>>

Live == [up |-> TRUE, docs |-> <<RA("live", "shop", "cart", "idp", <<"live">>)>>]

MCFleets ==
    {[registries |-> <<>>, clusters |-> <<>>],
     [registries |-> <<Realm("idp", Clients)>>, clusters |-> <<Live>>],
     [registries |-> <<Realm("idp2", Staging), Down, Realm("idp", Clients)>>, clusters |-> <<Down>>]}

MCScopes == {[cluster |-> "", namespaces |-> {}], [cluster |-> "prod", namespaces |-> {"shop"}]}

MCLexicalOrder == <<<<"edge.yaml">>, <<"edge2.yaml">>, <<"hint.yaml">>,
                    <<"mesh", "__", "ra.yaml">>, <<"pay.yaml">>, <<"payra.yaml">>, <<"vendor", "__", "x.yaml">>>>

Symmetry == Permutations(Workers) \cup Permutations(Users)
=============================================================================
