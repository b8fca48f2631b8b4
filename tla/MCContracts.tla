----------------------------- MODULE MCContracts -----------------------------
(* Contract graphs of a single consumer, for the instances of this project. *)
LOCAL INSTANCE TLC

Orders == [audiences |-> {"orders"}, issuers |-> {"idp"}, algorithms |-> {"RS256"},
           requiredClaims |-> {"sub"}, clockSkew |-> 0, refresh |-> "yes",
           cacheTTL |-> 300, metadata |-> "v1", doubtful |-> {}]

Graph(consumer) == ("orders" :> consumer)

Plain    == Graph(Orders)
(* Accepts another audience and more clock skew: two changes, both worth a *)
(* page; going back they are two changes and neither is.                   *)
Widened  == Graph([Orders EXCEPT !.audiences = {"orders", "admin"}, !.clockSkew = 60])
(* Hashes differently, yet has no difference the differ reports.           *)
Upgraded == Graph([Orders EXCEPT !.metadata = "v2"])
Empty    == [c \in {} |-> Orders]
=============================================================================
